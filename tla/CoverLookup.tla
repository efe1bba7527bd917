----------------------------- MODULE CoverLookup -----------------------------
(***************************************************************************)
(* One lookup of a cover at the providers (online_artwork.py): the search  *)
(* at MusicBrainz, the choice of one recording among its answers, the      *)
(* requests to the Cover Art Archive, and what the resolver is told: a     *)
(* cover, or how long to ask no more.  ArtworkResolver takes all of it for *)
(* one outcome.                                                            *)
(*                                                                         *)
(* Titles and artists are compared after normalisation; an identifier that *)
(* is no UUID counts as none, 0.                                           *)
(***************************************************************************)
EXTENDS Integers, Sequences, FiniteSets, SequencesExt

CONSTANTS
  Albums,        \* albums the phone may name, "" for none
  Answers,       \* recordings MusicBrainz may return: a set of sequences
  MaxReleases,   \* COVER_ART_MAX_RELEASE_REQUESTS
  MaxRedirects,  \* COVER_ART_MAX_REDIRECTS
  RetryAfters    \* values of the Retry-After header, in seconds

\* A recording: [sure, same, releases]: its score is high enough, title and
\* artist are those of the track.  A release: [id, group, names, official,
\* preferred, original], where names are those of release and group.
AnyRelease ==
  [id : Nat, group : Nat, names : SUBSET STRING, official : BOOLEAN, preferred : BOOLEAN,
   original : BOOLEAN]
AnyRecording == [sure : BOOLEAN, same : BOOLEAN, releases : Seq(AnyRelease)]

ASSUME LookupAssumption ==
  /\ Albums \subseteq STRING /\ Answers \subseteq Seq(AnyRecording)
  /\ MaxReleases \in Nat \ {0} /\ MaxRedirects \in Nat
  /\ RetryAfters \subseteq Nat

VARIABLES
  album, found,  \* the album asked for, and the answer to the search
  match,         \* what was chosen of it
  urls,          \* candidates at the archive that are left, the present one first
  hops,          \* redirects followed for it
  gets,          \* observer: requests sent to the archive
  missing,       \* observer: candidates answered by "not found"
  failed,        \* observer: NoFailure, or the Retry-After of the failure, or Unsaid
  stage,         \* "search", "fetch" or "told"
  told           \* [cover, delay, definitive]: what the resolver learns

lookupVars == <<album, found, match, urls, hops, gets, missing, failed, stage, told>>

NoFailure == -2
Unsaid == -1
Day == 86400
NegativeTtl == 21600
RateLimitRetry == 900
TransientRetry == 300
NoCover == <<"none", 0>>

-----------------------------------------------------------------------------
(* The choice of a match.                                                  *)

\* The elements of S one after the other, as order has them.
InOrder(S, order) ==
  CHOOSE s \in [1 .. Cardinality(S) -> S] :
    IsInjective(s) /\ \A i, j \in DOMAIN s : i < j => <<s[i], s[j]>> \in order

Parsed(recording) == {r \in ToSet(recording.releases) : r.id # 0 \/ r.group # 0}

IsAlbum(r) == album # "" /\ album \in r.names

\* The rank's five Booleans, the first of which counts most, as digits.
Bit(b) == IF b THEN 1 ELSE 0
Rank(r) ==
  16 * Bit(IsAlbum(r)) + 8 * Bit(r.official) + 4 * Bit(r.preferred) + 2 * Bit(r.original)
    + Bit(r.group # 0)

\* A release on which the album is named decides; without any name it is accepted.
Accepted(recording) ==
  LET parsed == Parsed(recording) IN
  /\ recording.sure /\ recording.same /\ parsed # {}
  /\ album # "" /\ (\E r \in parsed : r.names # {}) => \E r \in parsed : IsAlbum(r)

Before(r, s) ==
  \/ Rank(r) > Rank(s)
  \/ Rank(r) = Rank(s) /\ r.group > s.group
  \/ Rank(r) = Rank(s) /\ r.group = s.group /\ r.id > s.id

\* The releases, best first.
Ranked(recording) ==
  LET parsed == Parsed(recording) IN
  InOrder(parsed, {p \in parsed \X parsed : ~Before(p[2], p[1])})

BestRank(recording) == Rank(Ranked(recording)[1])

\* The identifiers of ranked releases, each where it occurs first.
Ids(ranked) ==
  LET ids == {ranked[i].id : i \in DOMAIN ranked} \ {0}
  IN InOrder(ids, {p \in ids \X ids : \E i \in DOMAIN ranked :
                     /\ ranked[i].id = p[1] /\ \A j \in 1 .. i - 1 : ranked[j].id # p[2]})

Match(recording) ==
  [group |-> Ranked(recording)[1].group, ids |-> Ids(Ranked(recording))]

NoMatch == [group |-> 0, ids |-> <<>>]

\* The positions of what is accepted, best first.
Candidates(recordings) ==
  LET good == {i \in DOMAIN recordings : Accepted(recordings[i])}
  IN InOrder(good, {p \in good \X good :
                      BestRank(recordings[p[1]]) >= BestRank(recordings[p[2]])})

\* Mutant of Selected: of equal candidates the first is taken.
SelectedFirst(recordings) ==
  LET best == Candidates(recordings) IN
  IF best = <<>> THEN NoMatch ELSE Match(recordings[best[1]])

\* select_musicbrainz_match
Selected(recordings) ==
  LET best == Candidates(recordings) IN
  IF \/ best = <<>>
     \/ Len(best) > 1 /\ BestRank(recordings[best[1]]) = BestRank(recordings[best[2]])
  THEN NoMatch ELSE Match(recordings[best[1]])

\* _candidate_urls
CandidateUrls(m) ==
  LET Tried == IF Len(m.ids) < MaxReleases THEN Len(m.ids) ELSE MaxReleases
  IN (IF m.group = 0 THEN <<>> ELSE << <<"group", m.group>> >>)
       \o [i \in 1 .. Tried |-> <<"release", m.ids[i]>>]

-----------------------------------------------------------------------------
(* What ends a lookup.                                                     *)

LookupInit ==
  /\ album \in Albums /\ found = <<>> /\ match = NoMatch
  /\ urls = <<>> /\ hops = 0 /\ gets = 0 /\ missing = {} /\ failed = NoFailure
  /\ stage = "search" /\ told = [cover |-> NoCover, delay |-> 0, definitive |-> FALSE]

Tells(cover, delay, definitive) ==
  /\ stage' = "told"
  /\ told' = [cover |-> cover, delay |-> delay, definitive |-> definitive]

\* _retry_after_seconds, and _retry_delay: the header is believed up to a day.
RetryDelay(after, limited) ==
  IF after = Unsaid THEN IF limited THEN RateLimitRetry ELSE TransientRetry
  ELSE IF after < 1 THEN 1 ELSE IF after > Day THEN Day ELSE after

\* 429 and 5xx may say when to come back; timeouts and bad answers do not.
Fails(after, limited) == failed' = after /\ Tells(NoCover, RetryDelay(after, limited), FALSE)

SearchFails(after, limited) ==
  /\ stage = "search"
  /\ Fails(after, limited)
  /\ UNCHANGED <<album, found, match, urls, hops, gets, missing>>

SearchAnswers(recordings) ==
  /\ stage = "search" /\ found' = recordings /\ match' = Selected(recordings)
  /\ IF match' = NoMatch
     THEN Tells(NoCover, NegativeTtl, TRUE) /\ UNCHANGED urls
     ELSE stage' = "fetch" /\ urls' = CandidateUrls(match') /\ UNCHANGED told
  /\ UNCHANGED <<album, hops, gets, missing, failed>>

-----------------------------------------------------------------------------
(* _download, for one candidate after the other.                           *)

Gets == stage = "fetch" /\ gets' = gets + 1 /\ UNCHANGED <<album, found, match>>

Arrives ==
  /\ Gets /\ Tells(Head(urls), 0, FALSE)
  /\ UNCHANGED <<urls, hops, missing, failed>>

\* No image, too large an image, a refusal, or it cannot be stored.
FetchFails(after, limited) ==
  /\ Gets /\ Fails(after, limited)
  /\ UNCHANGED <<urls, hops, missing>>

Redirected(safe) ==
  /\ Gets
  /\ IF hops < MaxRedirects /\ safe
     THEN hops' = hops + 1 /\ UNCHANGED <<failed, stage, told>>
     ELSE Fails(Unsaid, FALSE) /\ UNCHANGED hops
  /\ UNCHANGED <<urls, missing>>

NotFound ==
  /\ Gets /\ missing' = missing \cup {Head(urls)}
  /\ urls' = Tail(urls) /\ hops' = 0
  /\ IF Len(urls) = 1 THEN Tells(NoCover, NegativeTtl, TRUE) ELSE UNCHANGED <<stage, told>>
  /\ UNCHANGED failed

LookupNext ==
  \/ \E recordings \in Answers : SearchAnswers(recordings)
  \/ \E after \in RetryAfters \cup {Unsaid}, limited \in BOOLEAN :
       SearchFails(after, limited) \/ FetchFails(after, limited)
  \/ \E safe \in BOOLEAN : Redirected(safe)
  \/ Arrives \/ NotFound

LookupSpec == LookupInit /\ [][LookupNext]_lookupVars

-----------------------------------------------------------------------------
\* The recordings whose best release surpasses every release of all others.
Unrivalled(recordings) ==
  LET Good == {i \in DOMAIN recordings : Accepted(recordings[i])}
      Releases(i) == Parsed(recordings[i])
  IN {i \in Good : \A j \in Good \ {i} : \E r \in Releases(i) :
                     \A s \in Releases(j) : Rank(r) > Rank(s)}

(* The answer's order is of no account: a match is chosen if and only if   *)
(* one recording surpasses all others (select_musicbrainz_match,           *)
(* "rejecting ties and malformed data").                                   *)
ChoiceUnique ==
  LET best == Unrivalled(found) IN
  match = IF best = {} THEN NoMatch ELSE Match(found[CHOOSE i \in best : TRUE])

(* Six hours of silence are for tracks without a cover only: nothing was   *)
(* chosen, or the archive has none of the candidates.  Whatever else went  *)
(* wrong is tried again when the provider asked for it, within a day.      *)
SilenceDeserved ==
  stage = "told" =>
    LET candidates == ToSet(CandidateUrls(match)) IN
    /\ told.definitive => candidates = missing /\ told.delay = NegativeTtl
    /\ failed # NoFailure => ~told.definitive /\ told.delay \in 1 .. Day
                             /\ (failed \in 1 .. Day => told.delay = failed)
    /\ told.cover # NoCover => told.cover \in candidates \ missing
    /\ told.definitive \/ failed # NoFailure \/ told.cover # NoCover

(* The archive is asked a bounded number of times, wherever it redirects.  *)
LookupBounded == gets <= (1 + MaxReleases) * (1 + MaxRedirects)

(* The three together, for every answer of both providers.                 *)
LookupRight == ChoiceUnique /\ SilenceDeserved /\ LookupBounded

=============================================================================
