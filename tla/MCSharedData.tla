----------------------------- MODULE MCSharedData -----------------------------
(***************************************************************************)
(* What is kept on the cards, for TLC: settings and their copies, the data *)
(* partition, the files of sound card and equalizer, and what is read from *)
(* pisonic-config.txt.  They share no state, so that a behaviour is one of *)
(* the four.                                                               *)
(***************************************************************************)
EXTENDS PersistentData, Provisioning, DataResize, SoundCard

VARIABLE part

AllSoundFaults == {"boot", "files", "save", "runtime", "route", "restart"}
TwoServices == <<"mpd", "radio">>

FileKeys == {"wifi", "country", "address", "hostname", "password", "ssh", "timezone", "ntp"}
WholeFile == [k \in FileKeys |-> IF k = "ssh" THEN "on" ELSE "card"]
Mistaken == [WholeFile EXCEPT !["wifi"] = "bad", !["hostname"] = "bad", !["password"] = "none"]
LockedDown == [k \in FileKeys |-> CASE k \in {"password", "timezone", "hostname"} -> "new"
                                     [] k = "ssh" -> "off"
                                     [] OTHER -> "none"]
ThreeFiles == {WholeFile, Mistaken, LockedDown}
AllTroubles == {"mount", "write", "status", "comment", "apply"}

TwoRoots == <<"radio", "network">>
Slots == {"old", "new"}
Schemas == [old |-> 1, new |-> 2]
Readers == [old |-> 1, new |-> 1]

Archive(settings, schema, sound) ==
  [sound |-> sound,
   trees |-> [r \in Names |-> IF r = "radio" THEN Tree(settings, schema, schema)
                              ELSE [Empty EXCEPT !.settings = settings]]]
Files == {Archive("other", 2, TRUE), Archive("junk", 1, FALSE)}

PartInit ==
  /\ Init /\ ResizeInit /\ CardInit /\ ProvInit
  /\ part \in {"settings", "card", "sound", "provision"}
  /\ part # "card" => original = Card
  /\ part # "settings" => firmware = "old"
  /\ part # "sound" => choice = DefaultCard /\ eqSaved = Flat /\ knob = 20
  /\ part # "provision" => lines = WholeFile

PartNext ==
  \/ part = "settings" /\ Next /\ UNCHANGED <<part, resizeVars, cardVars, provVars>>
  \/ part = "card" /\ ResizeNext /\ UNCHANGED <<part, vars, cardVars, provVars>>
  \/ part = "sound" /\ CardNext /\ UNCHANGED <<part, vars, resizeVars, provVars>>
  \/ part = "provision" /\ ProvNext /\ UNCHANGED <<part, vars, resizeVars, cardVars>>

PartFairness ==
  /\ WF_resizeVars(part = "card" /\ Run)
  /\ WF_resizeVars(part = "card" /\ SwitchOff)

PartSpec == PartInit /\ [][PartNext]_<<part, vars, resizeVars, cardVars, provVars>> /\ PartFairness

\* data_partition.py: the card is used in the end.
CardUsed == part = "card" => Expanded

=============================================================================
