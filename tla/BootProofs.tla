----------------------------- MODULE BootProofs -----------------------------
(***************************************************************************)
(* What the radio does to its card and its data when it boots:             *)
(* Provisioning for every content of the card, every sequence of boots,    *)
(* power losses, failed writes, edits and saves, and DataResize for every  *)
(* card, image and block size; both for every bound.                       *)
(*                                                                         *)
(* Two troubles are beyond what provisioning defends against and appear as *)
(* hypotheses where they matter: "journal" (power lost before ext4 has     *)
(* committed what was not synced) and "prepare" (the data partition is not *)
(* there, so that the slot keeps the password it was built with).          *)
(***************************************************************************)
EXTENDS Provisioning, DataResize, TLAPS

(***************************************************************************)
(* The texts a key can have: what the code writes itself, and what an      *)
(* owner writes on the card, where a password is never the token that      *)
(* stands for the one a freshly built image has.                           *)
(***************************************************************************)
Text == {"none", "bad", "on", "off", "web", "image"} \cup {c[k] : c \in Contents, k \in Keys}
CardText == \A c \in Contents : c \in [Keys -> Text] /\ c["password"] # "image"

TypeOK ==
  /\ lines \in [Keys -> Text] /\ wanted \in [Keys -> Text]
  /\ kept \in [Keys -> Text] /\ durable \in [Keys -> Text]
  /\ etc \in [Device -> Text]
  /\ lines["password"] # "image" /\ kept["password"] # "image" /\ durable["password"] # "image"
  /\ sshd \in BOOLEAN
  /\ stage \in {"off", "pass", "render", "services", "up"}
  /\ pass.consumed \in SUBSET Keys /\ pass.todo \in Seq(Keys)

(***************************************************************************)
(* A pass of the script handles every key at most once.                    *)
(***************************************************************************)
PassOK ==
  /\ stage # "pass" => pass = NoPass
  /\ \A i, j \in 1 .. Len(pass.todo) : i # j => pass.todo[i] # pass.todo[j]
  /\ \A i \in 1 .. Len(pass.todo) : pass.todo[i] \notin pass.consumed

(***************************************************************************)
(* LastWordKept made inductive: a key marked as consumed has its value on  *)
(* the data partition, and what a power loss may take back is still active *)
(* on the card.                                                            *)
(***************************************************************************)
Stored ==
  /\ LastWordKept
  /\ \A k \in Keys : Pending(k) => wanted[k] = lines[k]
  /\ \A k \in pass.consumed : Pending(k) /\ kept[k] = lines[k]
  /\ \A k \in Keys : kept[k] # durable[k] => Pending(k)
  /\ stage # "pass" => durable = kept

(***************************************************************************)
(* MissingShown made inductive: neither what is kept nor what a power loss *)
(* leaves lacks the credentials without the status saying so.              *)
(***************************************************************************)
Warned == kept["wifi"] = "none" \/ durable["wifi"] = "none" => "wifi" \in status

(***************************************************************************)
(* SshGuarded made inductive: while the radio runs, a hash on the data     *)
(* partition means that the slot's own password has been replaced.         *)
(***************************************************************************)
Guarded ==
  /\ SshGuarded
  /\ stage # "up" => ~sshd
  /\ stage # "off" /\ kept["password"] # "none" => shadow # "image"

-----------------------------------------------------------------------------
LEMMA KeySet ==
  /\ Keys = {"wifi", "country", "address", "hostname", "password", "ssh", "timezone", "ntp"}
  /\ Device \subseteq Keys /\ "password" \in Keys \ Device /\ "wifi" \in Keys \ Device
  /\ "ssh" \in Device
<1>1. Keys = {Order[i] : i \in 1 .. 8}
  BY DEF Keys, ToSet, Order
<1>2. Keys = {"wifi", "country", "address", "hostname", "password", "ssh", "timezone", "ntp"}
  BY <1>1, SMTT(30) DEF Order
<1>3. Device \subseteq Keys /\ "password" \in Keys \ Device /\ "wifi" \in Keys \ Device
  BY <1>2 DEF Device
<1>4. QED
  BY <1>2, <1>3 DEF Device

LEMMA TextTypes == {"none", "bad", "on", "off", "web", "image"} \subseteq Text
BY DEF Text

(***************************************************************************)
(* The order in which the script goes through the keys names each once.    *)
(***************************************************************************)
LEMMA OrderTypes ==
  /\ Order \in Seq(Keys)
  /\ \A i, j \in 1 .. Len(Order) : i # j => Order[i] # Order[j]
BY KeySet DEF Order

LEMMA TailTypes ==
  ASSUME NEW S, NEW s \in Seq(S), s # <<>>
  PROVE  /\ Tail(s) \in Seq(S) /\ Head(s) = s[1] /\ Len(s) \in Nat \ {0}
         /\ Len(Tail(s)) = Len(s) - 1
         /\ \A i \in 1 .. Len(Tail(s)) : Tail(s)[i] = s[i + 1] /\ i + 1 \in 1 .. Len(s)
OBVIOUS

(***************************************************************************)
(* Saving one field of device.ini writes all of them, and what the others  *)
(* amount to is unchanged.                                                 *)
(***************************************************************************)
LEMMA MergedTypes ==
  ASSUME TypeOK, NEW k \in Device, NEW v \in Text
  PROVE  /\ Merged(k, v) \in [Keys -> Text]
         /\ Merged(k, v)[k] = v
         /\ \A j \in Keys \ {k} : Merged(k, v)[j] = Effective(j)
         /\ \A j \in Keys \ Device : Merged(k, v)[j] = kept[j]
<1>1. \A j \in Keys : Effective(j) \in Text
  BY DEF Effective, TypeOK
<1>2. QED
  BY <1>1, KeySet DEF Merged, Effective

LEMMA RenderedTypes ==
  ASSUME TypeOK, NEW f \in [Keys -> Text]
  PROVE  /\ Rendered(f) \in [Device -> Text]
         /\ \A k \in Device : f[k] = "none" => Rendered(f)[k] = etc[k]
BY KeySet DEF Rendered, TypeOK

LEMMA ImageTypes == ImageFiles \in [Device -> Text] /\ Nothing \in [Keys -> Text]
BY TextTypes DEF ImageFiles, Nothing

-----------------------------------------------------------------------------
(***************************************************************************)
(* The steps, by name.                                                     *)
(***************************************************************************)
PassStep == \E k \in Keys : Passed(k) \/ Refused(k)
OwnerSaves ==
  \/ \E k \in Device \ {"ssh"} : SaveDevice(k, "web")
  \/ \E v \in {"on", "off"} : SaveDevice("ssh", v)

LEMMA SaveCases ==
  ASSUME OwnerSaves
  PROVE  \E k \in Device, v \in Text \ {"none"} : SaveDevice(k, v)
BY KeySet, TextTypes DEF OwnerSaves

LEMMA NextCases ==
  ProvNext <=> \/ \E fresh \in BOOLEAN : SwitchOn(fresh)
               \/ PassStep
               \/ \E k \in Keys : Written(k)
               \/ \E k \in Keys : NotWritten(k)
               \/ Close \/ RenderRuntime \/ StartServices \/ PowerOff
               \/ \E content \in Contents : EditCard(content)
               \/ OwnerSaves
               \/ RestoreBuiltin \/ SetRootPassword("web")
BY DEF ProvNext, PassStep, OwnerSaves

LEMMA InitTypes == ASSUME CardText PROVE ProvInit => TypeOK /\ PassOK
<1> SUFFICES ASSUME ProvInit PROVE TypeOK /\ PassOK
  OBVIOUS
<1>1. lines \in [Keys -> Text] /\ lines["password"] # "image"
  BY DEF ProvInit, CardText
<1>2. kept \in [Keys -> Text] /\ durable \in [Keys -> Text] /\ etc \in [Device -> Text]
  BY ImageTypes DEF ProvInit
<1>3. kept["password"] # "image" /\ durable["password"] # "image"
  BY KeySet DEF ProvInit, Nothing
<1>4. \A k \in Keys : Effective(k) \in Text
  BY <1>2, KeySet DEF Effective
<1>5. wanted \in [Keys -> Text]
  BY <1>1, <1>4 DEF ProvInit
<1>6. pass.consumed \in SUBSET Keys /\ pass.todo \in Seq(Keys) /\ Len(pass.todo) = 0
  BY DEF ProvInit, NoPass
<1>7. TypeOK
  BY <1>1, <1>2, <1>3, <1>5, <1>6 DEF ProvInit, TypeOK
<1>8. PassOK
  BY <1>6 DEF ProvInit, PassOK
<1>9. QED
  BY <1>7, <1>8

(***************************************************************************)
(* Types and the shape of a pass are preserved by every action.            *)
(***************************************************************************)
LEMMA NextTypes ==
  ASSUME CardText, TypeOK, PassOK, [ProvNext]_provVars
  PROVE  TypeOK' /\ PassOK'
<1> USE DEF TypeOK, PassOK, provVars, files, runs, budget
<1>1. CASE \E fresh \in BOOLEAN : SwitchOn(fresh)
  <2>1. PICK fresh \in BOOLEAN : SwitchOn(fresh)
    BY <1>1
  <2>2. etc' \in [Device -> Text]
    BY <2>1, ImageTypes DEF SwitchOn
  <2>3. wanted' \in [Keys -> Text]
    <3>1. \A k \in Device : ImageFiles[k] \in Text
      BY ImageTypes
    <3>2. QED
      BY <2>1, <3>1 DEF SwitchOn
  <2>4. CASE stage' = "pass" /\ pass' = [NoPass EXCEPT !.todo = Order]
    <3>1. pass'.consumed = {} /\ pass'.todo = Order
      BY <2>4 DEF NoPass
    <3>2. QED
      BY <2>1, <2>2, <2>3, <2>4, <3>1, OrderTypes DEF SwitchOn
  <2>5. CASE stage' \in {"render", "services"} /\ pass' = pass
    BY <2>1, <2>2, <2>3, <2>5 DEF SwitchOn
  <2>6. QED
    BY <2>1, <2>4, <2>5 DEF SwitchOn
<1>2. ASSUME NEW k \in Keys, NEW c \in SUBSET {k}, NEW i, Applied(k, c, i)
      PROVE  /\ pass'.consumed \in SUBSET Keys /\ pass'.todo \in Seq(Keys)
             /\ PassOK' /\ stage' = "pass"
             /\ lines' = lines /\ etc' = etc /\ sshd' = sshd /\ wanted' = wanted
  <2>1. /\ pass'.todo = Tail(pass.todo) /\ pass'.consumed = pass.consumed \cup c
        /\ pass.todo # <<>> /\ k = Head(pass.todo) /\ stage = "pass" /\ stage' = stage
    BY <1>2 DEF Applied
  <2>2. pass'.todo \in Seq(Keys) /\ pass'.consumed \in SUBSET Keys
    BY <2>1, TailTypes
  <2>3. \A n \in 1 .. Len(pass'.todo) :
          pass'.todo[n] = pass.todo[n + 1] /\ n + 1 \in 1 .. Len(pass.todo) /\ n + 1 # 1
    BY <2>1, TailTypes
  <2>4. \A n, m \in 1 .. Len(pass'.todo) : n # m => n + 1 # m + 1
    BY <2>2
  <2>5. \A n \in 1 .. Len(pass'.todo) : pass'.todo[n] # k
    <3>1. 1 \in 1 .. Len(pass.todo) /\ k = pass.todo[1]
      BY <2>1, TailTypes
    <3>2. QED
      BY <2>3, <3>1
  <2>6. QED
    BY <1>2, <2>1, <2>2, <2>3, <2>4, <2>5 DEF Applied
<1>3. CASE PassStep
  <2>1. PICK k \in Keys : Passed(k) \/ Refused(k)
    BY <1>3 DEF PassStep
  <2>2. \E i : Applied(k, {}, i)
    BY <2>1 DEF Passed, Refused
  <2>3. kept' = kept /\ durable' = durable
    BY <2>1 DEF Passed, Refused
  <2>4. QED
    BY <1>2, <2>2, <2>3
<1>4. CASE \E k \in Keys : Written(k)
  <2>1. PICK k \in Keys : Written(k)
    BY <1>4
  <2>2. kept' \in [Keys -> Text] /\ kept'["password"] # "image"
    BY <2>1, MergedTypes, KeySet DEF Written
  <2>3. durable' \in [Keys -> Text] /\ durable'["password"] # "image"
    BY <2>1, <2>2 DEF Written
  <2>4. Applied(k, {k}, {})
    BY <2>1 DEF Written, Consumes
  <2>5. QED
    BY <1>2, <2>2, <2>3, <2>4
<1>5. CASE \E k \in Keys : NotWritten(k)
  <2>1. PICK k \in Keys : NotWritten(k)
    BY <1>5
  <2>2. kept' \in [Keys -> Text] /\ kept'["password"] # "image"
    <3>1. kept' \in {kept, [kept EXCEPT ![k] = lines[k]], [kept EXCEPT ![k] = "none"]}
      BY <2>1 DEF NotWritten
    <3>2. QED
      BY <3>1, TextTypes, KeySet
  <2>3. Applied(k, {}, {k} \cap {"password"})
    BY <2>1 DEF NotWritten, Consumes
  <2>4. durable' = durable
    BY <2>1 DEF NotWritten
  <2>5. QED
    BY <1>2, <2>2, <2>3, <2>4
<1>6. CASE Close
  <2>1. lines' \in [Keys -> Text] /\ lines'["password"] # "image"
    BY <1>6, TextTypes, KeySet DEF Close
  <2>2. pass'.consumed = {} /\ pass'.todo = <<>> /\ pass' = NoPass
    BY <1>6 DEF Close, NoPass
  <2>3. QED
    BY <1>6, <2>1, <2>2 DEF Close
<1>7. CASE RenderRuntime
  BY <1>7, RenderedTypes DEF RenderRuntime
<1>8. CASE StartServices
  BY <1>8 DEF StartServices, MayStart
<1>9. CASE PowerOff
  <2>1. kept' \in [Keys -> Text] /\ kept'["password"] # "image" /\ durable' = kept'
    BY <1>9, KeySet DEF PowerOff
  <2>2. pass'.consumed = {} /\ pass'.todo = <<>> /\ pass' = NoPass
    BY <1>9 DEF PowerOff, NoPass
  <2>3. lines' = lines /\ wanted' = wanted /\ etc' = etc /\ sshd' \in BOOLEAN /\ stage' = "off"
    BY <1>9 DEF PowerOff
  <2>4. TypeOK'
    BY <2>1, <2>2, <2>3
  <2>5. PassOK'
    BY <2>2
  <2>6. QED
    BY <2>4, <2>5
<1>10. CASE \E content \in Contents : EditCard(content)
  <2>1. PICK content \in Contents : EditCard(content)
    BY <1>10
  <2>2. lines' \in [Keys -> Text] /\ lines'["password"] # "image"
    BY <2>1 DEF EditCard, CardText
  <2>3. wanted' \in [Keys -> Text]
    <3>1. \A k \in Keys : Effective(k) \in Text /\ content[k] \in Text
      BY KeySet DEF Effective, CardText
    <3>2. QED
      BY <2>1, <3>1 DEF EditCard
  <2>4. QED
    BY <2>1, <2>2, <2>3 DEF EditCard
<1>11. CASE OwnerSaves
  <2>1. PICK k \in Device, v \in Text \ {"none"} : SaveDevice(k, v)
    BY <1>11, SaveCases
  <2>2. kept' = Merged(k, v) /\ durable' = kept'
    BY <2>1 DEF SaveDevice, Saves
  <2>3. kept' \in [Keys -> Text] /\ kept'["password"] # "image"
    BY <2>2, MergedTypes, KeySet
  <2>4. etc' \in [Device -> Text] /\ sshd' \in BOOLEAN
    BY <2>1, <2>3, RenderedTypes DEF SaveDevice, MayStart
  <2>5. wanted' \in [Keys -> Text]
    BY <2>1 DEF SaveDevice, Asked
  <2>6. QED
    BY <2>1, <2>2, <2>3, <2>4, <2>5 DEF SaveDevice, Saves
<1>12. CASE RestoreBuiltin
  <2>1. kept' \in [Keys -> Text] /\ kept'["password"] # "image" /\ durable' = kept'
    BY <1>12, KeySet, TextTypes DEF RestoreBuiltin, Saves
  <2>2. QED
    BY <1>12, <2>1 DEF RestoreBuiltin, Saves
<1>13. CASE SetRootPassword("web")
  <2>1. kept' \in [Keys -> Text] /\ kept'["password"] # "image" /\ durable' = kept'
    BY <1>13, KeySet, TextTypes DEF SetRootPassword, Saves
  <2>2. wanted' \in [Keys -> Text]
    BY <1>13, TextTypes DEF SetRootPassword, Asked
  <2>3. QED
    BY <1>13, <2>1, <2>2 DEF SetRootPassword, Saves
<1>14. CASE UNCHANGED provVars
  BY <1>14
<1>15. QED
  BY <1>1, <1>3, <1>4, <1>5, <1>6, <1>7, <1>8, <1>9, <1>10, <1>11, <1>12, <1>13, <1>14,
     NextCases

-----------------------------------------------------------------------------
LEMMA InitStored == ASSUME CardText PROVE ProvInit => Stored /\ Warned /\ Guarded
<1> SUFFICES ASSUME ProvInit PROVE Stored /\ Warned /\ Guarded
  OBVIOUS
<1>1. TypeOK
  BY InitTypes
<1>2. pass.consumed = {}
  BY DEF ProvInit, NoPass
<1>3. \A k \in Keys : wanted[k] = IF Pending(k) THEN lines[k] ELSE Effective(k)
  BY DEF ProvInit
<1>4. Stored
  BY <1>2, <1>3 DEF ProvInit, Stored, LastWordKept
<1>5. Warned /\ Guarded
  BY DEF ProvInit, Warned, Guarded, SshGuarded
<1>6. QED
  BY <1>4, <1>5

(***************************************************************************)
(* The steps that change neither the card nor what is on the data          *)
(* partition nor the files of the slot keep what is stored.                *)
(***************************************************************************)
LEMMA StoredFrame ==
  ASSUME Stored, lines' = lines, kept' = kept, durable' = durable, etc' = etc, wanted' = wanted,
         pass'.consumed \subseteq pass.consumed, stage' # "pass" => durable = kept
  PROVE  Stored'
BY DEF Stored, LastWordKept, Pending, Effective

LEMMA NextStored ==
  ASSUME CardText, "journal" \notin Troubles, TypeOK, PassOK, Stored, Warned, [ProvNext]_provVars
  PROVE  Stored' /\ Warned'
<1> USE DEF provVars, files, runs, budget
<1>1. CASE \E fresh \in BOOLEAN : SwitchOn(fresh)
  <2>1. PICK fresh \in BOOLEAN : SwitchOn(fresh)
    BY <1>1
  <2>2. stage = "off" /\ pass = NoPass /\ durable = kept
    BY <2>1 DEF SwitchOn, PassOK, Stored
  <2>3. pass'.consumed = {}
    BY <2>1, <2>2 DEF SwitchOn, NoPass
  <2>4. UNCHANGED <<lines, kept, durable, status>>
    BY <2>1 DEF SwitchOn
  <2>5. \A k \in Keys : Pending(k) => wanted'[k] = wanted[k]
    BY <2>1 DEF SwitchOn
  <2>6. ASSUME NEW k \in Keys, ~Pending(k) PROVE Effective(k)' = wanted'[k]
    <3>1. CASE fresh /\ k \in Device /\ kept[k] = "none"
      BY <2>1, <2>4, <2>6, <3>1 DEF SwitchOn, Effective
    <3>2. CASE ~(fresh /\ k \in Device /\ kept[k] = "none")
      <4>1. wanted'[k] = wanted[k] /\ Effective(k) = wanted[k]
        BY <2>1, <2>6, <3>2 DEF SwitchOn, Stored, LastWordKept
      <4>2. Effective(k)' = Effective(k)
        BY <2>1, <2>4, <3>2 DEF SwitchOn, Effective
      <4>3. QED
        BY <4>1, <4>2
    <3>3. QED
      BY <3>1, <3>2
  <2>7. QED
    BY <2>2, <2>3, <2>4, <2>5, <2>6 DEF Stored, LastWordKept, Warned, Pending
<1>2. CASE PassStep
  <2>1. /\ UNCHANGED <<lines, kept, durable, etc, wanted, status, stage>>
        /\ pass'.consumed = pass.consumed
    BY <1>2 DEF PassStep, Passed, Refused, Applied
  <2>2. QED
    BY <2>1, StoredFrame DEF Stored, Warned
<1>3. CASE \E k \in Keys : Written(k)
  <2>1. PICK k \in Keys : Written(k)
    BY <1>3
  <2>2. /\ UNCHANGED <<lines, etc, wanted, status>> /\ stage' = "pass" /\ Pending(k)
        /\ pass'.consumed = pass.consumed \cup {k}
    BY <2>1 DEF Written, Applied, Consumes
  <2>3. /\ kept'[k] = lines[k]
        /\ \A j \in Keys \ {k} : Effective(j)' = Effective(j)
    <3>1. CASE k \in Device
      <4>1. kept' = Merged(k, lines[k]) /\ lines[k] \in Text
        BY <2>1, <3>1 DEF Written, TypeOK
      <4>2. QED
        BY <2>2, <3>1, <4>1, MergedTypes, KeySet DEF Effective
    <3>2. CASE k \notin Device
      <4>1. kept' = [kept EXCEPT ![k] = lines[k]]
        BY <2>1, <3>2 DEF Written
      <4>2. QED
        BY <2>2, <4>1 DEF TypeOK, Effective
    <3>3. QED
      BY <3>1, <3>2
  <2>4. \A j \in pass'.consumed : Pending(j) /\ kept'[j] = lines[j]
    <3>1. SUFFICES ASSUME NEW j \in pass.consumed, j # k PROVE kept'[j] = lines[j]
      BY <2>2, <2>3 DEF Stored
    <3>2. j \in Keys /\ Pending(j) /\ kept[j] = lines[j]
      BY DEF Stored, TypeOK
    <3>3. Effective(j) = kept[j] /\ kept[j] # "none"
      BY <3>2 DEF Effective, Pending
    <3>4. CASE k \in Device
      <4>1. kept'[j] = Effective(j)
        <5>1. kept' = Merged(k, lines[k]) /\ lines[k] \in Text
          BY <2>1, <3>4 DEF Written, TypeOK
        <5>2. QED
          BY <3>1, <3>2, <3>4, <5>1, MergedTypes
      <4>2. QED
        BY <3>2, <3>3, <4>1
    <3>5. CASE k \notin Device
      BY <2>1, <3>1, <3>2, <3>5 DEF Written, TypeOK
    <3>6. QED
      BY <3>4, <3>5
  <2>5. \A j \in Keys : kept'[j] # durable'[j] => Pending(j)
    <3>1. CASE k \in Synced
      BY <2>1, <3>1 DEF Written
    <3>2. CASE k \notin Synced
      <4>1. durable' = durable /\ kept' = [kept EXCEPT ![k] = lines[k]]
        BY <2>1, <3>2 DEF Written, Synced
      <4>2. QED
        BY <2>2, <4>1 DEF Stored, TypeOK
    <3>3. QED
      BY <3>1, <3>2
  <2>6. Stored'
    BY <2>2, <2>3, <2>4, <2>5 DEF Stored, LastWordKept, Pending
  <2>7. Warned'
    <3>1. kept'["wifi"] = kept["wifi"] \/ kept'["wifi"] # "none"
      <4>1. CASE k \in Device
        BY <2>1, <4>1, MergedTypes, KeySet DEF Written, TypeOK
      <4>2. CASE k \notin Device
        BY <2>1, <2>2, <4>2 DEF Written, TypeOK, Pending
      <4>3. QED
        BY <4>1, <4>2
    <3>2. durable' = kept' \/ durable' = durable
      BY <2>1 DEF Written
    <3>3. QED
      BY <2>2, <3>1, <3>2 DEF Warned
  <2>8. QED
    BY <2>6, <2>7
<1>4. CASE \E k \in Keys : NotWritten(k)
  <2>1. PICK k \in Keys : NotWritten(k)
    BY <1>4
  <2>2. /\ UNCHANGED <<lines, durable, etc, wanted, status>> /\ stage' = "pass" /\ Pending(k)
        /\ pass'.consumed = pass.consumed
    BY <2>1 DEF NotWritten, Applied, Consumes
  <2>3. kept' \in {kept, [kept EXCEPT ![k] = lines[k]], [kept EXCEPT ![k] = "none"]}
    BY <2>1 DEF NotWritten
  <2>4. \A j \in Keys \ {k} : kept'[j] = kept[j]
    BY <2>3 DEF TypeOK
  <2>5. k \notin pass.consumed
    <3>1. pass.todo # <<>> /\ k = Head(pass.todo)
      BY <2>1 DEF NotWritten, Applied
    <3>2. 1 \in 1 .. Len(pass.todo) /\ k = pass.todo[1]
      BY <3>1, TailTypes DEF TypeOK
    <3>3. QED
      BY <3>2 DEF PassOK
  <2>6. \A j \in Keys \ {k} : Effective(j)' = Effective(j)
    BY <2>2, <2>4 DEF Effective
  <2>7. \A j \in pass.consumed : j \in Keys \ {k}
    BY <2>5 DEF TypeOK
  <2>8. Stored'
    BY <2>2, <2>4, <2>6, <2>7 DEF Stored, LastWordKept, Pending
  <2>9. Warned'
    <3>1. kept'["wifi"] = kept["wifi"] \/ kept'["wifi"] # "none"
      <4>1. kept' \in {kept, [kept EXCEPT !["wifi"] = lines["wifi"]],
                       [kept EXCEPT !["country"] = "none"]}
        BY <2>1 DEF NotWritten
      <4>2. k # "wifi" \/ lines["wifi"] # "none"
        BY <2>2 DEF Pending
      <4>3. kept' = [kept EXCEPT !["wifi"] = lines["wifi"]] => kept' = kept \/ k = "wifi"
        BY <2>1 DEF NotWritten, TypeOK
      <4>4. QED
        BY <4>1, <4>2, <4>3, KeySet DEF TypeOK
    <3>2. QED
      BY <2>2, <3>1 DEF Warned
  <2>10. QED
    BY <2>8, <2>9
<1>5. CASE Close
  <2>1. UNCHANGED <<kept, etc, wanted>> /\ durable' = kept /\ pass'.consumed = {}
    BY <1>5 DEF Close, NoPass
  <2>2. \A k \in Keys : lines'[k] = lines[k] \/ (k \in pass.consumed /\ lines'[k] = "none")
    BY <1>5 DEF Close
  <2>3. \A k \in pass.consumed : Effective(k) = wanted[k]
    BY DEF Stored, Effective, Pending, TypeOK
  <2>4. \A k \in Keys : Effective(k)' = Effective(k)
    BY <2>1 DEF Effective
  <2>5. Stored'
    BY <2>1, <2>2, <2>3, <2>4 DEF Stored, LastWordKept, Pending
  <2>6. Warned'
    BY <1>5, <2>1 DEF Close, Warned
  <2>7. QED
    BY <2>5, <2>6
<1>6. CASE RenderRuntime
  <2>1. UNCHANGED <<lines, kept, durable, wanted, status, pass>> /\ stage' # "pass"
    BY <1>6 DEF RenderRuntime
  <2>2. stage # "pass"
    BY <1>6 DEF RenderRuntime
  <2>3. \A k \in Keys : Effective(k)' = Effective(k)
    BY <1>6, <2>1, RenderedTypes DEF RenderRuntime, Effective, TypeOK
  <2>4. QED
    BY <2>1, <2>2, <2>3 DEF Stored, LastWordKept, Pending, Warned
<1>7. CASE StartServices
  <2>1. UNCHANGED <<lines, kept, durable, etc, wanted, status, pass>> /\ stage # "pass"
    BY <1>7 DEF StartServices
  <2>2. QED
    BY <2>1, StoredFrame DEF Stored, Warned
<1>8. CASE PowerOff
  <2>1. PICK lost \in SUBSET {k \in Keys : kept[k] # durable[k]} :
          kept' = [k \in Keys |-> IF k \in lost THEN durable[k] ELSE kept[k]]
    BY <1>8 DEF PowerOff
  <2>2. durable' = kept' /\ UNCHANGED <<lines, etc, wanted, status>> /\ pass'.consumed = {}
    BY <1>8 DEF PowerOff, NoPass
  <2>3. \A k \in Keys : kept'[k] \in {kept[k], durable[k]}
    BY <2>1
  <2>4. \A k \in Keys : ~Pending(k) => kept'[k] = kept[k]
    BY <2>1 DEF Stored
  <2>5. \A k \in Keys : ~Pending(k) => Effective(k)' = Effective(k)
    BY <2>2, <2>4 DEF Effective
  <2>6. Stored'
    BY <2>2, <2>5 DEF Stored, LastWordKept, Pending
  <2>7. Warned'
    BY <2>2, <2>3, KeySet DEF Warned
  <2>8. QED
    BY <2>6, <2>7
<1>9. CASE \E content \in Contents : EditCard(content)
  <2>1. PICK content \in Contents : EditCard(content)
    BY <1>9
  <2>2. UNCHANGED <<kept, durable, etc, status, pass, stage>> /\ stage = "off" /\ lines' = content
    BY <2>1 DEF EditCard
  <2>3. durable = kept /\ pass.consumed = {}
    BY <2>2 DEF Stored, PassOK, NoPass
  <2>4. \A k \in Keys :
          wanted'[k] = IF Pending(k)' THEN lines'[k]
                       ELSE IF Pending(k) THEN Effective(k) ELSE wanted[k]
    BY <2>1, <2>2 DEF EditCard, Pending
  <2>5. \A k \in Keys : Effective(k)' = Effective(k)
    BY <2>2 DEF Effective
  <2>6. Stored'
    BY <2>2, <2>3, <2>4, <2>5 DEF Stored, LastWordKept
  <2>7. QED
    BY <2>2, <2>6 DEF Warned
<1>10. CASE OwnerSaves
  <2>1. PICK k \in Device, v \in Text \ {"none"} : SaveDevice(k, v)
    BY <1>10, SaveCases
  <2>2. /\ kept' = Merged(k, v) /\ durable' = kept' /\ Asked(k, v)
        /\ UNCHANGED <<lines, status, pass, stage>> /\ stage = "up"
    BY <2>1 DEF SaveDevice, Saves
  <2>3. pass.consumed = {}
    BY <2>2 DEF PassOK, NoPass
  <2>4. kept' \in [Keys -> Text]
    BY <2>2, MergedTypes
  <2>5. \A j \in Device : kept'[j] = "none" => etc'[j] = etc[j]
    BY <2>1, <2>4, RenderedTypes DEF SaveDevice
  <2>6. \A j \in Keys \ {k} : Effective(j)' = Effective(j)
    BY <2>2, <2>5, MergedTypes DEF Effective
  <2>7. Effective(k)' = v
    BY <2>2, MergedTypes DEF Effective
  <2>8. /\ \A j \in Keys \ {k} : wanted'[j] = wanted[j]
        /\ wanted'[k] = IF Pending(k) THEN wanted[k] ELSE v
    BY <2>2, KeySet DEF Asked, TypeOK
  <2>9. Stored'
    BY <2>2, <2>3, <2>6, <2>7, <2>8 DEF Stored, LastWordKept, Pending
  <2>10. Warned'
    BY <2>2, MergedTypes, KeySet DEF Warned
  <2>11. QED
    BY <2>9, <2>10
<1>11. CASE RestoreBuiltin
  <2>1. /\ kept' = [k \in Keys |-> IF k \in Device THEN "none" ELSE kept[k]] /\ durable' = kept'
        /\ UNCHANGED <<lines, etc, status, pass, stage>> /\ stage = "up"
    BY <1>11 DEF RestoreBuiltin, Saves
  <2>2. pass.consumed = {}
    BY <2>1 DEF PassOK, NoPass
  <2>3. \A k \in Keys :
          wanted'[k] = IF k \in Device /\ ~Pending(k) THEN etc[k] ELSE wanted[k]
    BY <1>11 DEF RestoreBuiltin
  <2>4. \A k \in Keys : Effective(k)' = IF k \in Device THEN etc[k] ELSE Effective(k)
    BY <2>1 DEF Effective
  <2>5. Stored'
    BY <2>1, <2>2, <2>3, <2>4 DEF Stored, LastWordKept, Pending
  <2>6. Warned'
    BY <2>1, KeySet DEF Warned
  <2>7. QED
    BY <2>5, <2>6
<1>12. CASE SetRootPassword("web")
  <2>1. /\ durable' = kept'
        /\ UNCHANGED <<lines, etc, status, pass, stage>> /\ stage = "up"
    BY <1>12 DEF SetRootPassword, Saves
  <2>2. pass.consumed = {}
    BY <2>1 DEF PassOK, NoPass
  <2>3. \/ kept' = kept /\ wanted' = wanted
        \/ kept' = [kept EXCEPT !["password"] = "web"] /\ Asked("password", "web")
    BY <1>12 DEF SetRootPassword, Saves
  <2>4. \A k \in Keys \ {"password"} :
          kept'[k] = kept[k] /\ wanted'[k] = wanted[k] /\ Effective(k)' = Effective(k)
    BY <2>1, <2>3 DEF Asked, TypeOK, Effective
  <2>5. /\ Pending("password") => wanted'["password"] = wanted["password"]
        /\ ~Pending("password") => Effective("password")' = wanted'["password"]
    BY <2>1, <2>3, KeySet DEF Asked, TypeOK, Effective, Stored, LastWordKept
  <2>6. Stored'
    BY <2>1, <2>2, <2>4, <2>5 DEF Stored, LastWordKept, Pending
  <2>7. Warned'
    BY <2>1, <2>4, KeySet DEF Warned
  <2>8. QED
    BY <2>6, <2>7
<1>13. CASE UNCHANGED provVars
  BY <1>13, StoredFrame DEF Stored, Warned
<1>14. QED
  BY <1>1, <1>2, <1>3, <1>4, <1>5, <1>6, <1>7, <1>8, <1>9, <1>10, <1>11, <1>12, <1>13, NextCases

LEMMA NextGuarded ==
  ASSUME CardText, "prepare" \notin Troubles, TypeOK, Guarded, [ProvNext]_provVars
  PROVE  Guarded'
<1> USE DEF provVars, files, runs, budget, Guarded, SshGuarded
<1>1. CASE \E fresh \in BOOLEAN : SwitchOn(fresh)
  BY <1>1 DEF SwitchOn, Mishap, TypeOK
<1>2. CASE PassStep
  BY <1>2 DEF PassStep, Passed, Refused, Applied
<1>3. CASE \E k \in Keys : Written(k)
  <2>1. PICK k \in Keys : Written(k)
    BY <1>3
  <2>2. sshd' = sshd /\ stage = "pass" /\ stage' = stage
    BY <2>1 DEF Written, Applied
  <2>3. CASE k = "password"
    BY <2>1, <2>2, <2>3 DEF Written, TypeOK
  <2>4. CASE k # "password"
    <3>1. shadow' = shadow
      BY <2>1, <2>4 DEF Written
    <3>2. kept'["password"] = kept["password"]
      BY <2>1, <2>4, MergedTypes, KeySet DEF Written, TypeOK
    <3>3. QED
      BY <2>2, <3>1, <3>2
  <2>5. QED
    BY <2>3, <2>4
<1>4. CASE \E k \in Keys : NotWritten(k)
  <2>1. PICK k \in Keys : NotWritten(k)
    BY <1>4
  <2>2. sshd' = sshd /\ stage = "pass" /\ stage' = stage
    BY <2>1 DEF NotWritten, Applied
  <2>3. kept'["password"] = kept["password"]
    <3>1. kept' \in {kept, [kept EXCEPT !["wifi"] = lines["wifi"]],
                     [kept EXCEPT !["country"] = "none"]}
      BY <2>1 DEF NotWritten
    <3>2. QED
      BY <3>1, KeySet DEF TypeOK
  <2>4. shadow' \in {shadow, lines["password"]}
    BY <2>1 DEF NotWritten
  <2>5. QED
    BY <2>2, <2>3, <2>4 DEF TypeOK
<1>5. CASE Close
  BY <1>5 DEF Close
<1>6. CASE RenderRuntime
  BY <1>6 DEF RenderRuntime
<1>7. CASE StartServices
  BY <1>7 DEF StartServices, MayStart
<1>8. CASE PowerOff
  BY <1>8 DEF PowerOff
<1>9. CASE \E content \in Contents : EditCard(content)
  BY <1>9 DEF EditCard
<1>10. CASE OwnerSaves
  <2>1. PICK k \in Device, v \in Text \ {"none"} : SaveDevice(k, v)
    BY <1>10, SaveCases
  <2>2. /\ kept' = Merged(k, v) /\ shadow' = shadow /\ stage = "up" /\ stage' = "up"
        /\ sshd' \in {sshd, MayStart(kept')}
    BY <2>1 DEF SaveDevice, Saves
  <2>3. kept'["password"] = kept["password"]
    BY <2>2, MergedTypes, KeySet
  <2>4. QED
    BY <2>2, <2>3 DEF MayStart
<1>11. CASE RestoreBuiltin
  <2>1. /\ shadow' = shadow /\ stage = "up" /\ stage' = "up" /\ (sshd' => sshd)
        /\ kept' = [k \in Keys |-> IF k \in Device THEN "none" ELSE kept[k]]
    BY <1>11 DEF RestoreBuiltin, Saves
  <2>2. kept'["password"] = kept["password"]
    BY <2>1, KeySet
  <2>3. QED
    BY <2>1, <2>2
<1>12. CASE SetRootPassword("web")
  <2>1. sshd' = sshd /\ stage = "up" /\ stage' = "up" /\ shadow' \in {shadow, "web"}
    BY <1>12 DEF SetRootPassword, Saves
  <2>2. \/ kept' = kept
        \/ kept'["password"] = "web" /\ shadow' = "web"
    BY <1>12, KeySet DEF SetRootPassword, Saves, TypeOK
  <2>3. QED
    BY <2>1, <2>2
<1>13. CASE UNCHANGED provVars
  BY <1>13
<1>14. QED
  BY <1>1, <1>2, <1>3, <1>4, <1>5, <1>6, <1>7, <1>8, <1>9, <1>10, <1>11, <1>12, <1>13, NextCases

-----------------------------------------------------------------------------
(***************************************************************************)
(* Type correctness, with the shape of a pass over the keys.               *)
(***************************************************************************)
THEOREM ProvisioningTypes == ASSUME CardText PROVE ProvSpec => [](TypeOK /\ PassOK)
<1>1. TypeOK /\ PassOK /\ [ProvNext]_provVars => (TypeOK /\ PassOK)'
  BY NextTypes
<1>2. QED
  BY <1>1, InitTypes, PTL DEF ProvSpec

(***************************************************************************)
(* No setting of the card is lost, and missing WiFi credentials are shown, *)
(* whatever fails or loses power, as long as ext4 commits before power     *)
(* goes.                                                                   *)
(***************************************************************************)
THEOREM SettingsKept ==
  ASSUME CardText, "journal" \notin Troubles
  PROVE  ProvSpec => [](LastWordKept /\ MissingShown)
<1>1. ProvInit => TypeOK /\ PassOK /\ Stored /\ Warned
  BY InitTypes, InitStored
<1>2. TypeOK /\ PassOK /\ Stored /\ Warned /\ [ProvNext]_provVars
        => (TypeOK /\ PassOK /\ Stored /\ Warned)'
  BY NextTypes, NextStored
<1>3. Stored /\ Warned => LastWordKept /\ MissingShown
  BY DEF Stored, Warned, MissingShown
<1>4. QED
  BY <1>1, <1>2, <1>3, PTL DEF ProvSpec

(***************************************************************************)
(* SSH answers only with a password of the owner's, whatever slot boots,   *)
(* as long as the data partition is there at boot.                         *)
(***************************************************************************)
THEOREM SshNeedsPassword ==
  ASSUME CardText, "prepare" \notin Troubles
  PROVE  ProvSpec => []SshGuarded
<1>1. ProvInit => TypeOK /\ PassOK /\ Guarded
  BY InitTypes, InitStored
<1>2. TypeOK /\ PassOK /\ Guarded /\ [ProvNext]_provVars => (TypeOK /\ PassOK /\ Guarded)'
  BY NextTypes, NextGuarded
<1>3. Guarded => SshGuarded
  BY DEF Guarded
<1>4. QED
  BY <1>1, <1>2, <1>3, PTL DEF ProvSpec

(***************************************************************************)
(* The property of the run: the two theorems together.                     *)
(***************************************************************************)
THEOREM ProvisionedAlways ==
  ASSUME CardText, Troubles \cap {"prepare", "journal"} = {}
  PROVE  ProvSpec => []Provisioned
<1>1. LastWordKept /\ MissingShown /\ SshGuarded => Provisioned
  BY DEF Provisioned
<1>2. "prepare" \notin Troubles /\ "journal" \notin Troubles
  OBVIOUS
<1>3. QED
  BY <1>1, <1>2, SettingsKept, SshNeedsPassword, PTL

-----------------------------------------------------------------------------
(***************************************************************************)
(* DataResize.                                                             *)
(***************************************************************************)

(***************************************************************************)
(* Contained made inductive: table and kernel know two sizes, a table that *)
(* is about to be replaced has been saved, and the kernel is told what the *)
(* table says.                                                             *)
(***************************************************************************)
Sized ==
  /\ original \in Sizes /\ mbr \in {original, Card} /\ kernel \in {original, mbr}
  /\ copy \in {0, original} /\ fs \in Nat

Saved ==
  /\ mbr # original \/ at = "write" => copy = original
  /\ at = "tell" => mbr = Card

RInv == Sized /\ Saved /\ Contained

(***************************************************************************)
(* Whole blocks: as many as fit into a partition fit, and so do fewer.     *)
(***************************************************************************)
LEMMA BlocksFit ==
  ASSUME NEW n \in Nat, NEW b \in Nat \ {0}
  PROVE  n \div b \in Nat /\ (n \div b) * b <= n
<1>1. n \div b \in Nat
  BY SMT
<1>2. (n \div b) * b <= n
  BY SMT
<1>3. QED
  BY <1>1, <1>2

LEMMA MoreBlocks ==
  ASSUME NEW m \in Nat, NEW n \in Nat, NEW b \in Nat, NEW k \in Nat, m <= n, n * b <= k
  PROVE  m * b <= k
<1>1. m * b \in Nat /\ n * b \in Nat
  BY SMT
<1>2. m * b <= n * b
  BY SMT
<1>3. QED
  BY <1>1, <1>2

(***************************************************************************)
(* The image, and every step.                                              *)
(***************************************************************************)
LEMMA ResizeBegins == ASSUME ResizeInit PROVE RInv
<1>1. original \in Nat /\ original \in 1 .. Card
  BY SizesAssumption DEF ResizeInit
<1>2. original \div Block \in Nat /\ (original \div Block) * Block <= original
  BY <1>1, BlocksFit, SizesAssumption
<1>3. QED
  BY <1>1, <1>2, SizesAssumption DEF ResizeInit, RInv, Sized, Saved, Contained

LEMMA ResizeStep == ASSUME RInv, [ResizeNext]_resizeVars PROVE RInv'
<1> USE SizesAssumption DEF RInv, Sized, Saved, Contained
<1>0. /\ original \in Nat /\ original >= 1 /\ original <= Card
      /\ kernel \in Nat /\ mbr \in Nat /\ kernel <= mbr
  OBVIOUS
<1>1. CASE PowersOn
  <2>1. fs * Block <= kernel'
    BY <1>0, <1>1 DEF PowersOn
  <2>2. QED
    BY <2>1, <1>0, <1>1 DEF PowersOn
<1>2. CASE Discover
  BY <1>0, <1>2 DEF Discover, Available
<1>3. CASE Mark
  BY <1>0, <1>3 DEF Mark
<1>4. CASE Save
  BY <1>0, <1>4 DEF Save
<1>5. CASE Write
  BY <1>0, <1>5 DEF Write
<1>6. CASE Tell
  <2>1. kernel' \in {kernel, Card} /\ kernel <= kernel' /\ fs * Block <= kernel'
    BY <1>0, <1>6 DEF Tell
  <2>2. QED
    BY <1>0, <1>6, <2>1 DEF Tell
<1>7. CASE Grow
  <2>1. Target \in Nat
    BY BlocksFit DEF Target
  <2>2. fs' \in Nat /\ fs' * Block <= kernel
    <3>1. CASE fs' = fs
      BY <3>1
    <3>2. CASE fs' = Target /\ Target * Block <= kernel
      BY <3>2, <2>1
    <3>3. CASE fs' \in fs .. Target /\ Target * Block <= kernel
      <4>1. fs' \in Nat /\ fs' <= Target
        BY <3>3, <2>1
      <4>2. Target * Block <= kernel /\ Block \in Nat /\ kernel \in Nat
        BY <1>0, <3>3
      <4>3. fs' * Block <= kernel
        BY ONLY <4>1, <4>2, <2>1, MoreBlocks
      <4>4. QED
        BY <4>1, <4>3
    <3>4. QED
      BY <1>7, <2>1, <3>1, <3>2, <3>3 DEF Grow
  <2>3. QED
    BY <1>0, <1>7, <2>2 DEF Grow
<1>8. CASE SwitchOff \/ PowerGoes
  BY <1>0, <1>8 DEF SwitchOff, PowerGoes
<1>9. CASE UNCHANGED resizeVars
  BY <1>9 DEF resizeVars
<1>10. QED
  BY <1>1, <1>2, <1>3, <1>4, <1>5, <1>6, <1>7, <1>8, <1>9 DEF ResizeNext, Run

(***************************************************************************)
(* Whatever fails and whenever power goes, the file system lies in the     *)
(* partition that the kernel knows, that in the partition of the table,    *)
(* that on the card, and the first table ever replaced is kept.            *)
(***************************************************************************)
THEOREM SizesFit == ResizeSpec => []Contained
<1>1. ResizeInit => RInv
  BY ResizeBegins
<1>2. RInv /\ [ResizeNext]_resizeVars => RInv'
  BY ResizeStep
<1>3. RInv => Contained
  BY DEF RInv
<1>4. QED
  BY <1>1, <1>2, <1>3, PTL DEF ResizeSpec

=============================================================================
