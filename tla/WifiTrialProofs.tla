--------------------------- MODULE WifiTrialProofs ---------------------------
(***************************************************************************)
(* WifiTrial for any number of overlapping requests, any configurations,   *)
(* and every set and number of faults.                                     *)
(***************************************************************************)
EXTENDS WifiTrial, TLAPS

(***************************************************************************)
(* Type correctness: a thread that is to write a configuration has one.    *)
(***************************************************************************)
Types ==
  /\ TypeOK
  /\ \A t \in Threads :
       pc[t] \in {"save", "saveStatic", "write", "writeStatic"} => config[t] \in Configs

(***************************************************************************)
(* Files that hold a trial and what is needed to undo it; files between    *)
(* two trials.                                                             *)
(***************************************************************************)
Saved == files.wpaPrev = agreed.wpa /\ files.staticPrev = agreed.static
Trial == files.marker /\ Saved
Rest == ~files.marker /\ AsAgreed

(***************************************************************************)
(* What the files hold when a thread is at a place and nobody else is      *)
(* busy.                                                                   *)
(***************************************************************************)
FilesAt(place) ==
  /\ place \in {"save", "drop", "dropStatic", "restartUndone", "confirmDrop", "confirmDropStatic"} => Rest
  /\ place = "saveStatic" => Rest /\ files.wpaPrev = agreed.wpa
  /\ place = "write" => Rest /\ Saved
  /\ place \in {"writeStatic", "mark"} => ~files.marker /\ Saved
  /\ place \in {"restart", "wait", "undo", "confirm", "probe"} => Trial
  /\ place = "undoStatic" => Trial /\ files.wpa = agreed.wpa
  /\ place = "unmark" => Trial /\ AsAgreed
  /\ place = "late" => Trial \/ Rest

(***************************************************************************)
(* While it is clear what was agreed upon, one thread at most is busy, and *)
(* its place tells what is in the files.                                   *)
(***************************************************************************)
Orderly ==
  Undisturbed =>
    /\ agreed.wpa \in Configs
    /\ \A t, u \in Threads : Busy(t) /\ Busy(u) => t = u
    /\ \A t \in Threads : Busy(t) => FilesAt(pc[t])
    /\ Quiet => Trial \/ Rest

LEMMA InitOrderly == Init => Types /\ Orderly
<1> SUFFICES ASSUME Init PROVE Types /\ Orderly
  OBVIOUS
<1>1. Initial \in Configs /\ StaticOf(Initial) \in Static \union {None}
  BY ConfigsAssumption DEF StaticOf
<1>2. Types
  <2>1. files \in [wpa : Configs, wpaPrev : Configs \union {None},
                  static : Static \union {None}, staticPrev : Static \union {None},
                  marker : BOOLEAN]
    BY <1>1 DEF Init
  <2>2. agreed \in [wpa : Configs, static : Static \union {None}]
    BY <1>1 DEF Init
  <2>3. wifi \in [at : {"associate", "address", "up"}, wpa : Configs \union {None}]
    BY <1>1 DEF Init
  <2>4. pc \in [Threads -> {"idle"}] /\ config \in [Threads -> {None}] /\ faults \in 0 .. MaxFaults
    BY BoundAssumption DEF Init
  <2>5. \A t \in Threads : pc[t] = "idle"
    BY DEF Init
  <2> HIDE DEF Init
  <2>6. address \in BOOLEAN /\ cut \in BOOLEAN
    BY DEF Init
  <2>7. TypeOK
    BY <2>1, <2>2, <2>3, <2>4, <2>6 DEF TypeOK
  <2>8. QED
    BY <2>5, <2>7 DEF Types
<1>3. \A t \in Threads : ~Busy(t)
  BY DEF Init, Busy, Working, Apply, Undo, Confirm
<1>4. Rest /\ agreed.wpa \in Configs
  BY <1>1 DEF Init, Rest, AsAgreed
<1>5. QED
  BY <1>2, <1>3, <1>4 DEF Orderly

-----------------------------------------------------------------------------
(* What one step of a thread's program does, place by place.               *)

Writes(t, file, to, then) == Now(t).file = file /\ Now(t).to = to /\ Now(t).then = then

LEMMA Places ==
  ASSUME NEW t \in Threads
  PROVE  /\ AtFile(t) <=> pc[t] \in {"save", "saveStatic", "write", "writeStatic", "mark",
                                     "undo", "undoStatic", "unmark", "drop", "dropStatic",
                                     "confirm", "confirmDrop", "confirmDropStatic"}
         /\ pc[t] = "save" => Writes(t, "wpaPrev", files.wpa, "saveStatic")
         /\ pc[t] = "saveStatic" => Writes(t, "staticPrev", files.static, "write")
         /\ pc[t] = "write" => Writes(t, "wpa", config[t], "writeStatic")
         /\ pc[t] = "writeStatic" => Writes(t, "static", StaticOf(config[t]), "mark")
         /\ pc[t] = "mark" => Writes(t, "marker", TRUE, "restart")
         /\ pc[t] = "undo" => Writes(t, "wpa", Undone.wpa, "undoStatic")
         /\ pc[t] = "undoStatic" => Writes(t, "static", Undone.static, "unmark")
         /\ pc[t] = "unmark" => Writes(t, "marker", FALSE, "drop")
         /\ pc[t] = "drop" => Writes(t, "wpaPrev", None, "dropStatic")
         /\ pc[t] = "dropStatic" => Writes(t, "staticPrev", None, "restartUndone")
         /\ pc[t] = "confirm" => Writes(t, "marker", FALSE, "confirmDrop")
         /\ pc[t] = "confirmDrop" => Writes(t, "wpaPrev", None, "confirmDropStatic")
         /\ pc[t] = "confirmDropStatic" => Writes(t, "staticPrev", None, "idle")
<1>1. DOMAIN Program(t) = {"save", "saveStatic", "write", "writeStatic", "mark",
                            "undo", "undoStatic", "unmark", "drop", "dropStatic",
                            "confirm", "confirmDrop", "confirmDropStatic"}
  BY DEF Program
<1> USE DEF Program, Now, Sets, Writes
<1>2. pc[t] = "save" => Writes(t, "wpaPrev", files.wpa, "saveStatic")
  OBVIOUS
<1>3. pc[t] = "saveStatic" => Writes(t, "staticPrev", files.static, "write")
  OBVIOUS
<1>4. pc[t] = "write" => Writes(t, "wpa", config[t], "writeStatic")
  OBVIOUS
<1>5. pc[t] = "writeStatic" => Writes(t, "static", StaticOf(config[t]), "mark")
  OBVIOUS
<1>6. pc[t] = "mark" => Writes(t, "marker", TRUE, "restart")
  OBVIOUS
<1>7. pc[t] = "undo" => Writes(t, "wpa", Undone.wpa, "undoStatic")
  OBVIOUS
<1>8. pc[t] = "undoStatic" => Writes(t, "static", Undone.static, "unmark")
  OBVIOUS
<1>9. pc[t] = "unmark" => Writes(t, "marker", FALSE, "drop")
  OBVIOUS
<1>10. pc[t] = "drop" => Writes(t, "wpaPrev", None, "dropStatic")
  OBVIOUS
<1>11. pc[t] = "dropStatic" => Writes(t, "staticPrev", None, "restartUndone")
  OBVIOUS
<1>12. pc[t] = "confirm" => Writes(t, "marker", FALSE, "confirmDrop")
  OBVIOUS
<1>13. pc[t] = "confirmDrop" => Writes(t, "wpaPrev", None, "confirmDropStatic")
  OBVIOUS
<1>14. pc[t] = "confirmDropStatic" => Writes(t, "staticPrev", None, "idle")
  OBVIOUS
<1>15. AtFile(t) <=> pc[t] \in DOMAIN Program(t)
  BY DEF AtFile
<1> HIDE DEF Program, Now, Sets, Writes
<1>16. QED
  BY <1>1, <1>2, <1>3, <1>4, <1>5, <1>6, <1>7, <1>8, <1>9, <1>10, <1>11, <1>12, <1>13, <1>14, <1>15

FileSets == [wpa : Configs, wpaPrev : Configs \union {None},
             static : Static \union {None}, staticPrev : Static \union {None},
             marker : BOOLEAN]

Changes(name, v) ==
  /\ files'.wpa = IF name = "wpa" THEN v ELSE files.wpa
  /\ files'.wpaPrev = IF name = "wpaPrev" THEN v ELSE files.wpaPrev
  /\ files'.static = IF name = "static" THEN v ELSE files.static
  /\ files'.staticPrev = IF name = "staticPrev" THEN v ELSE files.staticPrev
  /\ files'.marker = IF name = "marker" THEN v ELSE files.marker

\* The named file changes, and no other.
LEMMA OneFile ==
  ASSUME files \in FileSets, NEW t \in Threads, files' = Changed(t)
  PROVE  \A name \in DOMAIN files : \A v, then : Writes(t, name, v, then) => Changes(name, v)
BY DEF Changed, Writes, Changes, FileSets

LEMMA FileTypes ==
  ASSUME Types, NEW t \in Threads, AtFile(t)
  PROVE  /\ Changed(t) \in FileSets
         /\ Now(t).then \in Working \union {"idle"}
         /\ Now(t).then \in {"save", "saveStatic", "write", "writeStatic"}
              => pc[t] \in {"save", "saveStatic", "write"}
<1>1. files \in FileSets
  BY DEF Types, TypeOK, FileSets
<1> USE DEF Writes, Changed, FileSets
<1>2. CASE pc[t] \in {"save", "undo", "write"}
  BY <1>1, <1>2, Places DEF Undone, Types, Working, Apply, Undo
<1>3. CASE pc[t] \in {"saveStatic", "writeStatic", "undoStatic"}
  BY <1>1, <1>3, Places DEF Undone, Types, StaticOf, Working, Apply, Undo
<1>4. CASE pc[t] \in {"mark", "unmark", "confirm"}
  BY <1>1, <1>4, Places DEF Working, Apply, Undo, Confirm
<1>5. CASE pc[t] \in {"drop", "dropStatic", "confirmDrop", "confirmDropStatic"}
  BY <1>1, <1>5, Places DEF Working, Apply, Undo, Confirm
<1>6. QED
  BY <1>2, <1>3, <1>4, <1>5, Places

-----------------------------------------------------------------------------
(* Every action keeps the types.                                           *)

LEMMA ThreadTypes ==
  ASSUME Types, NEW t \in Threads, Thread(t) \/ WriteFails(t)
  PROVE  Types'
<1> USE DEF Goto, Step, Fault, radio, observers, AgreedIf
<1>1. CASE FileStep(t)
  <2>1. files' \in FileSets /\ Now(t).then \in Working \union {"idle"}
    BY <1>1, FileTypes DEF FileStep
  <2>2. agreed' \in [wpa : Configs, static : Static \union {None}] \union {None}
    <3>1. agreed' \in {agreed, None, [wpa |-> files.wpa, static |-> files.static]}
      BY <1>1 DEF FileStep
    <3>2. QED
      BY <3>1 DEF Types, TypeOK
  <2>3. /\ pc' = [pc EXCEPT ![t] = Now(t).then] /\ UNCHANGED <<wifi, address, cut, faults>>
        /\ config' = [config EXCEPT ![t] = IF pc[t] \in {"save", "saveStatic", "write"} THEN @ ELSE None]
    BY <1>1 DEF FileStep
  <2>4. \A u \in Threads : pc'[u] \in {"save", "saveStatic", "write", "writeStatic"} => config'[u] \in Configs
    BY <1>1, <2>3, FileTypes DEF FileStep, Types, TypeOK
  <2>5. pc' \in [Threads -> Working \union Watch \union {"idle"}]
    BY <2>1, <2>3 DEF Types, TypeOK
  <2>6. config' \in [Threads -> Configs \union {None}]
    BY <2>3 DEF Types, TypeOK
  <2> HIDE DEF Goto, Step, Fault, radio, observers, AgreedIf
  <2>7. TypeOK'
    BY <2>1, <2>2, <2>3, <2>5, <2>6 DEF Types, TypeOK, FileSets
  <2>8. QED
    BY <2>4, <2>7 DEF Types
<1>2. CASE WriteFails(t)
  BY <1>2, BoundAssumption DEF WriteFails, Types, TypeOK
<1>3. CASE Restarts(t)
  BY <1>3 DEF Restarts, Stopped, Types, TypeOK, Working, Apply
<1>4. CASE Arms(t) \/ GivesUp(t)
  BY <1>4, BoundAssumption DEF Arms, GivesUp, Types, TypeOK, Watch, Working, Undo
<1>5. CASE Looks(t) \/ DeadlineComes(t) \/ FindsPending(t)
  BY <1>5 DEF Looks, DeadlineComes, FindsPending, Types, TypeOK, Watch
<1>6. CASE ProbesAddress(t)
  BY <1>6, BoundAssumption DEF ProbesAddress, Types, TypeOK, Working, Undo
<1>7. QED
  BY <1>1, <1>2, <1>3, <1>4, <1>5, <1>6 DEF Thread

LEMMA CollisionTypes ==
  ASSUME Types, NEW t \in Threads, NEW u \in Threads, Collides(t, u)
  PROVE  Types'
<1>1. AtFile(t) /\ AtFile(u)
  BY Places DEF Collides, Replaces
<1>2. files' \in FileSets
  BY <1>1, FileTypes DEF Collides
<1>3. /\ pc' = [pc EXCEPT ![t] = Now(t).then, ![u] = "idle"] /\ config' = [config EXCEPT ![u] = None]
      /\ t # u /\ UNCHANGED <<wifi, address, agreed, cut, faults>>
  BY DEF Collides, radio, observers
<1>4. pc' \in [Threads -> Working \union Watch \union {"idle"}]
  BY <1>1, <1>3, FileTypes DEF Types, TypeOK
<1>5. config' \in [Threads -> Configs \union {None}]
  BY <1>3 DEF Types, TypeOK
<1>6. \A v \in Threads : pc'[v] \in {"save", "saveStatic", "write", "writeStatic"} => config'[v] \in Configs
  BY <1>1, <1>3, FileTypes DEF Types, TypeOK
<1>7. TypeOK'
  BY <1>2, <1>3, <1>4, <1>5 DEF Types, TypeOK, FileSets
<1>8. QED
  BY <1>6, <1>7 DEF Types

LEMMA OtherTypes ==
  ASSUME Types,
         \/ Wifi \/ HelperRestarts \/ PowerLoss \/ UNCHANGED vars
         \/ \E t \in Threads : AskDecision(t) \/ \E c \in Configs : AskApply(t, c)
  PROVE  Types'
<1> USE DEF Fault, radio, observers, AgreedIf, Types, TypeOK
<1>1. CASE Wifi
  <2>1. UNCHANGED <<files, pc, config, agreed, cut, faults>> /\ address' \in BOOLEAN
    BY <1>1 DEF Wifi, Associates, Addresses, LeaseArrives
  <2>2. wifi' \in [at : {"associate", "address", "up"}, wpa : Configs \union {None}]
    BY <1>1 DEF Wifi, Associates, Addresses, LeaseArrives
  <2>3. QED
    BY <2>1, <2>2
<1>2. CASE HelperRestarts
  BY <1>2, BoundAssumption DEF HelperRestarts, Ended
<1>3. CASE PowerLoss
  <2>1. /\ files' = [files EXCEPT !.marker = FALSE] /\ pc' = [t \in Threads |-> "idle"]
        /\ config' = [t \in Threads |-> None] /\ agreed' \in {agreed, None}
        /\ wifi' = [at |-> "associate", wpa |-> None] /\ address' = FALSE /\ cut' = FALSE
        /\ faults' \in 0 .. MaxFaults
    BY <1>3, BoundAssumption DEF PowerLoss, Ended, Stopped
  <2>2. wifi' \in [at : {"associate", "address", "up"}, wpa : Configs \union {None}]
    BY <2>1
  <2>3. QED
    BY <2>1, <2>2
<1>4. CASE UNCHANGED vars
  BY <1>4 DEF vars
<1>5. CASE \E t \in Threads : AskDecision(t) \/ \E c \in Configs : AskApply(t, c)
  BY <1>5 DEF AskDecision, AskApply, Asks, Goto, Working, Apply, Undo, Confirm
<1>6. QED
  BY <1>1, <1>2, <1>3, <1>4, <1>5

LEMMA NextTypes == Types /\ [Next]_vars => Types'
BY ThreadTypes, CollisionTypes, OtherTypes DEF Next

-----------------------------------------------------------------------------
(* Every action keeps the files in order.                                  *)

(***************************************************************************)
(* What a step has to leave behind when one thread takes it and no other   *)
(* is busy.                                                                *)
(***************************************************************************)
LEMMA OneHand ==
  ASSUME NEW t \in Threads,
         \A u \in Threads : u # t => pc'[u] = pc[u] /\ ~Busy(u),
         agreed' # None =>
           /\ agreed'.wpa \in Configs
           /\ Busy(t)' => FilesAt(pc[t])'
           /\ ~Busy(t)' => (Trial \/ Rest)'
  PROVE  Orderly'
BY DEF Orderly, Undisturbed, Busy, Quiet

\* Nobody acts alone while two are busy.
LEMMA Alone ==
  ASSUME Orderly, Undisturbed, NEW t \in Threads, Busy(t)
  PROVE  /\ FilesAt(pc[t]) /\ agreed.wpa \in Configs
         /\ \A u \in Threads : u # t => ~Busy(u)
BY DEF Orderly

\* The files as one step of a thread's program leaves them.
LEMMA FilesAfter ==
  ASSUME Types, NEW t \in Threads, files' = Changed(t), AtFile(t), agreed' = agreed,
         agreed # None, agreed.wpa \in Configs, FilesAt(pc[t]), pc[t] # "confirm",
         NEW place, place = Now(t).then, place # "idle"
  PROVE  FilesAt(place)'
<1>1. /\ files \in FileSets
      /\ DOMAIN files = {"wpa", "wpaPrev", "static", "staticPrev", "marker"}
  BY DEF Types, TypeOK, FileSets
<1>2. agreed.wpa # None
  BY ConfigsAssumption
<1> USE DEF Writes, FilesAt, Trial, Rest, Saved, AsAgreed
<1>3. CASE pc[t] = "save"
  <2>1. Changes("wpaPrev", files.wpa) /\ place = "saveStatic"
    BY <1>1, <1>3, Places, OneFile
  <2>2. QED
    BY <1>3, <2>1 DEF Changes
<1>4. CASE pc[t] = "saveStatic"
  <2>1. Changes("staticPrev", files.static) /\ place = "write"
    BY <1>1, <1>4, Places, OneFile
  <2>2. QED
    BY <1>4, <2>1 DEF Changes
<1>5. CASE pc[t] = "write"
  <2>1. Changes("wpa", config[t]) /\ place = "writeStatic"
    BY <1>1, <1>5, Places, OneFile
  <2>2. QED
    BY <1>5, <2>1 DEF Changes
<1>6. CASE pc[t] = "writeStatic"
  <2>1. Changes("static", StaticOf(config[t])) /\ place = "mark"
    BY <1>1, <1>6, Places, OneFile
  <2>2. QED
    BY <1>6, <2>1 DEF Changes
<1>7. CASE pc[t] = "mark"
  <2>1. Changes("marker", TRUE) /\ place = "restart"
    BY <1>1, <1>7, Places, OneFile
  <2>2. QED
    BY <1>7, <2>1 DEF Changes
<1>8. CASE pc[t] = "undo"
  <2>1. Changes("wpa", Undone.wpa) /\ place = "undoStatic"
    BY <1>1, <1>8, Places, OneFile
  <2>2. Undone.wpa = agreed.wpa
    BY <1>2, <1>8 DEF Undone
  <2>3. QED
    BY <1>8, <2>1, <2>2 DEF Changes
<1>9. CASE pc[t] = "undoStatic"
  <2>1. Changes("static", Undone.static) /\ place = "unmark"
    BY <1>1, <1>9, Places, OneFile
  <2>2. Undone.static = agreed.static
    BY <1>9 DEF Undone
  <2>3. QED
    BY <1>9, <2>1, <2>2 DEF Changes
<1>10. CASE pc[t] = "unmark"
  <2>1. Changes("marker", FALSE) /\ place = "drop"
    BY <1>1, <1>10, Places, OneFile
  <2>2. QED
    BY <1>10, <2>1 DEF Changes
<1>11. CASE pc[t] \in {"drop", "confirmDrop"}
  <2>1. Changes("wpaPrev", None) /\ place \in {"dropStatic", "confirmDropStatic"}
    BY <1>1, <1>11, Places, OneFile
  <2>2. QED
    BY <1>11, <2>1 DEF Changes
<1>12. CASE pc[t] = "dropStatic"
  <2>1. Changes("staticPrev", None) /\ place = "restartUndone"
    BY <1>1, <1>12, Places, OneFile
  <2>2. QED
    BY <1>12, <2>1 DEF Changes
<1>13. CASE pc[t] = "confirmDropStatic"
  BY <1>13, Places
<1>14. QED
  BY <1>3, <1>4, <1>5, <1>6, <1>7, <1>8, <1>9, <1>10, <1>11, <1>12, <1>13, Places

\* The last file of a confirmation, and the first, which agrees on what is there.
LEMMA Decided ==
  ASSUME Types, NEW t \in Threads, files' = Changed(t)
  PROVE  /\ pc[t] = "confirm" /\ agreed' = [wpa |-> files.wpa, static |-> files.static] => Rest'
         /\ pc[t] = "confirmDropStatic" /\ agreed' = agreed /\ Rest => Rest'
<1>1. /\ files \in FileSets
      /\ DOMAIN files = {"wpa", "wpaPrev", "static", "staticPrev", "marker"}
  BY DEF Types, TypeOK, FileSets
<1> USE DEF Writes, Rest, AsAgreed
<1>2. CASE pc[t] = "confirm"
  <2>1. Changes("marker", FALSE)
    BY <1>1, <1>2, Places, OneFile
  <2>2. QED
    BY <1>2, <2>1 DEF Changes
<1>3. CASE pc[t] = "confirmDropStatic"
  <2>1. Changes("staticPrev", None)
    BY <1>1, <1>3, Places, OneFile
  <2>2. QED
    BY <1>3, <2>1 DEF Changes
<1>4. QED
  BY <1>2, <1>3

LEMMA FileOrderly ==
  ASSUME Types, Orderly, NEW t \in Threads, FileStep(t)
  PROVE  Orderly'
<1>1. /\ AtFile(t) /\ files' = Changed(t) /\ Busy(t)
      /\ pc'[t] = Now(t).then /\ \A u \in Threads : u # t => pc'[u] = pc[u]
  BY Places DEF FileStep, Goto, Types, TypeOK, Busy, Working, Apply, Undo, Confirm
<1>2. CASE agreed' = None
  BY <1>2 DEF Orderly, Undisturbed
<1>3. CASE pc[t] = "confirm" /\ agreed' # None
  <2>1. agreed' = [wpa |-> files.wpa, static |-> files.static] /\ \A u \in Threads : u # t => ~Busy(u)
    BY <1>3 DEF FileStep, Confirmable
  <2>2. Rest' /\ agreed'.wpa \in Configs
    BY <1>1, <1>3, <2>1, Decided DEF Types, TypeOK
  <2>3. pc'[t] = "confirmDrop"
    BY <1>1, <1>3, Places DEF Writes
  <2>4. FilesAt(pc[t])'
    BY <2>2, <2>3 DEF FilesAt
  <2>5. QED
    BY <1>1, <2>1, <2>2, <2>4, OneHand
<1>4. CASE pc[t] # "confirm" /\ agreed' # None
  <2>1. agreed' = agreed /\ agreed # None
    BY <1>4 DEF FileStep
  <2>2. FilesAt(pc[t]) /\ agreed.wpa \in Configs /\ \A u \in Threads : u # t => ~Busy(u)
    BY <1>1, <2>1, Alone DEF Undisturbed
  <2>3. \A place : place = Now(t).then /\ place # "idle" => FilesAt(place)'
    BY <1>1, <1>4, <2>1, <2>2, FilesAfter
  <2>4. Now(t).then = "idle" => pc[t] = "confirmDropStatic"
    BY <1>1, Places DEF Writes
  <2>5. Now(t).then = "idle" => Rest'
    BY <1>1, <2>1, <2>2, <2>4, Decided DEF FilesAt
  <2>6. Busy(t)' => FilesAt(pc[t])'
    <3>1. Busy(t)' => pc'[t] # "idle"
      BY DEF Busy, Working, Apply, Undo, Confirm
    <3>2. ASSUME NEW place, place = pc'[t], FilesAt(place)' PROVE FilesAt(pc[t])'
      BY <3>2 DEF FilesAt
    <3>3. QED
      BY <1>1, <2>3, <3>1, <3>2
  <2>7. Now(t).then # "idle" => Busy(t)'
    BY <1>1, FileTypes DEF Busy
  <2>8. QED
    BY <1>1, <2>1, <2>2, <2>5, <2>6, <2>7, OneHand
<1>5. QED
  BY <1>2, <1>3, <1>4

\* The files and what was agreed upon stay, and the thread was busy.
LEMMA MovesOn ==
  ASSUME Types, Orderly, NEW t \in Threads, Busy(t), UNCHANGED <<files, agreed>>,
         \A u \in Threads : u # t => pc'[u] = pc[u],
         FilesAt(pc[t]) => IF Busy(t)' THEN FilesAt(pc[t])' ELSE Trial \/ Rest
  PROVE  Orderly'
<1>1. CASE agreed = None
  BY <1>1 DEF Orderly, Undisturbed
<1>2. CASE agreed # None
  <2>1. FilesAt(pc[t]) /\ agreed.wpa \in Configs /\ \A u \in Threads : u # t => ~Busy(u)
    BY <1>2, Alone DEF Undisturbed
  <2>2. (Trial \/ Rest) => (Trial \/ Rest)'
    BY DEF Trial, Rest, Saved, AsAgreed
  <2>3. QED
    BY <2>1, <2>2, OneHand
<1>3. QED
  BY <1>1, <1>2

\* A request of the page, or a deadline, comes while nobody is busy.
LEMMA BusyNow ==
  ASSUME Types, Orderly, NEW t \in Threads, UNCHANGED files, agreed' \in {agreed, None},
         \A u \in Threads : u # t => pc'[u] = pc[u],
         agreed' # None => Quiet /\ (Trial \/ Rest => FilesAt(pc[t])'),
         Busy(t)'
  PROVE  Orderly'
<1>1. CASE agreed' = None
  BY <1>1 DEF Orderly, Undisturbed
<1>2. CASE agreed' # None
  <2>1. agreed' = agreed /\ agreed # None /\ \A u \in Threads : ~Busy(u)
    BY <1>2 DEF Quiet
  <2>2. agreed.wpa \in Configs /\ (Trial \/ Rest)
    BY <2>1 DEF Orderly, Undisturbed, Quiet
  <2>3. QED
    BY <1>2, <2>1, <2>2, OneHand
<1>3. QED
  BY <1>1, <1>2

LEMMA ThreadOrderly ==
  ASSUME Types, Orderly, NEW t \in Threads, Thread(t) \/ WriteFails(t)
  PROVE  Orderly'
<1> USE DEF Goto, Step, observers, radio
<1>1. CASE FileStep(t)
  BY <1>1, FileOrderly
<1>2. CASE WriteFails(t)
  BY <1>2 DEF WriteFails, Orderly, Undisturbed
<1>3. CASE Restarts(t) \/ Arms(t) \/ GivesUp(t)
  <2>1. /\ UNCHANGED <<files, agreed>> /\ \A u \in Threads : u # t => pc'[u] = pc[u]
        /\ \/ pc[t] = "restart" /\ pc'[t] = "wait"
           \/ pc[t] = "restartUndone" /\ pc'[t] = "idle"
           \/ pc[t] = "wait" /\ pc'[t] \in {"watch", "undo"}
    BY <1>3 DEF Restarts, Arms, GivesUp, Types, TypeOK
  <2>2. Busy(t)
    BY <2>1 DEF Busy, Working, Apply, Undo
  <2>3. Busy(t)' <=> pc'[t] \notin {"idle", "watch"}
    BY <2>1 DEF Busy, Working, Apply, Undo, Confirm
  <2>4. FilesAt(pc[t]) => IF Busy(t)' THEN FilesAt(pc[t])' ELSE Trial \/ Rest
    BY <2>1, <2>3 DEF FilesAt, Trial, Rest, Saved, AsAgreed
  <2>5. QED
    BY <2>1, <2>2, <2>4, MovesOn
<1>4. CASE Looks(t) /\ pc[t] = "watch"
  <2>1. /\ UNCHANGED <<files, agreed>> /\ \A u \in Threads : u # t => pc'[u] = pc[u]
        /\ pc'[t] = "idle"
    BY <1>4 DEF Looks, Types, TypeOK
  <2>2. \A u \in Threads : Busy(u)' <=> Busy(u)
    BY <1>4, <2>1 DEF Busy, Working, Apply, Undo, Confirm
  <2>3. \A u \in Threads : Busy(u) => u # t
    BY <1>4 DEF Busy, Working, Apply, Undo, Confirm
  <2>4. QED
    BY <2>1, <2>2, <2>3 DEF Orderly, Undisturbed, Quiet, FilesAt, Trial, Rest, Saved, AsAgreed
<1>5. CASE \/ Looks(t) /\ pc[t] = "late"
           \/ FindsPending(t) \/ ProbesAddress(t)
  <2>1. /\ UNCHANGED <<files, agreed>> /\ \A u \in Threads : u # t => pc'[u] = pc[u]
        /\ \/ pc[t] = "late" /\ pc'[t] = "idle"
           \/ pc[t] = "late" /\ files.marker /\ pc'[t] = "probe"
           \/ pc[t] = "probe" /\ pc'[t] \in {"idle", "undo"}
    BY <1>5 DEF Looks, FindsPending, ProbesAddress, Types, TypeOK
  <2>2. Busy(t)
    BY <2>1 DEF Busy
  <2>3. Busy(t)' <=> pc'[t] # "idle"
    BY <2>1 DEF Busy, Working, Apply, Undo, Confirm
  <2>4. FilesAt(pc[t]) => IF Busy(t)' THEN FilesAt(pc[t])' ELSE Trial \/ Rest
    BY <2>1, <2>3 DEF FilesAt, Trial, Rest, Saved, AsAgreed
  <2>5. QED
    BY <2>1, <2>2, <2>4, MovesOn
<1>6. CASE DeadlineComes(t)
  <2>1. /\ UNCHANGED files /\ \A u \in Threads : u # t => pc'[u] = pc[u]
        /\ pc'[t] = "late" /\ agreed' \in {agreed, None} /\ (agreed' # None => Quiet /\ agreed' = agreed)
    BY <1>6 DEF DeadlineComes, AgreedIf, Types, TypeOK
  <2>2. Busy(t)'
    BY <2>1 DEF Busy
  <2>3. agreed' # None /\ (Trial \/ Rest) => FilesAt(pc[t])'
    BY <2>1 DEF FilesAt, Trial, Rest, Saved, AsAgreed
  <2>4. QED
    BY <2>1, <2>2, <2>3, BusyNow
<1>7. QED
  BY <1>1, <1>2, <1>3, <1>4, <1>5, <1>6 DEF Thread, Looks

LEMMA OtherOrderly ==
  ASSUME Types, Orderly,
         \/ Wifi \/ HelperRestarts \/ PowerLoss \/ UNCHANGED vars
         \/ \E t \in Threads : \/ \E u \in Threads : Collides(t, u)
                               \/ AskDecision(t) \/ \E c \in Configs : AskApply(t, c)
  PROVE  Orderly'
<1>1. CASE Wifi \/ UNCHANGED vars
  <2>1. UNCHANGED <<files, pc, agreed>>
    BY <1>1 DEF Wifi, Associates, Addresses, LeaseArrives, vars, observers
  <2>2. QED
    BY <2>1 DEF Orderly, Undisturbed, Busy, Quiet, FilesAt, Trial, Rest, Saved, AsAgreed
<1>2. CASE HelperRestarts \/ PowerLoss
  <2>1. CASE agreed' = None
    BY <2>1 DEF Orderly, Undisturbed
  <2>2. CASE agreed' # None
    <3>1. agreed' = agreed /\ \A t \in Threads : pc'[t] = "idle" /\ pc[t] = "idle"
      BY <1>2, <2>2 DEF HelperRestarts, PowerLoss, AgreedIf, Ended, Idle
    <3>2. \A t \in Threads : ~Busy(t) /\ ~Busy(t)'
      BY <3>1 DEF Busy, Working, Apply, Undo, Confirm
    <3>3. UNCHANGED files
      <4>1. CASE HelperRestarts
        BY <4>1 DEF HelperRestarts
      <4>2. CASE PowerLoss
        <5>1. ~files.marker /\ files' = [files EXCEPT !.marker = FALSE]
          BY <2>2, <4>2 DEF PowerLoss, AgreedIf
        <5>2. files \in FileSets
          BY DEF Types, TypeOK, FileSets
        <5>3. QED
          BY <5>1, <5>2 DEF FileSets
      <4>3. QED
        BY <1>2, <4>1, <4>2
    <3>4. QED
      BY <3>1, <3>2, <3>3 DEF Orderly, Undisturbed, Quiet, Trial, Rest, Saved, AsAgreed
  <2>3. QED
    BY <2>1, <2>2
<1>3. ASSUME NEW t \in Threads, NEW u \in Threads, Collides(t, u)
      PROVE  Orderly'
  <2>1. t # u /\ Busy(t) /\ Busy(u) /\ agreed' = agreed
    BY <1>3 DEF Collides, Replaces, Busy, Working, Apply, Undo, observers
  <2>2. QED
    BY <2>1 DEF Orderly, Undisturbed
<1>4. ASSUME NEW t \in Threads, AskDecision(t) \/ \E c \in Configs : AskApply(t, c)
      PROVE  Orderly'
  <2>1. /\ UNCHANGED files /\ agreed' \in {agreed, None}
        /\ \A u \in Threads : u # t => pc'[u] = pc[u]
        /\ agreed' # None => Quiet /\ agreed' = agreed
        /\ \/ pc'[t] = "save" /\ (agreed' # None => ~files.marker)
           \/ pc'[t] \in {"confirm", "undo"} /\ (agreed' # None => files.marker)
    BY <1>4 DEF AskDecision, AskApply, AgreedIf, Goto, Types, TypeOK
  <2>2. Busy(t)'
    BY <2>1 DEF Busy, Working, Apply, Undo, Confirm
  <2>3. agreed' # None /\ (Trial \/ Rest) => FilesAt(pc[t])'
    BY <2>1 DEF FilesAt, Trial, Rest, Saved, AsAgreed
  <2>4. QED
    BY <2>1, <2>2, <2>3, BusyNow
<1>5. QED
  BY <1>1, <1>2, <1>3, <1>4

(***************************************************************************)
(* Between requests the agreed configuration is in the files or can be     *)
(* restored, however many requests there were, how they overlapped and     *)
(* what failed: until one of them has left it unclear what was agreed.     *)
(***************************************************************************)
THEOREM TrialsRestorable == Spec => []Restorable
<1>1. Types /\ Orderly /\ [Next]_vars => (Types /\ Orderly)'
  BY NextTypes, ThreadOrderly, OtherOrderly DEF Next
<1>2. Types /\ Orderly => Restorable
  BY DEF Types, Orderly, Restorable, Trial, Rest, Saved
<1>3. QED
  BY <1>1, <1>2, InitOrderly, PTL DEF Spec

-----------------------------------------------------------------------------
(* What WiFi runs.                                                         *)

(***************************************************************************)
(* The thread has replaced the files, or begun to, and has still to        *)
(* restart WiFi.                                                           *)
(***************************************************************************)
HasReplaced(t) ==
  pc[t] \in {"writeStatic", "mark", "restart",
            "undoStatic", "unmark", "drop", "dropStatic", "restartUndone"}

(***************************************************************************)
(* WiFi runs what the files say, as far as it is brought up, or a thread   *)
(* is about to restart it, or the thread that should have was cut off.     *)
(***************************************************************************)
Current ==
  /\ wifi.at # "associate" => wifi.wpa = files.wpa
  /\ wifi.at = "up" /\ files.static # None => address

Followed == cut \/ Current \/ \E t \in Threads : HasReplaced(t)

LEMMA InitFollowed == Init => Followed
BY DEF Init, Followed, Current

\* The copies and the marker are not what WiFi reads.
LEMMA KeepsSettings ==
  ASSUME files \in FileSets, NEW t \in Threads, files' = Changed(t),
         pc[t] \in {"save", "saveStatic", "confirm", "confirmDrop", "confirmDropStatic"}
  PROVE  files'.wpa = files.wpa /\ files'.static = files.static
<1>1. \E name \in {"wpaPrev", "staticPrev", "marker"} : \E v, then : Writes(t, name, v, then)
  BY Places
<1>. PICK name \in {"wpaPrev", "staticPrev", "marker"} : \E v, then : Writes(t, name, v, then)
  BY <1>1
<1>. PICK v, then : Writes(t, name, v, then)
  OBVIOUS
<1>2. name \in DOMAIN files
  BY DEF FileSets
<1>3. Changes(name, v)
  BY <1>2, OneFile
<1>4. QED
  BY <1>3 DEF Changes

LEMMA ThreadFollowed ==
  ASSUME Types, Followed, NEW t \in Threads, Thread(t) \/ WriteFails(t)
  PROVE  Followed'
<1>1. CASE FileStep(t)
  <2>1. /\ UNCHANGED <<wifi, address, cut>> /\ files' = Changed(t) /\ AtFile(t)
        /\ pc'[t] = Now(t).then /\ \A u \in Threads : u # t => pc'[u] = pc[u]
    BY <1>1 DEF FileStep, Goto, radio, Types, TypeOK
  <2>2. files \in FileSets
    BY DEF Types, TypeOK, FileSets
  <2>3. CASE pc[t] \in {"write", "writeStatic", "mark", "undo", "undoStatic", "unmark", "drop", "dropStatic"}
    <3>1. HasReplaced(t)'
      BY <2>1, <2>3, Places DEF Writes, HasReplaced
    <3>2. QED
      BY <3>1 DEF Followed
  <2>4. CASE pc[t] \in {"save", "saveStatic", "confirm", "confirmDrop", "confirmDropStatic"}
    <3>1. files'.wpa = files.wpa /\ files'.static = files.static
      BY <2>1, <2>2, <2>4, KeepsSettings
    <3>2. ~HasReplaced(t)
      BY <2>4 DEF HasReplaced
    <3>3. \A u \in Threads : HasReplaced(u) => HasReplaced(u)'
      BY <2>1, <3>2 DEF HasReplaced
    <3>4. QED
      BY <2>1, <3>1, <3>3 DEF Followed, Current
  <2>5. QED
    BY <2>1, <2>3, <2>4, Places
<1>2. CASE WriteFails(t)
  BY <1>2 DEF WriteFails, Followed
<1>3. CASE Restarts(t)
  <2>1. wifi'.at = "associate"
    BY <1>3 DEF Restarts, Stopped
  <2>2. QED
    BY <2>1 DEF Followed, Current
<1>4. CASE Arms(t) \/ GivesUp(t) \/ Looks(t) \/ DeadlineComes(t) \/ FindsPending(t) \/ ProbesAddress(t)
  <2>1. /\ UNCHANGED <<files, wifi, address, cut>> /\ ~HasReplaced(t)
        /\ \A u \in Threads : u # t => pc'[u] = pc[u]
    BY <1>4 DEF Arms, GivesUp, Looks, DeadlineComes, FindsPending, ProbesAddress, HasReplaced,
         Goto, radio, observers, Types, TypeOK
  <2>2. \A u \in Threads : HasReplaced(u) => HasReplaced(u)'
    BY <2>1 DEF HasReplaced
  <2>3. QED
    BY <2>1, <2>2 DEF Followed, Current
<1>5. QED
  BY <1>1, <1>2, <1>3, <1>4 DEF Thread

LEMMA OtherFollowed ==
  ASSUME Types, Followed,
         \/ Wifi \/ HelperRestarts \/ PowerLoss \/ UNCHANGED vars
         \/ \E t \in Threads : \/ \E u \in Threads : Collides(t, u)
                               \/ AskDecision(t) \/ \E c \in Configs : AskApply(t, c)
  PROVE  Followed'
<1>1. CASE Associates \/ Addresses \/ LeaseArrives
  <2>1. UNCHANGED <<files, pc, cut>>
    BY <1>1 DEF Associates, Addresses, LeaseArrives, observers
  <2>2. wifi \in [at : {"associate", "address", "up"}, wpa : Configs \union {None}]
    BY DEF Types, TypeOK
  <2>3. CASE Associates
    BY <2>1, <2>3 DEF Associates, Followed, Current, HasReplaced
  <2>4. CASE Addresses
    <3>1. /\ wifi.at = "address" /\ wifi'.wpa = wifi.wpa
          /\ address' = (files.static # None)
      BY <2>2, <2>4 DEF Addresses
    <3>2. QED
      BY <2>1, <3>1 DEF Followed, Current, HasReplaced
  <2>5. CASE LeaseArrives
    BY <2>1, <2>5 DEF LeaseArrives, Followed, Current, HasReplaced
  <2>6. QED
    BY <1>1, <2>3, <2>4, <2>5
<1>2. CASE UNCHANGED vars
  BY <1>2 DEF vars, radio, observers, Followed, Current, HasReplaced
<1>3. CASE HelperRestarts
  <2>1. cut' = (cut \/ ~Quiet) /\ UNCHANGED <<files, wifi, address>>
    BY <1>3 DEF HelperRestarts, radio
  <2>2. Quiet => ~\E t \in Threads : HasReplaced(t)
    BY DEF Quiet, Busy, Working, Apply, Undo, HasReplaced
  <2>3. QED
    BY <2>1, <2>2 DEF Followed, Current
<1>4. CASE PowerLoss
  <2>1. wifi'.at = "associate"
    BY <1>4 DEF PowerLoss, Stopped
  <2>2. QED
    BY <2>1 DEF Followed, Current
<1>5. ASSUME NEW t \in Threads, NEW u \in Threads, Collides(t, u)
      PROVE  Followed'
  <2>1. /\ UNCHANGED <<wifi, address, cut>> /\ files' = Changed(u) /\ t # u
        /\ pc'[t] = Now(t).then /\ \A v \in Threads \ {t, u} : pc'[v] = pc[v]
        /\ Replaces(t) /\ Replaces(u) /\ Now(t).file = Now(u).file
    BY <1>5 DEF Collides, radio, observers, Types, TypeOK
  <2>2. files \in FileSets
    BY DEF Types, TypeOK, FileSets
  <2>3. pc[t] \in {"save", "saveStatic", "write", "writeStatic", "mark", "undo", "undoStatic"}
    BY <2>1 DEF Replaces
  <2>4. pc[u] \in {"save", "saveStatic", "write", "writeStatic", "mark", "undo", "undoStatic"}
    BY <2>1 DEF Replaces
  <2>5. CASE pc[t] \in {"write", "writeStatic", "mark", "undo", "undoStatic"}
    <3>1. HasReplaced(t)'
      BY <2>1, <2>5, Places DEF Writes, HasReplaced
    <3>2. QED
      BY <3>1 DEF Followed
  <2>6. CASE pc[t] \in {"save", "saveStatic"}
    <3>1. pc[u] = pc[t]
      BY <2>1, <2>4, <2>6, Places DEF Writes
    <3>2. files'.wpa = files.wpa /\ files'.static = files.static
      BY <2>1, <2>2, <2>6, <3>1, KeepsSettings
    <3>3. \A v \in Threads : HasReplaced(v) => HasReplaced(v)'
      BY <2>1, <2>6, <3>1 DEF HasReplaced
    <3>4. QED
      BY <2>1, <3>2, <3>3 DEF Followed, Current
  <2>7. QED
    BY <2>3, <2>5, <2>6
<1>6. ASSUME NEW t \in Threads, AskDecision(t) \/ \E c \in Configs : AskApply(t, c)
      PROVE  Followed'
  <2>1. /\ UNCHANGED <<files, wifi, address, cut>> /\ pc[t] = "idle"
        /\ \A u \in Threads : u # t => pc'[u] = pc[u]
    BY <1>6 DEF AskDecision, AskApply, Asks, Goto, radio, Types, TypeOK
  <2>2. \A u \in Threads : HasReplaced(u) => HasReplaced(u)'
    BY <2>1 DEF HasReplaced
  <2>3. QED
    BY <2>1, <2>2 DEF Followed, Current
<1>7. QED
  BY <1>1, <1>2, <1>3, <1>4, <1>5, <1>6 DEF Wifi

(***************************************************************************)
(* However requests overlap, whichever threads collide at a temporary file *)
(* and give up, whenever watchers act and whatever fails: once all is      *)
(* done, WiFi runs what the files say, unless the last change was cut off. *)
(***************************************************************************)
THEOREM SavedIsRun == Spec => []SavedRuns
<1>1. Types /\ Followed /\ [Next]_vars => (Types /\ Followed)'
  BY NextTypes, ThreadFollowed, OtherFollowed DEF Next
<1>2. Types /\ Followed => SavedRuns
  BY DEF Followed, Current, SavedRuns, Idle, HasReplaced
<1>3. QED
  BY <1>1, <1>2, InitOrderly, InitFollowed, PTL DEF Spec
=============================================================================
