----------------------------- MODULE Provisioning -----------------------------
(***************************************************************************)
(* The settings of pisonic-config.txt (usr/sbin/provision-from-boot,       *)
(* radio-persistent-boot, S50dropbear, post-image.sh, persistent_config.py,*)
(* device_store.py, route_device_maintenance.py, helper.py).               *)
(*                                                                         *)
(* At every boot the active lines of the file on the FAT partition are     *)
(* written to the data partition, one after the other, and then those are  *)
(* commented whose write succeeded.  Until then a line is tried again at   *)
(* every boot, and beats what the owner has set in the web pages since.    *)
(***************************************************************************)
EXTENDS Naturals, Sequences, SequencesExt

CONSTANTS
  Contents,   \* what an owner may write on the card: functions from Keys
  Troubles,   \* subset of {"prepare", "mount", "write", "status", "comment", "apply",
              \* "journal"}; the last one: power is lost after the card was
              \* unmounted and before ext4 has committed what was not synced
  MaxEdits, MaxSaves, MaxMishaps, MaxStarts  \* bounds

VARIABLES
  lines,      \* the active line of every key: a value, "bad" or "none"
  kept,       \* the value of every key on the data partition, or "none"
  durable,    \* what of it a power loss leaves
  etc,        \* host name and time files of the slot
  shadow,     \* root's password in the slot: "image" is the one it is built with
  lock, flag, \* the markers under /run: host name locked, SSH disabled
  sshd,       \* dropbear runs
  status,     \* the keys the display and the web pages report as incomplete
  pass,       \* of the script: [todo, consumed, incomplete]
  stage,
  wanted,     \* of every key, the value asked for last
  edits, saves, mishaps, starts

files == <<lines, kept, durable, etc, shadow, status>>
runs == <<lock, flag, sshd, pass, stage>>
budget == <<edits, saves, mishaps, starts>>
provVars == <<files, runs, wanted, budget>>

Order == <<"wifi", "country", "address", "hostname", "password", "ssh", "timezone", "ntp">>
Keys == ToSet(Order)
Device == {"hostname", "ssh", "timezone", "ntp"}
Synced == Device \cup {"password"}   \* written by _atomic_write, with fsync
Reported == {"wifi", "hostname", "password"}

Nothing == [k \in Keys |-> "none"]
ImageFiles == [k \in Device |-> IF k = "ssh" THEN "off" ELSE "image"]
NoPass == [todo |-> <<>>, consumed |-> {}, incomplete |-> {}]

\* load_device: device.ini over the files of the slot.
Effective(k) == IF k \in Device /\ kept[k] = "none" THEN etc[k] ELSE kept[k]

\* set_device, save_device: every field is written, read a moment before.
Merged(k, v) == [[j \in Keys |-> Effective(j)] EXCEPT ![k] = v]

Pending(k) == lines[k] \notin {"none", "bad"}
Asked(k, v) == wanted' = IF Pending(k) THEN wanted ELSE [wanted EXCEPT ![k] = v]

Smooth == UNCHANGED mishaps
Mishap(t) == t \in Troubles /\ mishaps < MaxMishaps /\ mishaps' = mishaps + 1

ProvInit ==
  /\ lines \in Contents
  /\ kept = Nothing /\ durable = Nothing /\ etc = ImageFiles /\ shadow = "image"
  /\ lock = FALSE /\ flag = FALSE /\ sshd = FALSE /\ status = {"wifi"} /\ pass = NoPass /\ stage = "off"
  /\ wanted = [k \in Keys |-> IF Pending(k) THEN lines[k] ELSE Effective(k)]
  /\ edits = 0 /\ saves = 0 /\ mishaps = 0 /\ starts = 0

-----------------------------------------------------------------------------
(* Booting, perhaps a slot that was just installed.                        *)

SwitchOn(fresh) ==
  LET password == IF fresh THEN "image" ELSE shadow IN
  /\ stage = "off" /\ starts < MaxStarts /\ starts' = starts + 1
  /\ lock' = FALSE /\ flag' = FALSE
  /\ etc' = IF fresh THEN ImageFiles ELSE etc
  /\ wanted' = [k \in Keys |-> IF fresh /\ k \in Device /\ kept[k] = "none" /\ ~Pending(k)
                                 THEN ImageFiles[k] ELSE wanted[k]]
  /\ \/ /\ Smooth /\ stage' = "pass" /\ pass' = [NoPass EXCEPT !.todo = Order]
        /\ shadow' = IF kept["password"] = "none" THEN password ELSE kept["password"]
     \/ /\ Mishap("mount") /\ stage' = "render" /\ UNCHANGED pass
        /\ shadow' = IF kept["password"] = "none" THEN password ELSE kept["password"]
     \/ /\ Mishap("prepare") /\ stage' = "services" /\ shadow' = password /\ UNCHANGED pass
  /\ UNCHANGED <<lines, kept, durable, sshd, status, edits, saves>>

\* Mutant of Consumes: whether the write succeeded or not.
ConsumesAnyway(k, written) == {k}

\* mark_consumed, after the write.
Consumes(k, written) == IF written THEN {k} ELSE {}

Applied(k, consumed, incomplete) ==
  /\ stage = "pass" /\ pass.todo # <<>> /\ k = Head(pass.todo)
  /\ pass' = [todo |-> Tail(pass.todo), consumed |-> pass.consumed \cup consumed,
              incomplete |-> pass.incomplete \cup incomplete]
  /\ UNCHANGED <<lines, etc, status, sshd, stage, wanted, edits, saves, starts>>

Passed(k) ==
  /\ ~Pending(k)
  /\ Applied(k, {}, IF lines[k] = "bad" THEN {k} \cap Reported ELSE {})
  /\ Smooth /\ UNCHANGED <<kept, durable, shadow, lock, flag>>

\* apply_enable_ssh: not without a root password.
Refused(k) ==
  /\ k = "ssh" /\ lines[k] = "on" /\ kept["password"] = "none"
  /\ Applied(k, {}, {"password", "ssh"})
  /\ flag' = TRUE
  /\ Smooth /\ UNCHANGED <<kept, durable, shadow, lock>>

Written(k) ==
  /\ Pending(k) /\ ~(k = "ssh" /\ lines[k] = "on" /\ kept["password"] = "none")
  /\ Applied(k, Consumes(k, TRUE), {})
  /\ kept' = IF k \in Device THEN Merged(k, lines[k]) ELSE [kept EXCEPT ![k] = lines[k]]
  /\ durable' = IF k \in Synced THEN kept' ELSE durable
  /\ shadow' = IF k = "password" THEN lines[k] ELSE shadow
  /\ lock' = (lock \/ k = "hostname")
  /\ flag' = IF k = "ssh" THEN lines[k] = "off" ELSE flag
  /\ Smooth

\* wifi: chmod may fail after the rename; country: the file is cut first;
\* password: chpasswd may succeed and the capture fail.
NotWritten(k) ==
  /\ Pending(k) /\ ~(k = "ssh" /\ lines[k] = "on" /\ kept["password"] = "none")
  /\ Mishap("write")
  /\ Applied(k, Consumes(k, FALSE), {k} \cap {"password"})
  /\ kept' \in {kept} \cup (CASE k = "wifi" -> {[kept EXCEPT ![k] = lines[k]]}
                              [] k = "country" -> {[kept EXCEPT ![k] = "none"]}
                              [] OTHER -> {})
  /\ shadow' \in {shadow} \cup (IF k = "password" THEN {lines[k]} ELSE {})
  /\ flag' = (flag \/ k = "ssh")
  /\ UNCHANGED <<durable, lock>>

\* write_provision_status, comment_consumed_settings, umount.
Close ==
  LET incomplete == pass.incomplete \cup (IF kept["wifi"] = "none" THEN {"wifi"} ELSE {})
      commented == [k \in Keys |-> IF k \in pass.consumed THEN "none" ELSE lines[k]] IN
  /\ stage = "pass" /\ pass.todo = <<>> /\ stage' = "render" /\ pass' = NoPass
  /\ \/ Smooth /\ status' = incomplete /\ lines' = commented
     \/ Mishap("status") /\ lines' = commented
        /\ status' = IF incomplete = {} THEN {} ELSE status
     \/ Mishap("comment") /\ status' = incomplete /\ lines' = lines
  /\ durable' = IF "journal" \in Troubles THEN durable ELSE kept
  /\ UNCHANGED <<kept, etc, shadow, lock, flag, sshd, wanted, edits, saves, starts>>

\* render_runtime, apply_hostname_files, apply_time_files.
Rendered(file) ==
  [k \in Device |-> IF k = "ssh" \/ file[k] = "none" THEN etc[k] ELSE file[k]]

RenderRuntime ==
  /\ stage = "render" /\ stage' = "services"
  /\ etc' = Rendered(kept)
  /\ UNCHANGED <<lines, kept, durable, shadow, status, lock, flag, sshd, pass, wanted, budget>>

\* S50dropbear.
MayStart(file) == ~flag /\ file["ssh"] = "on" /\ file["password"] # "none"

StartServices ==
  /\ stage = "services" /\ stage' = "up"
  /\ sshd' = MayStart(kept)
  /\ UNCHANGED <<files, lock, flag, pass, wanted, budget>>

PowerOff ==
  /\ stage # "off" /\ stage' = "off"
  /\ \E lost \in SUBSET {k \in Keys : kept[k] # durable[k]} :
       kept' = [k \in Keys |-> IF k \in lost THEN durable[k] ELSE kept[k]]
  /\ durable' = kept'
  /\ sshd' = FALSE /\ lock' = FALSE /\ flag' = FALSE /\ pass' = NoPass
  /\ UNCHANGED <<lines, etc, shadow, status, wanted, budget>>

-----------------------------------------------------------------------------
(* The owner, at a computer with the card and in the web pages.            *)

EditCard(content) ==
  /\ stage = "off" /\ edits < MaxEdits /\ edits' = edits + 1
  /\ lines' = content
  /\ wanted' = [k \in Keys |-> IF content[k] \notin {"none", "bad"} THEN content[k]
                               ELSE IF Pending(k) THEN Effective(k) ELSE wanted[k]]
  /\ UNCHANGED <<kept, durable, etc, shadow, status, runs, saves, mishaps, starts>>

Saves(file) ==
  /\ stage = "up" /\ saves < MaxSaves /\ saves' = saves + 1
  /\ kept' = file /\ durable' = file
  /\ UNCHANGED <<lines, status, lock, flag, pass, stage, edits, starts>>

\* _device_post: every privileged action is tried, whatever fails.
SaveDevice(k, v) ==
  /\ k = "hostname" => ~lock
  /\ k = "ssh" /\ v = "on" => kept["password"] # "none"
  /\ Saves(Merged(k, v)) /\ Asked(k, v)
  /\ \/ Smooth /\ etc' = Rendered(kept') /\ sshd' = MayStart(kept')
     \/ Mishap("apply") /\ etc' \in {etc, Rendered(kept')} /\ sshd' \in {sshd, MayStart(kept')}
  /\ UNCHANGED shadow

\* The page's "restore" removes device.ini: the files of the slot stay.
RestoreBuiltin ==
  /\ Saves([k \in Keys |-> IF k \in Device THEN "none" ELSE kept[k]])
  /\ wanted' = [k \in Keys |-> IF k \in Device /\ ~Pending(k) THEN etc[k] ELSE wanted[k]]
  /\ \/ Smooth /\ sshd' = FALSE
     \/ Mishap("apply") /\ UNCHANGED sshd
  /\ UNCHANGED <<etc, shadow>>

\* _set_root_password: chpasswd, then the capture of the hash.
SetRootPassword(v) ==
  /\ \/ Smooth /\ Saves([kept EXCEPT !["password"] = v]) /\ Asked("password", v) /\ shadow' = v
     \/ Mishap("apply") /\ Saves(kept) /\ UNCHANGED wanted /\ shadow' \in {shadow, v}
  /\ UNCHANGED <<etc, sshd>>

-----------------------------------------------------------------------------
ProvNext ==
  \/ \E fresh \in BOOLEAN : SwitchOn(fresh)
  \/ \E k \in Keys : Passed(k) \/ Refused(k) \/ Written(k) \/ NotWritten(k)
  \/ Close \/ RenderRuntime \/ StartServices \/ PowerOff
  \/ \E content \in Contents : EditCard(content)
  \/ \E k \in Device \ {"ssh"} : SaveDevice(k, "web")
  \/ \E v \in {"on", "off"} : SaveDevice("ssh", v)
  \/ RestoreBuiltin \/ SetRootPassword("web")

ProvSpec == ProvInit /\ [][ProvNext]_provVars

(* A line that is no longer active has been stored, and what was asked for *)
(* last, on the card or in the web pages, is what the radio has            *)
(* (provision-from-boot, "A failed persistent write must leave its source  *)
(* line active so the next boot can retry it").                            *)
LastWordKept == \A k \in Keys : Pending(k) \/ Effective(k) = wanted[k]

(* SSH answers only where a password of the owner's opens it, whatever     *)
(* slot was booted (S50dropbear, "must not expose a locked, passwordless,  *)
(* or generic account"): the script reads the hash file, the login shadow. *)
SshGuarded == sshd => kept["password"] # "none" /\ shadow # "image"

(* A radio without WiFi credentials says so.                               *)
MissingShown == stage = "up" /\ kept["wifi"] = "none" => "wifi" \in status

(* The three together: power may fail anywhere, any write may fail, and    *)
(* the owner may edit the card, the web pages and install slots meanwhile. *)
Provisioned == LastWordKept /\ SshGuarded /\ MissingShown

=============================================================================
