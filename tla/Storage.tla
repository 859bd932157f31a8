------------------------------- MODULE Storage -------------------------------
(***************************************************************************)
(* The files that outlive the process: the configuration, a preference,    *)
(* and the certificate and key this console is paired with.  They are in   *)
(* the sandbox (/download0) or, once the process has filesystem access, in *)
(* /data/prosperolight, where the first such start takes them along        *)
(* (app_storage.cpp).  A save goes through a temporary file                *)
(* (moonlight_config.cpp write_atomic); the identity is made, read and     *)
(* forgotten by the worker (certgen.c).  The process may be closed between *)
(* any two steps, and every write, rename and elevation may be refused.    *)
(*                                                                         *)
(* A file is the number of its contents, Absent or Torn; the contents of a *)
(* certificate and of its key have the same number.                        *)
(***************************************************************************)
EXTENDS Integers

CONSTANTS         \* bounds
  MaxBoots,       \* starts of the process
  MaxConfig,      \* configurations saved, the first included
  MaxIdentity,    \* identities made, the first included
  MaxEvents       \* starts, saves and identities together

ASSUME FilesAssumption ==
  /\ MaxBoots \in Nat /\ MaxConfig \in Nat \ {0} /\ MaxIdentity \in Nat \ {0}
  /\ MaxEvents \in Nat

VARIABLES
  disk,      \* the files of each place
  kept,      \* what the start remembered of the sandbox
  place,     \* the place storage::paths points into
  pc,        \* where the main thread is
  work,      \* where the worker is in certgen.c
  boots,     \* starts of the process
  newest,    \* [config, identity]: the newest contents made
  reported,  \* the configuration each place had when this start, a copy or a save said so
  lost,      \* places whose configuration a refused rename removed
  used,      \* the identity the worker last opened a connection with
  logs,      \* the preference the log switch was read from
  touched    \* the worker has written or removed part of an identity

filesVars == <<disk, kept, place, pc, work, boots, newest, reported, lost, used, logs,
          touched>>

Room == boots + (newest.config - 1) + (newest.identity - 1) < MaxEvents

Absent == 0
Torn == -1
Folders == {"sandbox", "data"}
NoFiles == [config |-> Absent, temp |-> Absent, cert |-> Absent, key |-> Absent, pref |-> Absent]

Here == disk[place]
Complete(p) == disk[p].cert > 0 /\ disk[p].cert = disk[p].key

Put(name, value) == disk' = [disk EXCEPT ![place][name] = value]

-----------------------------------------------------------------------------
(* storage::Initialize *)

\* A version before filesystem access left a configuration and a whole
\* pairing, or nothing.
FilesInit ==
  /\ \E c \in {Absent, 1}, i \in {Absent, 1}, f \in {Absent, 1} :
       disk = [p \in Folders |->
                 IF p = "data" THEN NoFiles
                 ELSE [config |-> c, temp |-> Absent, cert |-> i, key |-> i, pref |-> f]]
  /\ kept = NoFiles /\ place = "sandbox" /\ pc = "off" /\ work = "idle"
  /\ boots = 0 /\ newest = [config |-> 1, identity |-> 1]
  /\ reported = [p \in Folders |-> disk[p].config] /\ lost = {} /\ used = Absent /\ logs = Absent
  /\ touched = FALSE

\* The sandbox's files are remembered, then access is asked for and the
\* folders are made; without either the sandbox stays.
Start ==
  /\ pc = "off" /\ boots < MaxBoots /\ Room /\ boots' = boots + 1
  /\ kept' = disk["sandbox"]
  /\ \E ready \in BOOLEAN : place' = IF ready THEN "data" ELSE "sandbox"
  /\ pc' = IF place' = "data" THEN "prefs" ELSE "log"
  /\ reported' = [p \in Folders |-> disk[p].config] /\ lost' = {}
  /\ UNCHANGED <<disk, work, newest, used, logs, touched>>

\* write_new: a copy arrives whole, by a rename, or not at all.
Brought(name) == Put(name, kept[name])
Wanted(name) == kept[name] # Absent /\ Here[name] = Absent

BringPrefs ==
  /\ pc = "prefs" /\ pc' = "log"
  /\ \/ Wanted("pref") /\ Brought("pref")
     \/ UNCHANGED disk
  /\ UNCHANGED <<kept, place, work, boots, newest, reported, lost, used, logs, touched>>

OpenLog ==
  /\ pc = "log" /\ logs' = Here.pref
  /\ pc' = IF place = "data" THEN "config" ELSE "ready"
  /\ UNCHANGED <<disk, kept, place, work, boots, newest, reported, lost, used, touched>>

BringConfig ==
  /\ pc = "config" /\ pc' = "pairing"
  /\ \/ Wanted("config") /\ Brought("config") /\ reported' = [reported EXCEPT !["data"] = kept.config]
     \/ UNCHANGED <<disk, reported>>
  /\ UNCHANGED <<kept, place, work, boots, newest, lost, used, logs, touched>>

PairingWanted == Wanted("cert") /\ Wanted("key")

\* A bug: the pairing is brought over whatever is there already.
BringKeyAgain ==
  /\ pc = "pairing"
  /\ IF kept.cert # Absent /\ kept.key # Absent THEN Brought("key") /\ pc' = "cert"
     ELSE pc' = "ready" /\ UNCHANGED disk
  /\ UNCHANGED <<kept, place, work, boots, newest, reported, lost, used, logs, touched>>

BringKey ==
  /\ pc = "pairing"
  /\ \/ PairingWanted /\ Brought("key") /\ pc' = "cert"
     \/ PairingWanted /\ UNCHANGED disk /\ pc' = "undo"
     \/ ~PairingWanted /\ UNCHANGED disk /\ pc' = "ready"
  /\ UNCHANGED <<kept, place, work, boots, newest, reported, lost, used, logs, touched>>

BringCert ==
  /\ pc = "cert"
  /\ \/ Brought("cert") /\ pc' = "ready"
     \/ UNCHANGED disk /\ pc' = "undo"
  /\ UNCHANGED <<kept, place, work, boots, newest, reported, lost, used, logs, touched>>

\* Both are removed, one after the other.
UndoCert ==
  /\ pc = "undo" /\ Put("cert", Absent) /\ pc' = "undo key"
  /\ UNCHANGED <<kept, place, work, boots, newest, reported, lost, used, logs, touched>>

UndoKey ==
  /\ pc = "undo key" /\ Put("key", Absent) /\ pc' = "ready"
  /\ UNCHANGED <<kept, place, work, boots, newest, reported, lost, used, logs, touched>>

-----------------------------------------------------------------------------
(* moonlight_config_save *)

\* A bug: the file itself is written.
SaveInPlace ==
  /\ pc = "ready" /\ newest.config < MaxConfig /\ Room
  /\ newest' = [newest EXCEPT !.config = @ + 1]
  /\ disk' = [disk EXCEPT ![place].temp = Torn, ![place].config = Torn] /\ pc' = "writing"
  /\ UNCHANGED <<kept, place, work, boots, reported, lost, used, logs, touched>>

SaveBegins ==
  /\ pc = "ready" /\ newest.config < MaxConfig /\ Room
  /\ newest' = [newest EXCEPT !.config = @ + 1] /\ Put("temp", Torn) /\ pc' = "writing"
  /\ UNCHANGED <<kept, place, work, boots, reported, lost, used, logs, touched>>

SaveWritten ==
  /\ pc = "writing"
  /\ \/ Put("temp", newest.config) /\ pc' = "rename"
     \/ Put("temp", Absent) /\ pc' = "ready"
  /\ UNCHANGED <<kept, place, work, boots, newest, reported, lost, used, logs, touched>>

Moved == disk' = [disk EXCEPT ![place].config = Here.temp, ![place].temp = Absent]

\* The console renames over the old file, or does not: then the old one goes.
Rename ==
  /\ pc = "rename"
  /\ \/ Moved /\ pc' = "saved" /\ UNCHANGED lost
     \/ Put("config", Absent) /\ pc' = "rename again" /\ lost' = lost \cup {place}
  /\ UNCHANGED <<kept, place, work, boots, newest, reported, used, logs, touched>>

RenameAgain ==
  /\ pc = "rename again"
  /\ \/ Moved /\ pc' = "saved" /\ lost' = lost \ {place}
     \/ Put("temp", Absent) /\ pc' = "ready" /\ UNCHANGED lost
  /\ UNCHANGED <<kept, place, work, boots, newest, reported, used, logs, touched>>

SaveReturns ==
  /\ pc = "saved" /\ pc' = "ready" /\ reported' = [reported EXCEPT ![place] = Here.config]
  /\ lost' = lost \ {place}
  /\ UNCHANGED <<disk, kept, place, work, boots, newest, used, logs, touched>>

-----------------------------------------------------------------------------
(* certgen.c, on the worker *)

\* The launcher and its worker run, whatever the main thread saves.
Launched == {"ready", "writing", "rename", "rename again", "saved"}
Running == pc \in Launched

\* identity_init: the stored pair, if both parts are there and belong together.
UseIdentity ==
  /\ Running
  /\ work = "idle" /\ Complete(place) /\ used' = Here.cert
  /\ UNCHANGED <<disk, kept, place, pc, work, boots, newest, reported, lost, logs, touched>>

\* Otherwise another one, the certificate written first, each part by a rename.
MakeIdentity ==
  /\ Running
  /\ work = "idle" /\ ~Complete(place) /\ newest.identity < MaxIdentity /\ Room
  /\ newest' = [newest EXCEPT !.identity = @ + 1]
  /\ \/ Put("cert", newest'.identity) /\ work' = "key"
     \/ UNCHANGED <<disk, work>>
  /\ touched' = TRUE
  /\ UNCHANGED <<kept, place, pc, boots, reported, lost, used, logs>>

\* The identity is used only when both parts were saved.
SaveKey ==
  /\ work = "key" /\ work' = "idle"
  /\ \/ Put("key", newest.identity) /\ used' = newest.identity
     \/ UNCHANGED <<disk, used>>
  /\ touched' = TRUE
  /\ UNCHANGED <<kept, place, pc, boots, newest, reported, lost, logs>>

\* identity_forget.
ForgetCert ==
  /\ Running
  /\ work = "idle" /\ used # Absent /\ used' = Absent
  /\ \/ Put("cert", Absent) /\ work' = "forget"
     \/ UNCHANGED <<disk, work>>
  /\ touched' = TRUE
  /\ UNCHANGED <<kept, place, pc, boots, newest, reported, lost, logs>>

ForgetKey ==
  /\ work = "forget" /\ work' = "idle"
  /\ Put("key", Absent) \/ UNCHANGED disk
  /\ touched' = TRUE
  /\ UNCHANGED <<kept, place, pc, boots, newest, reported, lost, used, logs>>

\* Closed, crashed or switched off: what was remembered and used is gone.
Killed ==
  /\ pc # "off" /\ pc' = "off" /\ work' = "idle" /\ used' = Absent /\ logs' = Absent
  /\ kept' = NoFiles
  /\ UNCHANGED <<disk, place, boots, newest, reported, lost, touched>>

FilesNext ==
  \/ Start \/ BringPrefs \/ OpenLog \/ BringConfig \/ BringKey \/ BringCert \/ UndoCert \/ UndoKey
  \/ SaveBegins \/ SaveWritten \/ Rename \/ RenameAgain \/ SaveReturns
  \/ UseIdentity \/ MakeIdentity \/ SaveKey \/ ForgetCert \/ ForgetKey \/ Killed

FilesSpec == FilesInit /\ [][FilesNext]_filesVars

-----------------------------------------------------------------------------
Files ==
  [config : 0 .. MaxConfig, temp : Torn .. MaxConfig, cert : 0 .. MaxIdentity,
   key : 0 .. MaxIdentity, pref : {Absent, 1}]

FilesTypeOK ==
  /\ disk \in [Folders -> Files] /\ kept \in Files /\ touched \in BOOLEAN
  /\ pc \in Launched \cup {"off", "prefs", "log", "config", "pairing", "cert", "undo", "undo key"}
  /\ place \in Folders /\ work \in {"idle", "key", "forget"} /\ boots \in 0 .. MaxBoots
  /\ newest \in [config : 1 .. MaxConfig, identity : 1 .. MaxIdentity]
  /\ reported \in [Folders -> 0 .. MaxConfig] /\ lost \subseteq Folders
  /\ used \in 0 .. MaxIdentity /\ logs \in {0, 1}

\* What a start finds is what the last save reported, or the save after it
\* that had no time to report: never half a file, never an older one.  Where the
\* console refused to rename over the old file, which write_atomic then deletes
\* (moonlight_config.cpp:252), it may find none, and the defaults take its place.
FindsLastSaved ==
  \A p \in Folders :
    \/ disk[p].config \in {reported[p], newest.config}
    \/ p \in lost /\ disk[p].config = Absent

\* A connection is opened only with an identity the next start will find.
UsesStored == work = "idle" /\ used # Absent => Complete(place) /\ Here.cert = used

\* The log switch has the value the player chose in the sandbox from the first
\* start with filesystem access, unless the copy failed.
LogsAsChosen == pc = "ready" /\ place = "data" => logs = disk["data"].pref

\* The files over saves, copies and identities cut short anywhere
\* (app_storage.cpp, moonlight_config.cpp:222, certgen.c).
StorageOK == FilesTypeOK /\ FindsLastSaved /\ UsesStored /\ LogsAsChosen

\* A whole pairing stays until it is forgotten: neither another start, with or
\* without filesystem access, nor a failed copy, nor a new identity takes it.
PairingStays ==
  [][\A p \in Folders : Complete(p) =>
       \/ disk'[p].cert = disk[p].cert /\ disk'[p].key = disk[p].key
       \/ work' = "forget"]_filesVars

\* As app_storage.cpp:312 has it: when a start is over, and only starts have
\* touched them, the certificate and the key were brought over both, or neither.
BothOrNeither ==
  pc = "ready" /\ place = "data" /\ ~touched =>
    (disk["data"].cert = Absent <=> disk["data"].key = Absent)

=============================================================================
