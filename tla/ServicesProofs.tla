--------------------------- MODULE ServicesProofs ---------------------------
(***************************************************************************)
(* What outlives the process is whole and the newest there is; what a      *)
(* pairing, an unpair and a start tell the player is so on the PC; one of  *)
(* launcher and stream has the display; an interrupted request fails and   *)
(* leaves nothing behind; and merge_duplicates folds as Merged says.       *)
(***************************************************************************)
EXTENDS MCServices, HostListProofs

-----------------------------------------------------------------------------
(* Storage *)

Copying == {"prefs", "config", "pairing", "cert", "undo", "undo key"}

\* Each place has the configuration that was reported, but for the one a save
\* has just moved there, and for a file that went because a rename was refused.
ConfigInv ==
  /\ pc \in Copying => place = "data"
  /\ pc \in {"rename", "rename again"} => Here.temp = newest.config
  /\ pc = "rename again" => place \in lost
  /\ pc = "saved" => Here.config = newest.config
  /\ pc # "off" =>
       \A p \in Folders :
         \/ disk[p].config = reported[p]
         \/ pc = "saved" /\ p = place
         \/ p \in lost /\ disk[p].config = Absent
  /\ pc = "off" => FindsLastSaved

\* Who has taken a step of the pair's two knows what the other file is.
PairInv ==
  /\ pc \notin Launched => work = "idle" /\ used = Absent
  /\ work # "idle" => used = Absent
  /\ work = "key" => Here.cert = newest.identity
  /\ work = "forget" => Here.cert = Absent
  /\ pc \in {"cert", "undo", "undo key"} => disk["data"].cert = Absent
  /\ UsesStored

LogsInv == pc \notin {"off", "prefs", "log"} /\ place = "data" => logs = disk["data"].pref

FilesInv == FilesTypeOK /\ ConfigInv /\ PairInv /\ LogsInv

\* A file takes a content of its kind.
LEMMA PutTyped ==
  ASSUME FilesTypeOK
  PROVE  /\ \A v \in 0 .. MaxConfig : Put("config", v) => disk' \in [Folders -> Files]
         /\ \A v \in Torn .. MaxConfig : Put("temp", v) => disk' \in [Folders -> Files]
         /\ \A v \in 0 .. MaxIdentity : Put("cert", v) => disk' \in [Folders -> Files]
         /\ \A v \in 0 .. MaxIdentity : Put("key", v) => disk' \in [Folders -> Files]
         /\ \A v \in {Absent, 1} : Put("pref", v) => disk' \in [Folders -> Files]
<1>1. ASSUME NEW v \in 0 .. MaxConfig, Put("config", v) PROVE disk' \in [Folders -> Files]
  BY <1>1 DEF FilesTypeOK, Put, Folders, Files
<1>2. ASSUME NEW v \in Torn .. MaxConfig, Put("temp", v) PROVE disk' \in [Folders -> Files]
  BY <1>2 DEF FilesTypeOK, Put, Folders, Files
<1>3. ASSUME NEW v \in 0 .. MaxIdentity, Put("cert", v) PROVE disk' \in [Folders -> Files]
  BY <1>3 DEF FilesTypeOK, Put, Folders, Files
<1>4. ASSUME NEW v \in 0 .. MaxIdentity, Put("key", v) PROVE disk' \in [Folders -> Files]
  BY <1>4 DEF FilesTypeOK, Put, Folders, Files
<1>5. ASSUME NEW v \in {Absent, 1}, Put("pref", v) PROVE disk' \in [Folders -> Files]
  BY <1>5 DEF FilesTypeOK, Put, Folders, Files
<1> QED
  BY <1>1, <1>2, <1>3, <1>4, <1>5

\* What is moved is what the temporary file held.
LEMMA MovedTyped ==
  ASSUME FilesTypeOK, Here.temp \in 0 .. MaxConfig, Moved
  PROVE  disk' \in [Folders -> Files]
<1> DEFINE moved == disk[place].temp
<1>1. moved \in 0 .. MaxConfig /\ place \in Folders /\ disk \in [Folders -> Files]
  BY DEF Here, FilesTypeOK
<1>2. 0 \in Torn .. MaxConfig
  BY FilesAssumption DEF Torn
<1>3. disk' = [disk EXCEPT ![place] = [@ EXCEPT !.config = moved, !.temp = 0]]
  BY <1>1 DEF Moved, Here, Files, Absent
<1>4. [disk[place] EXCEPT !.config = moved, !.temp = 0] \in Files
  <2> HIDE DEF moved
  <2> QED
    BY <1>1, <1>2 DEF Files
<1> QED
  BY <1>1, <1>3, <1>4

\* What a file that is absent may hold, and what a new one has.
LEMMA Contents ==
  ASSUME FilesTypeOK
  PROVE  /\ Absent \in 0 .. MaxConfig /\ Absent \in Torn .. MaxConfig /\ Absent \in 0 .. MaxIdentity
         /\ Torn \in Torn .. MaxConfig
         /\ newest.config \in 1 .. MaxConfig /\ newest.config \in 0 .. MaxConfig
         /\ newest.config \in Torn .. MaxConfig
         /\ newest.identity \in 1 .. MaxIdentity /\ newest.identity \in 0 .. MaxIdentity
         /\ newest.identity > 0 /\ 1 .. MaxIdentity \subseteq 0 .. MaxIdentity
         /\ newest.identity < MaxIdentity => newest.identity + 1 \in 1 .. MaxIdentity
<1>1. newest.config \in 1 .. MaxConfig /\ newest.identity \in 1 .. MaxIdentity
  BY DEF FilesTypeOK
<1> QED
  BY <1>1, FilesAssumption DEF Absent, Torn

LEMMA FilesInvInit == FilesInit => FilesInv
<1> SUFFICES ASSUME FilesInit PROVE FilesInv
  OBVIOUS
<1> USE DEF FilesInit, Absent, Torn, Folders, NoFiles
<1>1. PICK c \in {0, 1}, i \in {0, 1}, f \in {0, 1} :
        disk = [p \in Folders |->
                  IF p = "data" THEN NoFiles
                  ELSE [config |-> c, temp |-> Absent, cert |-> i, key |-> i, pref |-> f]]
  OBVIOUS
<1>2. disk \in [Folders -> Files] /\ NoFiles \in Files
  BY <1>1, FilesAssumption DEF Files
<1>3. reported \in [Folders -> 0 .. MaxConfig]
  BY <1>1, FilesAssumption
<1>4. FilesTypeOK
  <2>1. newest \in [config : 1 .. MaxConfig, identity : 1 .. MaxIdentity]
    BY FilesAssumption
  <2>2. boots \in 0 .. MaxBoots /\ used \in 0 .. MaxIdentity
    BY FilesAssumption
  <2> QED
    BY <1>2, <1>3, <2>1, <2>2 DEF FilesTypeOK, Launched
<1>5. ConfigInv
  BY <1>1 DEF ConfigInv, Copying, FindsLastSaved
<1>6. PairInv /\ LogsInv
  BY DEF PairInv, LogsInv, UsesStored, Launched
<1> QED
  BY <1>4, <1>5, <1>6 DEF FilesInv

\* The steps of the main thread.
LEMMA MainKeepsFiles ==
  ASSUME FilesInv,
         \/ Start \/ BringPrefs \/ OpenLog \/ BringConfig \/ BringKey \/ BringCert
         \/ UndoCert \/ UndoKey \/ SaveBegins \/ SaveWritten \/ Rename \/ RenameAgain
         \/ SaveReturns \/ Killed
  PROVE  FilesInv'
<1> USE DEF FilesInv, FilesTypeOK, ConfigInv, PairInv, LogsInv, FindsLastSaved, UsesStored,
            Copying, Launched, Complete, Here, Absent, Torn, Folders
<1>1. CASE Start
  <2>1. pc' \in {"prefs", "log"} /\ place' \in Folders /\ (pc' = "prefs" => place' = "data")
    BY <1>1 DEF Start
  <2>2. FilesTypeOK'
    <3>1. reported' \in [Folders -> 0 .. MaxConfig] /\ kept' \in Files
      BY <1>1 DEF Start, Files
    <3>2. boots' \in 0 .. MaxBoots
      BY <1>1, FilesAssumption DEF Start
    <3> QED
      BY <1>1, <2>1, <3>1, <3>2 DEF Start
  <2>3. ConfigInv' /\ PairInv' /\ LogsInv'
    BY <1>1, <2>1 DEF Start
  <2> QED
    BY <2>2, <2>3
<1>2. CASE BringPrefs
  <2>1. FilesTypeOK'
    BY <1>2 DEF BringPrefs, Brought, Wanted, Put, Files
  <2>2. ConfigInv' /\ PairInv' /\ LogsInv'
    BY <1>2 DEF BringPrefs, Brought, Wanted, Put, Files
  <2> QED
    BY <2>1, <2>2
<1>3. CASE OpenLog
  <2>1. FilesTypeOK'
    BY <1>3 DEF OpenLog, Files
  <2>2. ConfigInv' /\ PairInv' /\ LogsInv'
    BY <1>3 DEF OpenLog
  <2> QED
    BY <2>1, <2>2
<1>4. CASE BringConfig
  <2>1. FilesTypeOK'
    BY <1>4 DEF BringConfig, Brought, Wanted, Put, Files
  <2>2. ConfigInv' /\ PairInv' /\ LogsInv'
    BY <1>4 DEF BringConfig, Brought, Wanted, Put, Files
  <2> QED
    BY <2>1, <2>2
<1>5. CASE BringKey
  <2>1. CASE PairingWanted /\ Brought("key") /\ pc' = "cert"
    <3>1. FilesTypeOK'
      BY <1>5, <2>1 DEF BringKey, Brought, Put, Files
    <3>2. ConfigInv' /\ PairInv' /\ LogsInv'
      BY <1>5, <2>1 DEF BringKey, PairingWanted, Brought, Wanted, Put, Files
    <3> QED
      BY <3>1, <3>2
  <2>2. CASE disk' = disk /\ ((PairingWanted /\ pc' = "undo") \/ pc' = "ready")
    <3>1. FilesTypeOK'
      BY <1>5, <2>2 DEF BringKey
    <3>2. ConfigInv' /\ PairInv' /\ LogsInv'
      BY <1>5, <2>2 DEF BringKey, PairingWanted, Wanted
    <3> QED
      BY <3>1, <3>2
  <2> QED
    BY <1>5, <2>1, <2>2 DEF BringKey
<1>6. CASE BringCert
  <2>1. CASE Brought("cert") /\ pc' = "ready"
    <3>1. FilesTypeOK'
      BY <1>6, <2>1 DEF BringCert, Brought, Put, Files
    <3>2. ConfigInv' /\ PairInv' /\ LogsInv'
      BY <1>6, <2>1 DEF BringCert, Brought, Put, Files
    <3> QED
      BY <3>1, <3>2
  <2>2. CASE disk' = disk /\ pc' = "undo"
    <3>1. FilesTypeOK'
      BY <1>6, <2>2 DEF BringCert
    <3>2. ConfigInv' /\ PairInv' /\ LogsInv'
      BY <1>6, <2>2 DEF BringCert
    <3> QED
      BY <3>1, <3>2
  <2> QED
    BY <1>6, <2>1, <2>2 DEF BringCert
<1>7. CASE UndoCert
  <2>1. FilesTypeOK'
    BY <1>7, PutTyped, Contents DEF UndoCert
  <2>2. ConfigInv' /\ PairInv' /\ LogsInv'
    BY <1>7 DEF UndoCert, Put, Files
  <2> QED
    BY <2>1, <2>2
<1>8. CASE UndoKey
  <2>1. FilesTypeOK'
    BY <1>8, PutTyped, Contents DEF UndoKey
  <2>2. ConfigInv' /\ PairInv' /\ LogsInv'
    BY <1>8 DEF UndoKey, Put, Files
  <2> QED
    BY <2>1, <2>2
<1>9. CASE SaveBegins
  <2>1. FilesTypeOK'
    <3>1. newest' \in [config : 1 .. MaxConfig, identity : 1 .. MaxIdentity]
      BY <1>9, Contents, FilesAssumption DEF SaveBegins
    <3>2. disk' \in [Folders -> Files]
      BY <1>9, PutTyped, Contents DEF SaveBegins
    <3> QED
      BY <1>9, <3>1, <3>2 DEF SaveBegins
  <2>2. ConfigInv' /\ PairInv' /\ LogsInv'
    BY <1>9 DEF SaveBegins, Put, Files
  <2> QED
    BY <2>1, <2>2
<1>10. CASE SaveWritten
  <2>1. CASE Put("temp", newest.config) /\ pc' = "rename"
    <3>1. FilesTypeOK'
      BY <1>10, <2>1, PutTyped, Contents DEF SaveWritten
    <3>2. ConfigInv' /\ PairInv' /\ LogsInv'
      BY <1>10, <2>1 DEF SaveWritten, Put, Files
    <3> QED
      BY <3>1, <3>2
  <2>2. CASE Put("temp", Absent) /\ pc' = "ready"
    <3>1. FilesTypeOK'
      BY <1>10, <2>2, PutTyped, Contents DEF SaveWritten
    <3>2. ConfigInv' /\ PairInv' /\ LogsInv'
      BY <1>10, <2>2 DEF SaveWritten, Put, Files
    <3> QED
      BY <3>1, <3>2
  <2> QED
    BY <1>10, <2>1, <2>2 DEF SaveWritten
<1>11. CASE Rename
  <2>1. CASE Moved /\ pc' = "saved" /\ UNCHANGED lost
    <3>1. FilesTypeOK'
      BY <1>11, <2>1, PutTyped, Contents, MovedTyped DEF Rename
    <3>2. ConfigInv' /\ PairInv' /\ LogsInv'
      BY <1>11, <2>1 DEF Rename, Moved, Put, Files
    <3> QED
      BY <3>1, <3>2
  <2>2. CASE Put("config", Absent) /\ pc' = "rename again" /\ lost' = lost \cup {place}
    <3>1. FilesTypeOK'
      BY <1>11, <2>2, PutTyped, Contents, MovedTyped DEF Rename
    <3>2. ConfigInv' /\ PairInv' /\ LogsInv'
      BY <1>11, <2>2 DEF Rename, Moved, Put, Files
    <3> QED
      BY <3>1, <3>2
  <2> QED
    BY <1>11, <2>1, <2>2 DEF Rename
<1>12. CASE RenameAgain
  <2>1. CASE Moved /\ pc' = "saved" /\ lost' = lost \ {place}
    <3>1. FilesTypeOK'
      BY <1>12, <2>1, PutTyped, Contents, MovedTyped DEF RenameAgain
    <3>2. ConfigInv' /\ PairInv' /\ LogsInv'
      BY <1>12, <2>1 DEF RenameAgain, Moved, Put, Files
    <3> QED
      BY <3>1, <3>2
  <2>2. CASE Put("temp", Absent) /\ pc' = "ready" /\ UNCHANGED lost
    <3>1. FilesTypeOK'
      BY <1>12, <2>2, PutTyped, Contents, MovedTyped DEF RenameAgain
    <3>2. ConfigInv' /\ PairInv' /\ LogsInv'
      BY <1>12, <2>2 DEF RenameAgain, Moved, Put, Files
    <3> QED
      BY <3>1, <3>2
  <2> QED
    BY <1>12, <2>1, <2>2 DEF RenameAgain
<1>13. CASE SaveReturns
  <2>1. FilesTypeOK'
    BY <1>13, FilesAssumption DEF SaveReturns, Files
  <2>2. ConfigInv' /\ PairInv' /\ LogsInv'
    BY <1>13 DEF SaveReturns, Files
  <2> QED
    BY <2>1, <2>2
<1>14. CASE Killed
  <2>1. FilesTypeOK'
    <3>1. NoFiles \in Files /\ 0 \in 0 .. MaxIdentity
      <4>1. 0 \in 0 .. MaxConfig /\ 0 \in Torn .. MaxConfig /\ 0 \in 0 .. MaxIdentity
        BY Contents
      <4> QED
        BY <4>1 DEF NoFiles, Files
    <3> QED
      BY <1>14, <3>1 DEF Killed
  <2>2. ConfigInv' /\ PairInv' /\ LogsInv'
    BY <1>14 DEF Killed
  <2> QED
    BY <2>1, <2>2
<1> QED
  BY <1>1, <1>2, <1>3, <1>4, <1>5, <1>6, <1>7, <1>8, <1>9, <1>10, <1>11, <1>12, <1>13, <1>14

\* The steps of the worker, which has the pair to itself.
LEMMA WorkerKeepsFiles ==
  ASSUME FilesInv, UseIdentity \/ MakeIdentity \/ SaveKey \/ ForgetCert \/ ForgetKey
  PROVE  FilesInv'
<1> USE DEF FilesInv, FilesTypeOK, ConfigInv, PairInv, LogsInv, FindsLastSaved, UsesStored,
            Copying, Launched, Running, Complete, Here, Absent, Torn, Folders
<1>1. CASE UseIdentity
  <2>1. FilesTypeOK'
    BY <1>1 DEF UseIdentity, Files
  <2>2. ConfigInv' /\ PairInv' /\ LogsInv'
    BY <1>1 DEF UseIdentity
  <2> QED
    BY <2>1, <2>2
<1>2. CASE MakeIdentity
  <2>1. newest' \in [config : 1 .. MaxConfig, identity : 1 .. MaxIdentity]
    <3>1. newest.identity + 1 \in 1 .. MaxIdentity
      BY <1>2, Contents DEF MakeIdentity
    <3>2. newest' = [newest EXCEPT !.identity = newest.identity + 1]
      BY <1>2 DEF MakeIdentity
    <3> QED
      BY <3>1, <3>2
  <2>2. newest'.identity \in 0 .. MaxIdentity /\ newest'.config = newest.config
    <3>1. newest'.identity \in 1 .. MaxIdentity
      BY <2>1
    <3> QED
      BY <1>2, <3>1, Contents DEF MakeIdentity
  <2>3. used = 0 /\ used' = 0
    BY <1>2 DEF MakeIdentity
  <2>4. CASE Put("cert", newest'.identity) /\ work' = "key"
    <3>1. disk' \in [Folders -> Files]
      BY <2>2, <2>4, PutTyped
    <3>2. FilesTypeOK'
      BY <1>2, <2>1, <2>4, <3>1 DEF MakeIdentity
    <3>3. \A p \in Folders : disk'[p].config = disk[p].config /\ disk'[p].temp = disk[p].temp
                           /\ disk'[p].pref = disk[p].pref
      BY <2>4 DEF Put, Files
    <3>4. disk'[place].cert = newest'.identity
      BY <2>4 DEF Put, Files
    <3>5. ConfigInv' /\ LogsInv'
      BY <1>2, <2>2, <3>3 DEF MakeIdentity
    <3>6. PairInv'
      BY <1>2, <2>3, <2>4, <3>4 DEF MakeIdentity
    <3> QED
      BY <3>2, <3>5, <3>6
  <2>5. CASE UNCHANGED <<disk, work>>
    <3>1. FilesTypeOK'
      BY <1>2, <2>1, <2>5 DEF MakeIdentity
    <3>2. ConfigInv' /\ LogsInv'
      BY <1>2, <2>2, <2>5 DEF MakeIdentity
    <3>3. PairInv'
      BY <1>2, <2>3, <2>5 DEF MakeIdentity
    <3> QED
      BY <3>1, <3>2, <3>3
  <2> QED
    BY <1>2, <2>4, <2>5 DEF MakeIdentity
<1>3. CASE SaveKey
  <2>1. CASE Put("key", newest.identity) /\ used' = newest.identity
    <3>1. disk' \in [Folders -> Files]
      BY <2>1, PutTyped, Contents
    <3>2. FilesTypeOK'
      BY <1>3, <2>1, <3>1, Contents DEF SaveKey
    <3>3. ConfigInv' /\ LogsInv'
      BY <1>3, <2>1 DEF SaveKey, Put, Files
    <3>4. newest.identity > 0 /\ disk'[place].key = newest.identity
          /\ disk'[place].cert = newest.identity
      <4>1. newest.identity > 0
        BY Contents
      <4> QED
        BY <1>3, <2>1, <4>1 DEF SaveKey, Put, Files
    <3>5. PairInv'
      BY <1>3, <2>1, <3>4 DEF SaveKey
    <3> QED
      BY <3>2, <3>3, <3>5
  <2>2. CASE UNCHANGED <<disk, used>>
    BY <1>3, <2>2 DEF SaveKey
  <2> QED
    BY <1>3, <2>1, <2>2 DEF SaveKey
<1>4. CASE ForgetCert
  <2>1. CASE Put("cert", Absent) /\ work' = "forget"
    <3>1. disk' \in [Folders -> Files]
      BY <2>1, PutTyped, Contents
    <3>2. FilesTypeOK'
      BY <1>4, <2>1, <3>1, Contents DEF ForgetCert
    <3>3. ConfigInv' /\ PairInv' /\ LogsInv'
      BY <1>4, <2>1 DEF ForgetCert, Put, Files
    <3> QED
      BY <3>2, <3>3
  <2>2. CASE disk' = disk /\ work' \in {"idle", work}
    BY <1>4, <2>2, Contents DEF ForgetCert
  <2> QED
    BY <1>4, <2>1, <2>2 DEF ForgetCert
<1>5. CASE ForgetKey
  <2>1. CASE Put("key", Absent)
    <3>1. disk' \in [Folders -> Files]
      BY <2>1, PutTyped, Contents
    <3>2. FilesTypeOK'
      BY <1>5, <2>1, <3>1, Contents DEF ForgetKey
    <3>3. ConfigInv' /\ PairInv' /\ LogsInv'
      BY <1>5, <2>1 DEF ForgetKey, Put, Files
    <3> QED
      BY <3>2, <3>3
  <2>2. CASE disk' = disk /\ work' \in {"idle", work}
    BY <1>5, <2>2, Contents DEF ForgetKey
  <2> QED
    BY <1>5, <2>1, <2>2 DEF ForgetKey
<1> QED
  BY <1>1, <1>2, <1>3, <1>4, <1>5

LEMMA FilesInvStep == FilesInv /\ [FilesNext]_filesVars => FilesInv'
<1> SUFFICES ASSUME FilesInv, [FilesNext]_filesVars PROVE FilesInv'
  OBVIOUS
<1>1. CASE UNCHANGED filesVars
  <2>1. FilesTypeOK' /\ ConfigInv'
    BY <1>1 DEF filesVars, FilesInv, FilesTypeOK, ConfigInv, FindsLastSaved, Here
  <2>2. PairInv' /\ LogsInv'
    BY <1>1 DEF filesVars, FilesInv, PairInv, LogsInv, UsesStored, Complete, Here
  <2> QED
    BY <2>1, <2>2 DEF FilesInv
<1> QED
  BY <1>1, MainKeepsFiles, WorkerKeepsFiles DEF FilesNext

\* A start finds the configuration saved last, or none if the console refused to
\* rename over it, and never half of one or an older one; a connection finds the
\* identity in the files, and the log its switch: wherever the process was ended
\* and whatever was refused, for any number of starts, saves and identities
\* (moonlight_config.cpp, write_atomic; app_storage.cpp; certgen.c).
THEOREM FilesKept == FilesSpec => []StorageOK
<1>1. FilesInv => StorageOK
  <2> SUFFICES ASSUME FilesInv PROVE FindsLastSaved
    BY DEF FilesInv, PairInv, LogsInv, StorageOK, LogsAsChosen
  <2>1. CASE pc = "off"
    BY <2>1 DEF FilesInv, ConfigInv
  <2>2. CASE pc # "off"
    BY <2>2 DEF FilesInv, ConfigInv, FindsLastSaved, Here
  <2> QED
    BY <2>1, <2>2
<1> QED
  BY <1>1, FilesInvInit, FilesInvStep, PTL DEF FilesSpec

\* No step but a forgetting changes a file of a pair that is whole.
LEMMA WholePairs ==
  ASSUME FilesInv, [FilesNext]_filesVars, NEW p \in Folders, Complete(p)
  PROVE  \/ disk'[p].cert = disk[p].cert /\ disk'[p].key = disk[p].key
         \/ work' = "forget"
<1> DEFINE Stays == disk'[p].cert = disk[p].cert /\ disk'[p].key = disk[p].key
<1>1. place \in Folders /\ disk \in [Folders -> Files]
  BY DEF FilesInv, FilesTypeOK
<1>2. \A v : Put("config", v) \/ Put("temp", v) \/ Put("pref", v) => Stays
  BY <1>1 DEF Put, Files
<1>3. \A v : Put("cert", v) => disk'[p].key = disk[p].key /\ (p # place => Stays)
  BY <1>1 DEF Put, Files
<1>4. \A v : Put("key", v) => disk'[p].cert = disk[p].cert /\ (p # place => Stays)
  BY <1>1 DEF Put, Files
<1>5. Moved => Stays
  BY <1>1 DEF Moved, Files
<1>6. disk' = disk => Stays
  OBVIOUS
<1> SUFFICES Stays \/ work' = "forget"
  OBVIOUS
<1> HIDE DEF Stays
<1>0. disk[p].cert # 0 /\ disk[p].key # 0
  <2>1. disk[p].cert \in 0 .. MaxIdentity
    BY <1>1 DEF Files
  <2> QED
    BY <2>1 DEF Complete
<1>7. CASE BringKey \/ BringCert \/ UndoCert \/ UndoKey
  <2>1. place = "data" /\ (~BringKey => disk["data"].cert = Absent)
    BY <1>7 DEF FilesInv, ConfigInv, PairInv, Copying, BringKey, BringCert, UndoCert, UndoKey
  <2>2. BringKey => disk' = disk \/ disk["data"].cert = Absent
    BY <2>1 DEF BringKey, PairingWanted, Wanted, Here
  <2>3. CASE p = place
    <3>1. disk["data"].cert # Absent
      BY <1>0, <2>1, <2>3 DEF Absent
    <3> QED
      BY <1>6, <1>7, <2>1, <2>2, <3>1
  <2>4. CASE p # place
    BY <1>3, <1>4, <1>6, <1>7, <2>4 DEF BringKey, BringCert, UndoCert, UndoKey, Brought
  <2> QED
    BY <2>3, <2>4
<1>8. CASE MakeIdentity
  BY <1>3, <1>6, <1>8 DEF MakeIdentity
<1>9. CASE SaveKey
  <2>1. p = place => disk[p].key = newest.identity
    BY <1>9 DEF FilesInv, PairInv, SaveKey, Complete, Here
  <2>2. Put("key", newest.identity) => disk'[place].key = newest.identity
    BY <1>1 DEF Put, Files
  <2> QED
    BY <1>4, <1>6, <1>9, <2>1, <2>2 DEF SaveKey, Stays
<1>10. CASE ForgetCert
  BY <1>6, <1>10 DEF ForgetCert
<1>11. CASE ForgetKey
  <2>1. work = "forget" => disk[place].cert = Absent
    BY DEF FilesInv, PairInv, Here
  <2>2. disk[place].cert = 0
    BY <1>11, <2>1 DEF ForgetKey, Absent
  <2>3. p # place
    BY <1>0, <2>2
  <2> QED
    BY <1>4, <1>6, <1>11, <2>3 DEF ForgetKey
<1> QED
  BY <1>2, <1>5, <1>6, <1>7, <1>8, <1>9, <1>10, <1>11 DEF FilesNext, filesVars, Start, BringPrefs,
     OpenLog, BringConfig, SaveBegins, SaveWritten, Rename, RenameAgain, SaveReturns,
     UseIdentity, Killed, Brought, Stays

\* A whole pairing stays until it is forgotten, whatever starts and whatever
\* is refused.
THEOREM PairingsStay == FilesSpec => PairingStays
<1>1. FilesInv /\ [FilesNext]_filesVars =>
        [\A p \in Folders : Complete(p) =>
           \/ disk'[p].cert = disk[p].cert /\ disk'[p].key = disk[p].key
           \/ work' = "forget"]_filesVars
  BY WholePairs
<1> QED
  BY <1>1, FilesInvInit, FilesInvStep, PTL DEF FilesSpec, PairingStays

-----------------------------------------------------------------------------
(* AppLife *)

\* The launcher holds nothing, the display, or all it needs.
HoldsByScreen ==
  /\ screen # "closed" => main = "launcher"
  /\ screen = "closed" => has = {}
  /\ screen = "open" => has = {"display"}
  /\ Equipped

\* A failure is counted until a stream starts, and main gives up in time.
Counts ==
  /\ main \in {"start", "launcher", "failed"} => failures <= 3 /\ (~handoff => failures <= 2)
  /\ main = "stream" => failures = 0
  /\ PatientEnough

\* Only the first launcher follows the arguments, before any stream.
ForwardFirst ==
  /\ first => streams = 0
  /\ fwd \in {"select", "wait"} => streams = 0
  /\ byFwd /\ screen = "launching" => streams = 0
  /\ ForwardOnce

AppInv == AppTypeOK /\ HoldsByScreen /\ Counts /\ ForwardFirst

\* Only a launcher that fails is counted, only a handover starts a stream.
LEMMA CountedSteps ==
  ASSUME [AppNext]_appVars
  PROVE  /\ failures' = failures \/ LauncherFailed \/ HandOver
         /\ streams' = streams \/ HandOver
<1>1. CASE UNCHANGED appVars
  BY <1>1 DEF appVars
<1>2. CASE StartUp \/ OpenDisplay \/ DisplayRefused \/ NotReady \/ Show
  BY <1>2 DEF StartUp, OpenDisplay, DisplayRefused, NotReady, Show
<1>3. CASE Poll \/ FindPc \/ ForwardFails \/ ForwardStarts \/ PlayerStarts
  BY <1>3 DEF Poll, FindPc, ForwardFails, ForwardStarts, PlayerStarts
<1>4. CASE Leave \/ SwapFails \/ StreamEnds \/ LauncherFailed
  BY <1>4 DEF Leave, SwapFails, StreamEnds, LauncherFailed
<1> QED
  BY <1>1, <1>2, <1>3, <1>4 DEF AppNext

LEMMA AppTypeKept == AppInv /\ [AppNext]_appVars => AppTypeOK'
<1> SUFFICES ASSUME AppInv, [AppNext]_appVars PROVE AppTypeOK'
  OBVIOUS
<1> USE DEF AppInv, AppTypeOK, Answers, Ended
<1>1. (failures \in 0 .. 4)'
  <2>1. LauncherFailed => failures' = failures + 1 /\ failures <= 3
    BY DEF LauncherFailed, Counts
  <2>2. HandOver => failures' = 0
    BY DEF HandOver
  <2>3. failures \in 0 .. 4
    OBVIOUS
  <2> HIDE DEF AppInv, AppTypeOK
  <2> QED
    BY <2>1, <2>2, <2>3, CountedSteps
<1>2. (streams \in 0 .. MaxStreams)'
  <2>1. HandOver => streams' = streams + 1 /\ streams < MaxStreams
    BY DEF HandOver
  <2>2. streams \in 0 .. MaxStreams
    OBVIOUS
  <2> HIDE DEF AppInv, AppTypeOK
  <2> QED
    BY <2>1, <2>2, CountedSteps, StreamsAssumption
<1> USE DEF AppNext, appVars, launcherVars, StartUp, OpenDisplay, DisplayRefused, NotReady, Show,
            Poll, FindPc, ForwardFails, ForwardStarts, PlayerStarts, HandOver, Leave, SwapFails,
            LauncherFailed, StreamEnds, Closes
<1>3. (main \in {"start", "launcher", "failed", "stream"} \cup Ended)'
  OBVIOUS
<1>4. (screen \in {"closed", "open", "shown", "launching"})'
  OBVIOUS
<1>5. (has \subseteq {"display", "pad", "audio", "worker"})'
  OBVIOUS
<1>6. (pending \in {"none", "stay", "exit"} /\ fwd \in {"idle", "select", "wait", "over"})'
  OBVIOUS
<1>7. (first \in BOOLEAN /\ exits \in BOOLEAN /\ forwarded \in BOOLEAN /\ byFwd \in BOOLEAN)'
  OBVIOUS
<1>8. (handoff \in BOOLEAN /\ error \in BOOLEAN /\ owed \in BOOLEAN)'
  OBVIOUS
<1>9. (answer \in Answers)'
  OBVIOUS
<1> QED
  BY <1>1, <1>2, <1>3, <1>4, <1>5, <1>6, <1>7, <1>8, <1>9

LEMMA AppInvStep == AppInv /\ [AppNext]_appVars => AppInv'
<1> SUFFICES ASSUME AppInv, [AppNext]_appVars PROVE AppInv'
  OBVIOUS
<1>1. AppTypeOK'
  BY AppTypeKept
<1>2. HoldsByScreen'
  BY DEF AppInv, HoldsByScreen, Equipped, AppNext, appVars, launcherVars, StartUp, OpenDisplay,
     DisplayRefused, NotReady, Show, Poll, FindPc, ForwardFails, ForwardStarts, PlayerStarts,
     HandOver, Leave, SwapFails, LauncherFailed, StreamEnds, Closes
<1>3. Counts'
  <2> failures \in 0 .. 4 /\ handoff \in BOOLEAN
    BY DEF AppInv, AppTypeOK
  <2>1. CASE LauncherFailed
    BY <2>1 DEF AppInv, Counts, PatientEnough, LauncherFailed, RetryLimit
  <2>2. CASE HandOver
    BY <2>2 DEF Counts, PatientEnough, HandOver
  <2>3. CASE ~LauncherFailed /\ ~HandOver
    <3>1. failures' = failures
      BY <2>3, CountedSteps
    <3> HIDE DEF AppInv
    <3> USE <2>3 DEF AppNext, appVars, launcherVars, StartUp, OpenDisplay, DisplayRefused, NotReady,
                     Show, Poll, FindPc, ForwardFails, ForwardStarts, PlayerStarts, Leave,
                     SwapFails, StreamEnds, Closes
    <3>2. main' = main \/ main' \in {"launcher", "exited", "failed"}
      OBVIOUS
    <3>3. main' \in {"launcher", "failed"} /\ main' # main =>
            \/ main \in {"start", "launcher"} /\ handoff' = handoff
            \/ main = "stream"
      BY DEF AppInv, HoldsByScreen
    <3>4. handoff' = handoff \/ main = "stream"
      OBVIOUS
    <3>5. main = "stream" /\ main' = main => handoff' = handoff
      OBVIOUS
    <3> HIDE <2>3 DEF AppNext
    <3> QED
      BY <3>1, <3>2, <3>3, <3>4, <3>5 DEF AppInv, Counts, PatientEnough
  <2> QED
    BY <2>1, <2>2, <2>3
<1>4. ForwardFirst'
  <2> streams \in 0 .. MaxStreams /\ first \in BOOLEAN /\ byFwd \in BOOLEAN
    BY DEF AppInv, AppTypeOK
  <2>1. CASE HandOver
    <3>1. ~first' /\ fwd' = "idle" /\ screen' = "closed"
      BY <2>1 DEF HandOver, Closes
    <3>2. byFwd' => streams = 0
      BY <2>1, Zenon DEF HandOver, AppInv, ForwardFirst
    <3>3. streams' = streams + 1
      BY <2>1 DEF HandOver
    <3>4. byFwd' => streams' = 1
      BY <3>2, <3>3
    <3> QED
      BY <3>1, <3>4 DEF ForwardFirst, ForwardOnce
  <2>2. CASE ~HandOver
    <3>1. streams' = streams
      BY <2>2, CountedSteps
    <3> USE <2>2, <3>1 DEF AppInv, ForwardFirst, AppNext, appVars, launcherVars, StartUp, OpenDisplay,
                     DisplayRefused, NotReady, Show, Poll, FindPc, ForwardFails, ForwardStarts,
                     PlayerStarts, Leave, SwapFails, LauncherFailed, StreamEnds, Closes
    <3>2. (first => streams = 0)'
      OBVIOUS
    <3>3. (fwd \in {"select", "wait"} => streams = 0)'
      OBVIOUS
    <3>4. (byFwd /\ screen = "launching" => streams = 0)'
      OBVIOUS
    <3>5. ForwardOnce'
      BY DEF HoldsByScreen, ForwardOnce
    <3> HIDE DEF AppNext, AppInv
    <3> QED
      BY <3>2, <3>3, <3>4, <3>5 DEF ForwardFirst
  <2> QED
    BY <2>1, <2>2
<1> QED
  BY <1>1, <1>2, <1>3, <1>4 DEF AppInv

\* One of the launcher and a stream has the display, main gives up after three
\* launchers that failed in a row, and a forwarder starts one stream.
THEOREM LauncherOrStream == AppSpec => []AppOK
<1>1. AppInit => AppInv
  <2> SUFFICES ASSUME AppInit PROVE AppInv
    OBVIOUS
  <2>1. failures \in 0 .. 4 /\ streams \in 0 .. MaxStreams
    BY StreamsAssumption DEF AppInit
  <2>2. {first, exits, forwarded, byFwd, handoff, error, owed} \subseteq BOOLEAN
    BY Zenon DEF AppInit
  <2>3. AppTypeOK
    BY <2>1, <2>2 DEF AppInit, AppTypeOK, Answers, Ended
  <2>4. HoldsByScreen /\ Counts /\ ForwardFirst
    BY DEF AppInit, HoldsByScreen, Equipped, Counts, PatientEnough, ForwardFirst, ForwardOnce
  <2> QED
    BY <2>3, <2>4 DEF AppInv
<1>2. AppInv => AppOK
  <2> SUFFICES ASSUME AppInv PROVE HandsBack
    BY DEF AppInv, AppOK, HoldsByScreen, Counts, ForwardFirst
  <2> QED
    BY DEF AppInv, HoldsByScreen, HandsBack
<1> QED
  BY <1>1, <1>2, AppInvStep, PTL DEF AppSpec

-----------------------------------------------------------------------------
(* HttpClient *)

Unconnected == {"idle", "address", "closed"}
Connects == {"publish", "connect", "connecting", "refused", "withdraw", "connected"}
Answering == {"write", "check", "fail", "close"} \cup Reads

\* The request's socket is its own from the call that made it to the one that
\* closes it, and published while something may wait on it.
SocketInv ==
  /\ at \in Unconnected \cup Connects \cup Answering \cup {"shut"}
  /\ at \in Unconnected => fd = 0
  /\ at \in Unconnected \cup {"publish", "shut"} => active = 0
  /\ at \in Answering \cup (Connects \ {"publish"}) => active = fd
  /\ session => at \in Answering

\* A failure keeps no body, and only a request nobody interrupted succeeds.
AnswerInv ==
  /\ body # "none" => at \in {"body", "check", "fail"} \/ result = "ok"
  /\ result = "ok" => at \in {"close", "shut", "idle"} /\ ~cancelled
  /\ cancelled => flag

HttpInv == HttpTypeOK /\ SocketInv /\ AnswerInv

\* Switches stay Booleans, and a wait has no more slices than it began with.
LEMMA HttpSwitches ==
  ASSUME HttpTypeOK, [HttpNext]_httpVars
  PROVE  (tls \in BOOLEAN /\ session \in BOOLEAN /\ flag \in BOOLEAN /\ cancelled \in BOOLEAN)'
<1>1. tls \in BOOLEAN /\ session \in BOOLEAN /\ flag \in BOOLEAN /\ cancelled \in BOOLEAN
  BY DEF HttpTypeOK
<1> USE DEF Same, requestVars
<1>2. (tls \in BOOLEAN /\ session \in BOOLEAN)'
  BY <1>1 DEF HttpNext, Request, httpVars, RequestBegins, NextAddress, Publish, Connect, Connecting,
     Refused, Withdraw, Closed, Connected, Write, Read, Check, Failed, Close, Shut, Interrupt,
     Loads, ShutsDown, Other
<1>3. (flag \in BOOLEAN /\ cancelled \in BOOLEAN)'
  <2>1. CASE RequestBegins \/ Interrupt
    BY <1>1, <2>1 DEF RequestBegins, Interrupt
  <2>2. CASE UNCHANGED <<flag, cancelled>>
    BY <1>1, <2>2
  <2> QED
    BY <2>1, <2>2 DEF HttpNext, Request, httpVars, NextAddress, Publish, Connect, Connecting,
       Refused, Withdraw, Closed, Connected, Write, Read, Check, Failed, Close, Shut, Loads,
       ShutsDown, Other
<1> QED
  BY <1>2, <1>3

LEMMA HttpSlices ==
  ASSUME HttpTypeOK, [HttpNext]_httpVars
  PROVE  (slices \in 0 .. Slices)'
<1>1. slices \in 0 .. Slices /\ Slices \in 0 .. Slices
  BY HttpAssumption DEF HttpTypeOK
<1>2. slices # 0 => slices - 1 \in 0 .. Slices
  BY <1>1
<1>3. slices' \in {slices, Slices} \/ (slices # 0 /\ slices' = slices - 1)
  <2>1. CASE Read
    BY <2>1 DEF Read, Ends, Arrives, Go, Fail
  <2>2. CASE Connecting
    BY <2>2 DEF Connecting, Go
  <2>3. CASE ~Read /\ ~Connecting
    BY <2>3 DEF HttpNext, Request, httpVars, requestVars, RequestBegins, NextAddress, Publish,
       Connect, Refused, Withdraw, Closed, Connected, Write, Check, Failed, Close, Shut,
       Interrupt, Loads, ShutsDown, Other, Go, Fail
  <2> QED
    BY <2>1, <2>2, <2>3
<1> QED
  BY <1>1, <1>2, <1>3

LEMMA HttpTypeKept == HttpInv /\ [HttpNext]_httpVars => HttpTypeOK'
<1> SUFFICES ASSUME HttpInv, [HttpNext]_httpVars PROVE HttpTypeOK'
  OBVIOUS
<1>0. /\ left \in 0 .. MaxAddresses /\ fd \in Descriptors \cup {0}
      /\ active \in Descriptors \cup {0} /\ body \in {"none", "part", "whole"}
      /\ result \in {"ok", "io"} /\ open \subseteq Descriptors /\ down \subseteq open
  BY DEF HttpInv, HttpTypeOK
<1> DEFINE Rest == /\ left \in 0 .. MaxAddresses /\ fd \in Descriptors \cup {0}
                   /\ active \in Descriptors \cup {0} /\ body \in {"none", "part", "whole"}
                   /\ result \in {"ok", "io"} /\ open \subseteq Descriptors /\ down \subseteq open
<1>1. Rest'
  <2>1. CASE UNCHANGED httpVars
    BY <1>0, <2>1 DEF httpVars, requestVars
  <2>2. CASE RequestBegins
    BY <1>0, <2>2 DEF RequestBegins
  <2>3. CASE NextAddress
    <3>1. (left \in 0 .. MaxAddresses)'
      BY <1>0, <2>3, HttpAssumption DEF NextAddress
    <3>2. (fd \in Descriptors \cup {0} /\ open \subseteq Descriptors /\ down \subseteq open)'
      BY <1>0, <2>3 DEF NextAddress
    <3> QED
      BY <1>0, <2>3, <3>1, <3>2 DEF NextAddress
  <2>4. CASE Publish \/ Connect \/ Connecting
    BY <1>0, <2>4 DEF Publish, Connect, Connecting
  <2>5. CASE Refused \/ Withdraw \/ Closed
    BY <1>0, <2>5 DEF Refused, Withdraw, Closed
  <2>6. CASE Connected \/ Write
    BY <1>0, <2>6 DEF Connected, Write, Fail
  <2>7. CASE Read
    BY <1>0, <2>7 DEF Read, Ends, Arrives, Fail
  <2>8. CASE Check \/ Failed \/ Close \/ Shut
    BY <1>0, <2>8 DEF Check, Failed, Close, Shut, Fail
  <2>9. CASE Interrupt \/ Loads \/ ShutsDown
    BY <1>0, <2>9 DEF Interrupt, Loads, ShutsDown, requestVars
  <2>10. CASE Other
    BY <1>0, <2>10 DEF Other, requestVars
  <2> QED
    BY <2>1, <2>2, <2>3, <2>4, <2>5, <2>6, <2>7, <2>8, <2>9, <2>10 DEF HttpNext, Request
<1>2. ({tls, session, flag, cancelled} \subseteq BOOLEAN)'
  BY HttpSwitches, Zenon DEF HttpInv
<1> QED
  BY <1>1, <1>2, HttpSlices DEF HttpTypeOK, HttpInv

LEMMA SocketKept == HttpInv /\ [HttpNext]_httpVars => SocketInv'
<1> SUFFICES ASSUME HttpInv, [HttpNext]_httpVars PROVE SocketInv'
  OBVIOUS
<1>0. SocketInv
  BY DEF HttpInv
<1> USE DEF SocketInv, Unconnected, Connects, Answering, Reads
<1>1. CASE UNCHANGED httpVars \/ Interrupt \/ Loads \/ ShutsDown \/ Other
  BY <1>0, <1>1 DEF httpVars, Interrupt, Loads, ShutsDown, Other, requestVars
<1>2. CASE RequestBegins
  BY <1>0, <1>2 DEF RequestBegins
<1>3. CASE NextAddress
  BY <1>0, <1>3 DEF NextAddress, Go
<1>4. CASE Publish \/ Connect \/ Connecting
  BY <1>0, <1>4 DEF Publish, Connect, Connecting, Go
<1>5. CASE Refused \/ Withdraw \/ Closed
  BY <1>0, <1>5 DEF Refused, Withdraw, Closed, Go
<1>6. CASE Connected \/ Write
  BY <1>0, <1>6 DEF Connected, Write, Go, Fail
<1>7. CASE Read
  <2>1. at' \in Answering
    BY <1>0, <1>7 DEF Read, Ends, Arrives, Go, Fail, After
  <2> QED
    BY <1>0, <1>7, <2>1 DEF Read
<1>8. CASE Check \/ Failed \/ Close \/ Shut
  BY <1>0, <1>8 DEF Check, Failed, Close, Shut, Go, Fail
<1> QED
  BY <1>1, <1>2, <1>3, <1>4, <1>5, <1>6, <1>7, <1>8 DEF HttpNext, Request

LEMMA AnswerKept == HttpInv /\ [HttpNext]_httpVars => AnswerInv'
<1> SUFFICES ASSUME HttpInv, [HttpNext]_httpVars PROVE AnswerInv'
  OBVIOUS
<1>0. SocketInv /\ AnswerInv /\ result \in {"ok", "io"} /\ flag \in BOOLEAN /\ cancelled \in BOOLEAN
  BY DEF HttpInv, HttpTypeOK
<1> USE DEF AnswerInv
<1>1. CASE UNCHANGED httpVars \/ Loads \/ ShutsDown \/ Other
  BY <1>0, <1>1 DEF httpVars, Loads, ShutsDown, Other, requestVars
<1>2. CASE RequestBegins
  BY <1>0, <1>2 DEF RequestBegins
<1>3. CASE NextAddress
  BY <1>0, <1>3 DEF NextAddress, Go, Same
<1>4. CASE Publish \/ Connect \/ Connecting
  BY <1>0, <1>4 DEF Publish, Connect, Connecting, Go, Same
<1>5. CASE Refused \/ Withdraw \/ Closed
  BY <1>0, <1>5 DEF Refused, Withdraw, Closed, Go, Same
<1>6. CASE Connected \/ Write
  BY <1>0, <1>6 DEF Connected, Write, Go, Fail, Same
<1>7. CASE Read
  BY <1>0, <1>7 DEF Read, Ends, Arrives, Go, Fail, Same, Reads, After
<1>8. CASE Check \/ Failed \/ Close \/ Shut
  BY <1>0, <1>8 DEF Check, Failed, Close, Shut, Go, Fail, Same
<1>9. CASE Interrupt
  BY <1>0, <1>9 DEF Interrupt, requestVars
<1> QED
  BY <1>1, <1>2, <1>3, <1>4, <1>5, <1>6, <1>7, <1>8, <1>9 DEF HttpNext, Request

LEMMA HttpInvInit == HttpInit => HttpInv
<1> SUFFICES ASSUME HttpInit PROVE HttpInv
  OBVIOUS
<1>1. {tls, session, flag, cancelled} \subseteq BOOLEAN
  BY Zenon DEF HttpInit
<1>2. HttpTypeOK
  BY <1>1, HttpAssumption DEF HttpInit, HttpTypeOK
<1> QED
  BY <1>2 DEF HttpInit, HttpInv, SocketInv, AnswerInv, Unconnected, Connects, Answering, Reads

LEMMA HttpInvStep == HttpInv /\ [HttpNext]_httpVars => HttpInv'
BY HttpTypeKept, SocketKept, AnswerKept DEF HttpInv

LEMMA HttpInvOK == HttpInv => HttpOK
<1> SUFFICES ASSUME HttpInv PROVE HttpOK
  OBVIOUS
<1>1. GivesBack
  BY DEF HttpInv, SocketInv, AnswerInv, GivesBack, Unconnected, Connects, Answering, Reads
<1>2. CancelledFails
  BY DEF HttpInv, HttpTypeOK, AnswerInv, CancelledFails
<1>3. PublishesOwn
  BY DEF HttpInv, SocketInv, PublishesOwn
<1> QED
  BY <1>1, <1>2, <1>3 DEF HttpInv, HttpOK

\* An interrupted request is never answered, and between requests there is no
\* socket, no session and no body of a failure, for any number of descriptors,
\* addresses and slices.
THEOREM InterruptedFails == HttpSpec => []HttpOK
  BY HttpInvInit, HttpInvStep, HttpInvOK, PTL DEF HttpSpec

-----------------------------------------------------------------------------
(* GsClient *)

Servers == [unpairs : BOOLEAN, holds : SUBSET (1 .. MaxId), game : Games, phase : 0 .. 4]

LookPlaces == {"end", "apps", "listed", "forget"}
PairPlaces == {"pin", "phase 1", "phase 2", "phase 3", "phase 4", "confirm", "undo"}
StartPlaces == {"list", "quit", "look again", "launch"}
OpPlaces ==
  {"none", "identity", "info", "infos", "unpair", "stop"} \cup LookPlaces \cup PairPlaces
  \cup StartPlaces

Operations ==
  [kind : Kinds \cup {"none"}, at : OpPlaces, id : 0 .. MaxId, paired : BOOLEAN, game : Games,
   kept : Results, looking : BOOLEAN, online : BOOLEAN, answered : BOOLEAN, apps : BOOLEAN,
   meddled : BOOLEAN, began : BOOLEAN]

Snapshots ==
  [kind : Kinds \cup {"none"}, result : Results, online : BOOLEAN, paired : BOOLEAN,
   apps : BOOLEAN, game : Games, meddled : BOOLEAN, began : BOOLEAN, unheard : BOOLEAN,
   answered : BOOLEAN]

Jobs == {"idle", "preparing", "waiting", "succeeded", "failed"}

\* An identity the PC holds, and the one in the files, have been made.
IdsInv ==
  /\ server \in Servers /\ stored \in 0 .. MaxId /\ made \in 0 .. MaxId
  /\ stored <= made /\ server.holds \subseteq 1 .. made

\* Which operation is where.
WhereInv ==
  /\ op.kind = "none" <=> op.at = "none"
  /\ op.at \in LookPlaces => op.looking
  /\ op.kind = "refresh" => op.looking /\ op.kept = "ok"
  /\ op.kind = "start" => ~op.looking
  /\ op.at \in PairPlaces => op.kind = "pair" /\ ~op.looking
  /\ op.at \in StartPlaces => op.kind = "start"
  /\ op.at \in {"unpair", "stop"} => op.kind = op.at /\ ~op.looking
  /\ op.at = "forget" => op.kind = "unpair" /\ op.kept = "unsupported"
  /\ op.began => op.at \in PairPlaces \ {"pin", "phase 1"}

\* An operation uses the identity in the files; there is room for another one
\* wherever one may be made; an unpair in doubt is of no identity the PC holds.
IdInv ==
  /\ op.at \notin {"none", "identity", "forget"} => op.id = stored /\ stored # 0
  /\ op.at = "identity" => made < MaxId \/ (op.looking /\ stored # 0)
  /\ op.at = "unpair" \/ op.kept = "unsupported" => made < MaxId /\ stored # 0
  /\ op.kind = "unpair" /\ ~op.looking /\ op.at \in {"info", "infos"} =>
       made < MaxId \/ stored \notin server.holds
  /\ op.kind = "unpair" /\ op.looking /\ op.kept = "ok" => stored \notin server.holds

\* What an operation has heard is so, but for what people at the PC did since.
HeardInv ==
  /\ op.at = "listed" => stored \in server.holds \/ op.meddled
  /\ op.at \in {"apps", "listed"} => op.paired
  /\ op.at = "end" => ~op.paired
  /\ op.apps => op.paired /\ (op.at = "listed" \/ (op.at = "forget" /\ op.online))
  /\ op.at = "list" => op.game = server.game \/ op.meddled
  /\ op.at = "launch" =>
       op.game = 0 \/ (op.game = Asked /\ (server.game = Asked \/ op.meddled))

OpInv == op \in Operations /\ WhereInv /\ IdInv /\ HeardInv

ToldInv ==
  /\ told \in Snapshots /\ job \in Jobs
  /\ PairedForReal /\ FailedLeavesNothing /\ UnpairedAsksAgain /\ StreamsTheAsked /\ SnapshotWhole

ClientInv == IdsInv /\ OpInv /\ ToldInv

\* An operation that is over asks nothing, and one that runs is not told of.
LEMMA NoOpFits == op' = NoOp => OpInv'
<1> SUFFICES ASSUME op' = NoOp PROVE OpInv'
  OBVIOUS
<1>1. NoOp \in Operations
  BY ClientAssumption DEF NoOp, Operations, Kinds, OpPlaces, Games, Results
<1>2. WhereInv' /\ IdInv' /\ HeardInv'
  BY DEF NoOp, WhereInv, IdInv, HeardInv, LookPlaces, PairPlaces, StartPlaces
<1> QED
  BY <1>1, <1>2 DEF OpInv

LEMMA BusyFits ==
  ASSUME ToldInv, op'.kind # "none", told' = told, job' \in Jobs
  PROVE  ToldInv'
BY DEF ToldInv, PairedForReal, FailedLeavesNothing, UnpairedAsksAgain, StreamsTheAsked,
   SnapshotWhole, Idle

\* A report is of what it was made from.
LEMMA ReportFits ==
  ASSUME OpInv, ToldInv, NEW outcome \in Results, NEW online \in BOOLEAN, Report(outcome, online),
         op.kind # "none",
         op.kind = "pair" =>
           /\ ~op.began
           /\ outcome = "ok" /\ online /\ op.paired => stored' \in server'.holds \/ op.meddled,
         op.kind = "unpair" /\ outcome = "ok" => stored' \notin server'.holds,
         op.kind = "start" /\ outcome = "ok" => server'.game = Asked \/ op.meddled,
         op.apps => op.paired /\ online /\ (op.kind = "refresh" => outcome = "ok"),
         op.kind = "refresh" /\ online /\ ~op.paired => outcome = "ok"
  PROVE  OpInv' /\ ToldInv'
<1> op \in Operations /\ job \in Jobs
  BY DEF OpInv, ToldInv
<1>1. op' = NoOp
  BY DEF Report
<1>2. told' = [kind |-> op.kind, result |-> outcome, online |-> online, answered |-> op.answered,
               paired |-> online /\ op.paired, apps |-> op.apps,
               game |-> IF online THEN op.game ELSE 0,
               meddled |-> op.meddled, began |-> op.began, unheard |-> FALSE]
  BY DEF Report
<1>3. told' \in Snapshots
  BY <1>2 DEF Operations, Snapshots, Games
<1>4. job' \in Jobs
  BY DEF Report, Jobs
<1>5. /\ op.kind = "pair" /\ job' = "succeeded" => outcome = "ok" /\ online /\ op.paired
      /\ op.kind = told'.kind /\ told'.result = outcome /\ told'.meddled = op.meddled
      /\ told'.began = op.began /\ told'.apps = op.apps /\ told'.online = online
      /\ told'.paired = (online /\ op.paired)
  BY <1>2 DEF Report
<1>6. PairedForReal' /\ FailedLeavesNothing' /\ UnpairedAsksAgain' /\ StreamsTheAsked'
  BY <1>5 DEF PairedForReal, FailedLeavesNothing, UnpairedAsksAgain, StreamsTheAsked
<1>7. SnapshotWhole'
  BY <1>5 DEF SnapshotWhole
<1> QED
  BY <1>1, <1>3, <1>4, <1>6, <1>7, NoOpFits DEF ToldInv

\* The refresh that follows an action.
LEMMA LookFits ==
  ASSUME OpInv, ToldInv, NEW said \in Results, Look(said),
         op.kind \in {"pair", "unpair", "stop"},
         stored' # 0 \/ made' < MaxId,
         said = "unsupported" => made' < MaxId /\ stored' # 0,
         op.kind = "unpair" /\ said = "ok" => stored' \notin server'.holds
  PROVE  OpInv' /\ ToldInv'
<1>1. op \in Operations
  BY DEF OpInv
<1>2. op' \in Operations
  BY <1>1 DEF Look, Operations, OpPlaces, Games
<1>3. /\ op'.at = "identity" /\ op'.looking /\ op'.kept = said /\ ~op'.apps /\ ~op'.began
      /\ op'.kind = op.kind
  BY <1>1 DEF Look, Operations
<1>4. WhereInv' /\ IdInv' /\ HeardInv'
  BY <1>3 DEF WhereInv, IdInv, HeardInv, LookPlaces, PairPlaces, StartPlaces
<1>5. ToldInv'
  BY <1>3, BusyFits DEF Look, ToldInv
<1> QED
  BY <1>2, <1>4, <1>5 DEF OpInv

\* How an action ends, and how a refresh does.
LEMMA ActionEndsFits ==
  ASSUME OpInv, ToldInv, NEW outcome \in Results, ActionEnds(outcome), ~op.looking,
         op.kind # "none", stored' # 0,
         op.kind = "pair" /\ outcome # "ok" => ~op.began,
         outcome = "unsupported" => made' < MaxId,
         op.kind = "unpair" /\ outcome = "ok" => stored' \notin server'.holds,
         op.kind = "start" /\ outcome = "ok" => server'.game = Asked \/ op.meddled
  PROVE  OpInv' /\ ToldInv'
<1>1. op.kind # "refresh" /\ ~op.apps /\ op.kind \in Kinds
  BY DEF OpInv, WhereInv, HeardInv, LookPlaces, Operations
<1>2. CASE op.kind = "start" \/ (op.kind = "pair" /\ outcome # "ok")
  <2>1. Report(outcome, FALSE)
    BY <1>2 DEF ActionEnds
  <2> QED
    BY <1>1, <1>2, <2>1, ReportFits
<1>3. CASE ~(op.kind = "start" \/ (op.kind = "pair" /\ outcome # "ok"))
  <2>1. Look(outcome) /\ op.kind \in {"pair", "unpair", "stop"}
    BY <1>1, <1>3 DEF ActionEnds, Kinds
  <2> QED
    BY <2>1, LookFits
<1> QED
  BY <1>2, <1>3

LEMMA LookEndsFits ==
  ASSUME OpInv, ToldInv, NEW outcome \in Results, NEW online \in BOOLEAN, LookEnds(outcome, online),
         UNCHANGED <<server, stored, made>>, op.looking, op.kind # "none",
         op.kind = "pair" /\ outcome = "ok" /\ online /\ op.paired =>
           stored \in server.holds \/ op.meddled,
         op.apps => online /\ outcome = "ok",
         online /\ ~op.paired => outcome = "ok"
  PROVE  OpInv' /\ ToldInv'
<1>0. op \in Operations /\ WhereInv /\ IdInv /\ HeardInv
  BY DEF OpInv
<1>1. CASE op.kind = "unpair" /\ op.kept = "unsupported"
  <2>1. op' = [op EXCEPT !.at = "forget", !.online = online] /\ UNCHANGED <<told, job>>
    BY <1>1 DEF LookEnds
  <2>2. op' \in Operations
    BY <1>0, <2>1 DEF Operations, OpPlaces, LookPlaces
  <2>3. /\ op'.at = "forget" /\ op'.online = online /\ op'.kind = op.kind /\ op'.kept = op.kept
        /\ op'.looking = op.looking /\ op'.began = op.began /\ op'.apps = op.apps
        /\ op'.paired = op.paired
    BY <1>0, <2>1 DEF Operations
  <2>4. ~op.began
    BY <1>0 DEF WhereInv
  <2>5. WhereInv' /\ IdInv' /\ HeardInv'
    BY <1>0, <1>1, <2>3, <2>4 DEF WhereInv, IdInv, HeardInv, LookPlaces, PairPlaces, StartPlaces
  <2>6. ToldInv'
    BY <1>1, <2>1, <2>3, BusyFits DEF ToldInv
  <2> QED
    BY <2>2, <2>5, <2>6 DEF OpInv
<1>2. CASE ~(op.kind = "unpair" /\ op.kept = "unsupported")
  <2> DEFINE said == IF op.kept = "ok" THEN outcome ELSE op.kept
  <2>1. Report(said, online) /\ said \in Results
    BY <1>0, <1>2 DEF LookEnds, Operations
  <2>2. ~op.began /\ op.kind # "start" /\ (op.kind = "refresh" => op.kept = "ok")
    BY <1>0 DEF WhereInv
  <2>3. op.kind = "unpair" /\ said = "ok" => stored' \notin server'.holds
    BY <1>0 DEF IdInv
  <2>4. op.apps => op.paired /\ online /\ (op.kind = "refresh" => said = "ok")
    BY <1>0, <2>2 DEF HeardInv
  <2>5. op.kind = "pair" /\ said = "ok" /\ online /\ op.paired => stored' \in server'.holds \/ op.meddled
    OBVIOUS
  <2>6. op.kind = "refresh" /\ online /\ ~op.paired => said = "ok"
    BY <2>2
  <2> HIDE DEF said
  <2> QED
    BY <2>1, <2>2, <2>3, <2>4, <2>5, <2>6, ReportFits
<1> QED
  BY <1>1, <1>2

\* The identity in the files is used, or another one made and used.
LEMMA IdentityFits == ClientInv /\ Identity => ClientInv'
<1> SUFFICES ASSUME ClientInv, Identity PROVE ClientInv'
  OBVIOUS
<1>0. IdsInv /\ OpInv /\ ToldInv /\ op \in Operations /\ WhereInv /\ IdInv /\ HeardInv
  BY DEF ClientInv, OpInv
<1>1. op.at = "identity" /\ op.kind # "none" /\ server' = server
  BY <1>0 DEF Identity, WhereInv
<1>2. ~op.began /\ ~op.apps
  BY <1>0, <1>1 DEF WhereInv, HeardInv, PairPlaces
<1>3. ASSUME NEW i \in 0 .. MaxId, i # 0, op' = [op EXCEPT !.at = "info", !.id = i],
             stored' = i, UNCHANGED <<told, job>>,
             op.kind = "unpair" /\ ~op.looking => made' < MaxId \/ i \notin server.holds,
             op.kind = "unpair" /\ op.looking /\ op.kept = "ok" => i \notin server.holds,
             op.kept = "unsupported" => made' = made
      PROVE  OpInv' /\ ToldInv'
  <2>1. op' \in Operations
    BY <1>0, <1>3 DEF Operations, OpPlaces
  <2>2. /\ op'.at = "info" /\ op'.id = i /\ op'.kind = op.kind /\ op'.looking = op.looking
        /\ op'.kept = op.kept /\ op'.apps = op.apps /\ op'.began = op.began
    BY <1>0, <1>3 DEF Operations
  <2>3. WhereInv'
    BY <1>0, <1>1, <1>2, <2>2 DEF WhereInv, LookPlaces, PairPlaces, StartPlaces
  <2>4. IdInv'
    BY <1>0, <1>1, <1>3, <2>2 DEF IdInv
  <2>5. HeardInv'
    BY <1>2, <2>2 DEF HeardInv
  <2>6. ToldInv'
    BY <1>0, <1>1, <1>3, <2>2, BusyFits DEF ToldInv
  <2> QED
    BY <2>1, <2>3, <2>4, <2>5, <2>6 DEF OpInv
<1>4. CASE stored # 0
  <2>1. op' = [op EXCEPT !.at = "info", !.id = stored] /\ UNCHANGED <<stored, made, told, job>>
    BY <1>4 DEF Identity
  <2>2. stored \in 0 .. MaxId
    BY <1>0 DEF IdsInv
  <2>3. op.kind = "unpair" /\ op.looking /\ op.kept = "ok" => stored \notin server.holds
    BY <1>0 DEF IdInv
  <2>4. ~op.looking => made' < MaxId
    BY <1>0, <1>1, <2>1 DEF IdInv
  <2>5. OpInv' /\ ToldInv'
    BY <1>3, <1>4, <2>1, <2>2, <2>3, <2>4
  <2>6. IdsInv'
    BY <1>0, <1>1, <2>1 DEF IdsInv
  <2> QED
    BY <2>5, <2>6 DEF ClientInv
<1>5. CASE /\ stored = 0 /\ made' = made + 1 /\ stored' = made'
           /\ op' = [op EXCEPT !.at = "info", !.id = made'] /\ UNCHANGED <<told, job>>
  <2>1. stored' = made + 1 /\ op' = [op EXCEPT !.at = "info", !.id = made + 1] /\ UNCHANGED <<told, job>>
    BY <1>5
  <2>2. made < MaxId /\ op.kept # "unsupported"
    <3>1. stored = 0 /\ op.at = "identity"
      BY <1>1, <1>5
    <3> QED
      BY <1>0, <3>1 DEF IdInv
  <2>3. made \in 0 .. MaxId /\ made + 1 \in 0 .. MaxId /\ made + 1 # 0 /\ server \in Servers
    BY <1>0, <2>2, ClientAssumption DEF IdsInv
  <2>4. made + 1 \notin server.holds /\ server.holds \subseteq 1 .. made + 1
    BY <1>0, <2>3 DEF IdsInv
  <2>5. OpInv' /\ ToldInv'
    BY <1>3, <2>1, <2>2, <2>3, <2>4
  <2>6. IdsInv'
    BY <1>1, <1>5, <2>1, <2>3, <2>4 DEF IdsInv
  <2> QED
    BY <2>5, <2>6 DEF ClientInv
<1>6. CASE stored = 0 /\ UNCHANGED <<stored, made>>
         /\ (IF op.looking THEN LookEnds("failed", FALSE) ELSE Report("failed", FALSE))
  <2>1. IdsInv'
    BY <1>0, <1>1, <1>6 DEF IdsInv
  <2>2. CASE op.looking
    <3>1. "failed" \in Results /\ FALSE \in BOOLEAN
      BY DEF Results
    <3>2. LookEnds("failed", FALSE)
      BY <1>6, <2>2
    <3>3. OpInv' /\ ToldInv'
      BY <1>0, <1>1, <1>2, <1>6, <2>2, <3>1, <3>2, LookEndsFits
    <3> QED
      BY <2>1, <3>3 DEF ClientInv
  <2>3. CASE ~op.looking
    <3>1. "failed" \in Results /\ FALSE \in BOOLEAN
      BY DEF Results
    <3>2. Report("failed", FALSE)
      BY <1>6, <2>3
    <3>3. op.kind # "refresh"
      BY <1>0, <2>3 DEF WhereInv
    <3>4. OpInv' /\ ToldInv'
      BY <1>0, <1>1, <1>2, <3>1, <3>2, <3>3, ReportFits
    <3> QED
      BY <2>1, <3>4 DEF ClientInv
  <2> QED
    BY <2>2, <2>3
<1> QED
  BY <1>4, <1>5, <1>6 DEF Identity

\* A request that is answered, and one that is not: nothing changes on the PC.
LEMMA InfoFits == ClientInv /\ Info => ClientInv'
<1> SUFFICES ASSUME ClientInv, Info PROVE ClientInv'
  OBVIOUS
<1>0. IdsInv /\ OpInv /\ ToldInv /\ op \in Operations /\ WhereInv /\ IdInv /\ HeardInv
  BY DEF ClientInv, OpInv
<1>1. op.at = "info" /\ op.kind # "none" /\ UNCHANGED <<server, stored, made>> /\ stored # 0
  BY <1>0 DEF Info, WhereInv, IdInv
<1>2. ~op.began /\ ~op.apps
  BY <1>0, <1>1 DEF WhereInv, HeardInv, PairPlaces
<1>3. IdsInv'
  BY <1>0, <1>1 DEF IdsInv
<1>4. ASSUME NEW known \in BOOLEAN, UNCHANGED <<told, job>>,
             op' = [op EXCEPT !.at = "infos", !.paired = known, !.game = server.game, !.answered = TRUE]
      PROVE  OpInv' /\ ToldInv'
  <2>1. op' \in Operations
    BY <1>0, <1>4 DEF Operations, OpPlaces, IdsInv, Servers
  <2>2. /\ op'.at = "infos" /\ op'.id = op.id /\ op'.kind = op.kind /\ op'.looking = op.looking
        /\ op'.kept = op.kept /\ op'.apps = op.apps /\ op'.began = op.began
    BY <1>0, <1>4 DEF Operations
  <2>3. WhereInv'
    BY <1>0, <1>1, <1>2, <2>2 DEF WhereInv, LookPlaces, PairPlaces, StartPlaces
  <2>4. IdInv'
    BY <1>0, <1>1, <2>2 DEF IdInv
  <2>5. HeardInv'
    BY <1>2, <2>2 DEF HeardInv
  <2>6. ToldInv'
    BY <1>0, <1>1, <1>4, <2>2, BusyFits DEF ToldInv
  <2> QED
    BY <2>1, <2>3, <2>4, <2>5, <2>6 DEF OpInv
<1>5. CASE OpEnds("io", FALSE)
  <2>1. "io" \in Results /\ FALSE \in BOOLEAN
    BY DEF Results
  <2>2. CASE op.looking
    <3>1. LookEnds("io", FALSE)
      BY <1>5, <2>2 DEF OpEnds
    <3> QED
      BY <1>0, <1>1, <1>2, <1>3, <2>1, <2>2, <3>1, LookEndsFits DEF ClientInv
  <2>3. CASE ~op.looking
    <3>1. ActionEnds("io") /\ stored' # 0
      BY <1>1, <1>5, <2>3 DEF OpEnds
    <3> QED
      BY <1>0, <1>1, <1>2, <1>3, <2>1, <2>3, <3>1, ActionEndsFits DEF ClientInv
  <2> QED
    BY <2>2, <2>3
<1>6. OpInv' /\ ToldInv'
  <2>1. {FALSE, Holds} \subseteq BOOLEAN
    BY DEF Holds
  <2> HIDE DEF Holds
  <2>2. \/ \E known \in BOOLEAN :
             op' = [op EXCEPT !.at = "infos", !.paired = known, !.game = server.game, !.answered = TRUE]
           /\ UNCHANGED <<told, job>>
        \/ OpEnds("io", FALSE)
    BY <2>1, Zenon DEF Info
  <2> QED
    BY <1>3, <1>4, <1>5, <2>2 DEF ClientInv
<1> QED
  BY <1>3, <1>6 DEF ClientInv

LEMMA InfosFits == ClientInv /\ Infos => ClientInv'
<1> SUFFICES ASSUME ClientInv, Infos PROVE ClientInv'
  OBVIOUS
<1>0. IdsInv /\ OpInv /\ ToldInv /\ op \in Operations /\ WhereInv /\ IdInv /\ HeardInv
  BY DEF ClientInv, OpInv
<1>1. /\ op.at = "infos" /\ op.kind # "none" /\ UNCHANGED <<server, stored, made>>
      /\ stored # 0 /\ op.id = stored
  BY <1>0 DEF Infos, WhereInv, IdInv
<1>2. ~op.began /\ ~op.apps
  BY <1>0, <1>1 DEF WhereInv, HeardInv, PairPlaces
<1>3. IdsInv'
  BY <1>0, <1>1 DEF IdsInv
<1>4. PICK paired \in BOOLEAN, game \in Games :
        InitEnds(paired, game) /\ (paired => stored \in server.holds /\ game = server.game)
  <2>1. server.game \in Games /\ op.game \in Games
    BY <1>0 DEF IdsInv, Servers, Operations
  <2> QED
    BY <1>1, <2>1 DEF Infos, Holds
<1>5. ASSUME NEW spot \in {"apps", "end", "pin", "list", "unpair", "stop"}, told' = told, job' \in Jobs,
             op' = [op EXCEPT !.paired = paired, !.game = game, !.at = spot],
             spot = "apps" => op.looking /\ paired,
             spot = "end" => op.looking /\ ~paired,
             spot = "pin" => op.kind = "pair" /\ ~op.looking,
             spot = "list" => op.kind = "start" /\ paired,
             spot \in {"unpair", "stop"} => op.kind = spot /\ ~op.looking /\ paired
      PROVE  OpInv' /\ ToldInv'
  <2>1. op' \in Operations
    BY <1>0, <1>5 DEF Operations, OpPlaces, LookPlaces, PairPlaces, StartPlaces
  <2>2. /\ op'.at = spot /\ op'.id = op.id /\ op'.kind = op.kind /\ op'.looking = op.looking
        /\ op'.kept = op.kept /\ op'.apps = op.apps /\ op'.began = op.began
        /\ op'.paired = paired /\ op'.game = game
    BY <1>0, <1>5 DEF Operations
  <2>3. WhereInv'
    BY <1>0, <1>1, <1>2, <1>5, <2>2 DEF WhereInv, LookPlaces, PairPlaces, StartPlaces
  <2>4. spot = "unpair" => made < MaxId
    BY <1>0, <1>1, <1>4, <1>5 DEF IdInv
  <2>5. IdInv'
    BY <1>0, <1>1, <1>5, <2>2, <2>4 DEF IdInv
  <2>6. HeardInv'
    BY <1>1, <1>2, <1>4, <1>5, <2>2 DEF HeardInv
  <2>7. ToldInv'
    BY <1>0, <1>1, <1>5, <2>2, BusyFits
  <2> QED
    BY <2>1, <2>3, <2>5, <2>6, <2>7 DEF OpInv
<1>6. "ok" \in Results /\ "wrong state" \in Results /\ job \in Jobs /\ "waiting" \in Jobs
  BY <1>0 DEF Results, ToldInv, Jobs
<1>7. CASE ~op.looking /\ op.kind = "pair" /\ Look("ok")
  <2>1. stored' # 0 /\ op.kind \in {"pair", "unpair", "stop"} /\ op.kind # "unpair"
    BY <1>1, <1>7
  <2> QED
    BY <1>0, <1>3, <1>6, <1>7, <2>1, LookFits DEF ClientInv
<1>8. CASE ~op.looking /\ ActionEnds("wrong state")
  <2>1. stored' # 0
    BY <1>1
  <2> QED
    BY <1>0, <1>1, <1>2, <1>3, <1>6, <1>8, <2>1, ActionEndsFits DEF ClientInv
<1>9. OpInv' /\ ToldInv'
  <2>1. CASE op.looking /\ UNCHANGED <<told, job>>
             /\ op' = [op EXCEPT !.paired = paired, !.game = game, !.at = IF paired THEN "apps" ELSE "end"]
    <3>1. CASE paired
      BY <1>5, <1>6, <2>1, <3>1
    <3>2. CASE ~paired
      BY <1>5, <1>6, <2>1, <3>2
    <3> QED
      BY <3>1, <3>2
  <2>2. CASE /\ ~op.looking /\ op.kind = "pair" /\ job' = "waiting" /\ UNCHANGED told
             /\ op' = [op EXCEPT !.paired = paired, !.game = game, !.at = "pin"]
    BY <1>5, <1>6, <2>2
  <2>3. CASE /\ ~op.looking /\ op.kind = "start" /\ paired /\ UNCHANGED <<told, job>>
             /\ op' = [op EXCEPT !.paired = paired, !.game = game, !.at = "list"]
    BY <1>5, <1>6, <2>3
  <2>4. CASE /\ ~op.looking /\ op.kind \in {"unpair", "stop"} /\ paired /\ UNCHANGED <<told, job>>
             /\ op' = [op EXCEPT !.paired = paired, !.game = game, !.at = op.kind]
    BY <1>5, <1>6, <2>4
  <2> QED
    BY <1>4, <1>7, <1>8, <2>1, <2>2, <2>3, <2>4 DEF InitEnds, ClientInv
<1> QED
  BY <1>3, <1>9 DEF ClientInv

LEMMA LookingFits == ClientInv /\ (LookUnpaired \/ Apps \/ Listed) => ClientInv'
<1> SUFFICES ASSUME ClientInv, LookUnpaired \/ Apps \/ Listed PROVE ClientInv'
  OBVIOUS
<1>0. IdsInv /\ OpInv /\ ToldInv /\ op \in Operations /\ WhereInv /\ IdInv /\ HeardInv
  BY DEF ClientInv, OpInv
<1>1. op.at \in {"end", "apps", "listed"} /\ UNCHANGED <<server, stored, made>>
  BY DEF LookUnpaired, Apps, Listed
<1>2. op.looking /\ op.kind # "none" /\ ~op.began
  BY <1>0, <1>1 DEF WhereInv, LookPlaces, PairPlaces
<1>3. IdsInv'
  BY <1>0, <1>1 DEF IdsInv
<1>4. "ok" \in Results /\ "io" \in Results /\ TRUE \in BOOLEAN
  BY DEF Results
<1>5. CASE LookUnpaired \/ Listed
  <2>1. LookEnds("ok", TRUE) /\ op.at \in {"end", "listed"}
    BY <1>5 DEF LookUnpaired, Listed
  <2>2. op.paired => stored \in server.holds \/ op.meddled
    BY <1>0, <2>1 DEF HeardInv
  <2> QED
    BY <1>0, <1>1, <1>2, <1>3, <1>4, <2>1, <2>2, LookEndsFits DEF ClientInv
<1>6. CASE op.at = "apps" /\ LookEnds("io", TRUE)
  <2>1. op.paired /\ ~op.apps
    BY <1>0, <1>6 DEF HeardInv
  <2> QED
    BY <1>0, <1>1, <1>2, <1>3, <1>4, <1>6, <2>1, LookEndsFits DEF ClientInv
<1>7. CASE /\ op.at = "apps" /\ Holds /\ op' = [op EXCEPT !.apps = TRUE, !.at = "listed"]
           /\ UNCHANGED <<told, job>>
  <2>1. op' \in Operations
    BY <1>0, <1>7 DEF Operations, OpPlaces, LookPlaces
  <2>2. /\ op'.at = "listed" /\ op'.id = op.id /\ op'.kind = op.kind /\ op'.looking = op.looking
        /\ op'.kept = op.kept /\ op'.apps /\ op'.began = op.began /\ op'.paired = op.paired
    BY <1>0, <1>7 DEF Operations
  <2>3. WhereInv'
    BY <1>0, <1>2, <2>2 DEF WhereInv, LookPlaces, PairPlaces, StartPlaces
  <2>4. IdInv' /\ HeardInv'
    BY <1>0, <1>1, <1>2, <1>7, <2>2 DEF IdInv, HeardInv, Holds
  <2>5. ToldInv'
    BY <1>0, <1>2, <1>7, <2>2, BusyFits DEF ToldInv
  <2> QED
    BY <1>3, <2>1, <2>3, <2>4, <2>5 DEF OpInv, ClientInv
<1> QED
  BY <1>5, <1>6, <1>7 DEF Apps

\* An operation that goes on: what is to be shown of the place it gets to.
LEMMA OnwardFits ==
  ASSUME OpInv, ToldInv, NEW spot \in OpPlaces \ (LookPlaces \cup {"none", "identity", "unpair"}),
         op' = [op EXCEPT !.at = spot, !.began = op'.began], op'.began \in BOOLEAN,
         UNCHANGED <<stored, made, told, job>>,
         op.at \notin {"none", "identity", "forget"}, ~op.looking,
         op.kind # "unpair",
         spot \in PairPlaces => op.kind = "pair",
         spot \in StartPlaces => op.kind = "start",
         spot = "stop" => op.kind = "stop",
         op'.began => spot \in PairPlaces \ {"pin", "phase 1"},
         spot = "list" => op.game = server'.game \/ op.meddled,
         spot = "launch" =>
           op.game = 0 \/ (op.game = Asked /\ (server'.game = Asked \/ op.meddled))
  PROVE  OpInv' /\ ToldInv'
<1>0. op \in Operations /\ WhereInv /\ IdInv /\ HeardInv /\ job \in Jobs
  BY DEF OpInv, ToldInv
<1>1. op' \in Operations
  BY <1>0 DEF Operations
<1>2. /\ op'.at = spot /\ op'.id = op.id /\ op'.kind = op.kind /\ op'.looking = op.looking
      /\ op'.kept = op.kept /\ op'.meddled = op.meddled /\ op'.game = op.game
      /\ op'.apps = op.apps
  BY <1>0 DEF Operations
<1>3. op.kind # "none"
  BY <1>0 DEF WhereInv
<1>4. WhereInv'
  BY <1>0, <1>2, <1>3 DEF WhereInv, LookPlaces, PairPlaces, StartPlaces
<1>5. IdInv'
  BY <1>0, <1>2 DEF IdInv
<1>6. HeardInv'
  BY <1>0, <1>2 DEF WhereInv, HeardInv, LookPlaces
<1>7. ToldInv'
  BY <1>0, <1>2, <1>3, BusyFits
<1> QED
  BY <1>1, <1>4, <1>5, <1>6, <1>7 DEF OpInv

\* A PC with other identities, at no exchange.
LEMMA ServerWith ==
  ASSUME NEW s \in Servers, NEW h \in SUBSET (1 .. MaxId), NEW t,
         t = [s EXCEPT !.holds = h, !.phase = 0]
  PROVE  t \in Servers /\ t.holds = h /\ t.unpairs = s.unpairs /\ t.game = s.game
<1>1. t = [unpairs |-> s.unpairs, holds |-> h, game |-> s.game, phase |-> 0]
  BY DEF Servers
<1>2. s.unpairs \in BOOLEAN /\ s.game \in Games
  BY DEF Servers
<1>3. t \in Servers
  BY <1>1, <1>2 DEF Servers
<1> QED
  BY <1>1, <1>3

LEMMA PhaseNames ==
  ASSUME NEW k \in 1 .. 4
  PROVE  /\ Phases[k] \in {"phase 1", "phase 2", "phase 3", "phase 4"}
         /\ k = 1 => Phases[k] = "phase 1"
         /\ k < 4 => Phases[k + 1] \in {"phase 2", "phase 3", "phase 4"}
<1>1. k = 1 \/ k = 2 \/ k = 3 \/ k = 4
  OBVIOUS
<1>2. k < 4 => k + 1 \in {2, 3, 4}
  BY <1>1
<1>3. /\ Phases[1] = "phase 1" /\ Phases[2] = "phase 2" /\ Phases[3] = "phase 3"
      /\ Phases[4] = "phase 4"
  BY DEF Phases
<1> QED
  BY <1>1, <1>2, <1>3

LEMMA PairingFits ==
  ClientInv /\ (PairBegins \/ (\E k \in 1 .. 4 : Phase(k)) \/ Confirm) => ClientInv'
<1> SUFFICES ASSUME ClientInv, PairBegins \/ (\E k \in 1 .. 4 : Phase(k)) \/ Confirm
             PROVE  ClientInv'
  OBVIOUS
<1>0. IdsInv /\ OpInv /\ ToldInv /\ op \in Operations /\ WhereInv /\ IdInv /\ HeardInv
  BY DEF ClientInv, OpInv
<1>1. op.at \in PairPlaces \ {"undo"} /\ UNCHANGED <<stored, made>>
  BY PhaseNames DEF PairBegins, Phase, Confirm, PairPlaces
<1>2. op.kind = "pair" /\ ~op.looking /\ op.id = stored /\ stored # 0
  BY <1>0, <1>1 DEF WhereInv, IdInv, PairPlaces
<1>3. stored' # 0
  BY <1>1, <1>2
<1>4. "ok" \in Results /\ "io" \in Results /\ "wrong state" \in Results
  BY DEF Results
<1>5. ASSUME NEW spot \in {"phase 1", "undo"}, GoTo(spot), UNCHANGED <<told, job>>,
             spot = "phase 1" => op.at = "pin"
      PROVE  OpInv' /\ ToldInv'
  <2>1. op' = [op EXCEPT !.at = spot, !.began = op'.began] /\ op'.began = op.began
    BY <1>0, <1>5 DEF GoTo, Operations
  <2>2. op'.began \in BOOLEAN /\ (op'.began => spot \in PairPlaces \ {"pin", "phase 1"})
    BY <1>0, <1>5, <2>1 DEF WhereInv, Operations, PairPlaces
  <2>3. spot \in OpPlaces \ (LookPlaces \cup {"none", "identity", "unpair"}) /\ spot \in PairPlaces
        /\ spot \notin StartPlaces \cup {"stop", "list", "launch"}
    BY DEF OpPlaces, LookPlaces, PairPlaces, StartPlaces
  <2>4. op.at \notin {"none", "identity", "forget"}
    BY <1>1 DEF PairPlaces
  <2> QED
    BY <1>0, <1>1, <1>2, <1>5, <2>1, <2>2, <2>3, <2>4, OnwardFits
<1>6. CASE PairBegins
  <2>1. IdsInv'
    BY <1>0, <1>1, <1>6 DEF PairBegins, IdsInv
  <2>2. op.at = "pin" /\ ~op.began
    BY <1>0, <1>6 DEF PairBegins, WhereInv
  <2>3. CASE ActionEnds("wrong state")
    BY <1>0, <1>2, <1>3, <1>4, <2>1, <2>2, <2>3, ActionEndsFits DEF ClientInv
  <2>4. CASE GoTo("phase 1") /\ UNCHANGED <<told, job>>
    BY <1>5, <2>1, <2>2, <2>4 DEF ClientInv
  <2> QED
    BY <1>6, <2>3, <2>4 DEF PairBegins
<1>7. ASSUME NEW k \in 1 .. 4, Phase(k)
      PROVE  ClientInv'
  <2>1. server' \in {server, Taken(k), [server EXCEPT !.phase = 0]}
    BY <1>7 DEF Phase, Reaches, Lost
  <2>2. IdsInv'
    <3>1. server \in Servers /\ stored \in 1 .. made /\ made \in 0 .. MaxId
      BY <1>0, <1>2 DEF IdsInv
    <3>2. Taken(k) \in Servers /\ Taken(k).holds \subseteq server.holds \cup {stored}
      <4>1. CASE k = 4
        <5>1. Taken(k) = [server EXCEPT !.phase = 0, !.holds = server.holds \cup {stored}]
          BY <1>2, <3>1, <4>1 DEF Taken, Servers
        <5>2. server.holds \cup {stored} \subseteq 1 .. MaxId
          BY <3>1, ClientAssumption DEF Servers
        <5>3. server.holds \cup {stored} \in SUBSET (1 .. MaxId)
          BY <5>2
        <5> DEFINE held == server.holds \cup {stored}
        <5>4. Taken(k) = [server EXCEPT !.holds = held, !.phase = 0] /\ held \in SUBSET (1 .. MaxId)
          BY <5>1, <5>3
        <5> DEFINE taken == Taken(k)
        <5>5. taken = [server EXCEPT !.holds = held, !.phase = 0]
              /\ held \in SUBSET (1 .. MaxId) /\ server \in Servers
          BY <3>1, <5>4
        <5> HIDE DEF held, taken
        <5>6. taken \in Servers /\ taken.holds = held
          BY <5>5, ServerWith
        <5>7. Taken(k) \in Servers /\ Taken(k).holds = held
          BY <5>6 DEF taken
        <5> QED
          BY <5>7 DEF held
      <4>2. CASE k # 4
        <5>1. Taken(k) = [server EXCEPT !.phase = k]
          BY <3>1, <4>2 DEF Taken, Servers
        <5> QED
          BY <3>1, <5>1 DEF Servers
      <4> QED
        BY <4>1, <4>2
    <3>3. [server EXCEPT !.phase = 0] \in Servers /\ [server EXCEPT !.phase = 0].holds = server.holds
      BY <3>1 DEF Servers
    <3> QED
      BY <1>0, <1>1, <2>1, <3>1, <3>2, <3>3 DEF IdsInv
  <2>3. op.at = Phases[k]
    BY <1>7 DEF Phase
  <2>4. CASE Onward(k) /\ UNCHANGED <<told, job>>
    <3> DEFINE spot == IF k = 4 THEN "confirm" ELSE Phases[k + 1]
    <3>1. spot \in {"phase 2", "phase 3", "phase 4", "confirm"}
      <4>1. k = 4 \/ k < 4
        OBVIOUS
      <4> QED
        BY <4>1, PhaseNames
    <3>2. op' = [op EXCEPT !.at = spot, !.began = TRUE]
      BY <2>4 DEF Onward
    <3> HIDE DEF spot
    <3>3. op' = [op EXCEPT !.at = spot, !.began = op'.began] /\ op'.began
      BY <1>0, <3>2 DEF Operations
    <3>4. spot \in OpPlaces \ (LookPlaces \cup {"none", "identity", "unpair"})
          /\ spot \in PairPlaces \ {"pin", "phase 1"}
          /\ spot \notin StartPlaces \cup {"stop", "list", "launch"}
      BY <3>1 DEF OpPlaces, LookPlaces, PairPlaces, StartPlaces
    <3>5. op.at \notin {"none", "identity", "forget"} /\ op'.began \in BOOLEAN
      BY <1>1, <3>3 DEF PairPlaces
    <3>6. OpInv' /\ ToldInv'
      BY <1>0, <1>1, <1>2, <2>4, <3>3, <3>4, <3>5, OnwardFits
    <3> QED
      BY <2>2, <3>6 DEF ClientInv
  <2>5. CASE GoTo("undo") /\ UNCHANGED <<told, job>>
    BY <1>5, <2>2, <2>5 DEF ClientInv
  <2>6. CASE k = 1 /\ ActionEnds("io")
    <3>1. ~op.began
      BY <1>0, <2>3, <2>6, PhaseNames DEF WhereInv
    <3> QED
      BY <1>0, <1>2, <1>3, <1>4, <2>2, <2>6, <3>1, ActionEndsFits DEF ClientInv
  <2> QED
    BY <1>7, <2>4, <2>5, <2>6 DEF Phase
<1>8. CASE Confirm
  <2>1. IdsInv'
    BY <1>0, <1>1, <1>8 DEF Confirm, IdsInv
  <2>2. CASE ActionEnds("ok")
    BY <1>0, <1>2, <1>3, <1>4, <2>1, <2>2, ActionEndsFits DEF ClientInv
  <2>3. CASE GoTo("undo") /\ UNCHANGED <<told, job>>
    BY <1>5, <2>1, <2>3 DEF ClientInv
  <2> QED
    BY <1>8, <2>2, <2>3 DEF Confirm
<1> QED
  BY <1>6, <1>7, <1>8

\* The PC without the identity it is asked to forget.
LEMMA RemovedFits ==
  ASSUME IdsInv
  PROVE  /\ Removed \in Servers /\ Removed.holds \subseteq server.holds
         /\ Removed.unpairs = server.unpairs
         /\ server.unpairs => op.id \notin Removed.holds
         /\ Removed.game = server.game
<1>1. server \in Servers
  BY DEF IdsInv
<1>2. CASE server.unpairs
  <2>1. Removed = [server EXCEPT !.holds = server.holds \ {op.id}, !.phase = 0]
    BY <1>1, <1>2 DEF Removed, Servers
  <2> DEFINE others == server.holds \ {op.id}
  <2>2. Removed = [server EXCEPT !.holds = others, !.phase = 0] /\ others \in SUBSET (1 .. MaxId)
    BY <1>1, <2>1 DEF Servers
  <2> HIDE DEF others
  <2>3. /\ Removed \in Servers /\ Removed.holds = others /\ Removed.unpairs = server.unpairs
        /\ Removed.game = server.game
    BY <1>1, <2>2, ServerWith
  <2> QED
    BY <2>3 DEF others
<1>3. CASE ~server.unpairs
  <2>1. Removed = [server EXCEPT !.phase = 0]
    BY <1>1, <1>3 DEF Removed, Servers
  <2> QED
    BY <1>1, <1>3, <2>1 DEF Servers
<1> QED
  BY <1>2, <1>3

LEMMA UndoFits == ClientInv /\ Undo => ClientInv'
<1> SUFFICES ASSUME ClientInv, Undo PROVE ClientInv'
  OBVIOUS
<1>0. IdsInv /\ OpInv /\ ToldInv /\ op \in Operations /\ WhereInv /\ IdInv
  BY DEF ClientInv, OpInv
<1>1. op.at = "undo" /\ op' = NoOp /\ job' = "failed" /\ UNCHANGED <<stored, made>>
  BY DEF Undo
<1>2. op.id = stored
  BY <1>0, <1>1 DEF IdInv
<1>3. PICK arrived \in BOOLEAN :
        /\ server' = IF arrived THEN Removed ELSE server
        /\ told' = [kind |-> "pair", result |-> "failed", online |-> FALSE, paired |-> FALSE,
                    apps |-> FALSE, game |-> 0, meddled |-> op.meddled, answered |-> op.answered,
                    began |-> TRUE, unheard |-> ~arrived]
  BY DEF Undo
<1>4. IdsInv'
  BY <1>0, <1>1, <1>3, RemovedFits DEF IdsInv
<1>5. told' \in Snapshots /\ job' \in Jobs
  BY <1>0, <1>1, <1>3 DEF Operations, Snapshots, Kinds, Results, Games, Jobs
<1>6. told'.kind = "pair" /\ told'.unheard = ~arrived /\ told'.result = "failed"
  BY <1>3
<1>7. FailedLeavesNothing'
  BY <1>0, <1>1, <1>2, <1>3, <1>6, RemovedFits DEF FailedLeavesNothing
<1>8. PairedForReal' /\ UnpairedAsksAgain' /\ StreamsTheAsked' /\ SnapshotWhole'
  BY <1>1, <1>6 DEF PairedForReal, UnpairedAsksAgain, StreamsTheAsked, SnapshotWhole
<1> QED
  BY <1>1, <1>4, <1>5, <1>7, <1>8, NoOpFits DEF ToldInv, ClientInv

LEMMA UnpairFits == ClientInv /\ Unpair => ClientInv'
<1> SUFFICES ASSUME ClientInv, Unpair PROVE ClientInv'
  OBVIOUS
<1>0. IdsInv /\ OpInv /\ ToldInv /\ op \in Operations /\ WhereInv /\ IdInv
  BY DEF ClientInv, OpInv
<1>1. op.at = "unpair" /\ op.kind = "unpair" /\ ~op.looking /\ UNCHANGED <<stored, made>>
  BY <1>0 DEF Unpair, WhereInv
<1>2. op.id = stored /\ stored' # 0 /\ made' < MaxId
  BY <1>0, <1>1 DEF IdInv
<1>3. server' \in {server, Removed}
  BY DEF Unpair, Reaches, Lost
<1>4. IdsInv'
  BY <1>0, <1>1, <1>3, RemovedFits DEF IdsInv
<1>5. PICK outcome \in Results :
        ActionEnds(outcome) /\ (outcome = "ok" => server' = Removed /\ server.unpairs)
  BY DEF Unpair, Reaches, Results
<1>6. outcome = "ok" => stored' \notin server'.holds
  BY <1>0, <1>1, <1>2, <1>5, RemovedFits
<1>7. OpInv' /\ ToldInv'
  BY <1>0, <1>1, <1>2, <1>5, <1>6, ActionEndsFits
<1> QED
  BY <1>4, <1>7 DEF ClientInv

LEMMA ForgetFits == ClientInv /\ ForgetIdentity => ClientInv'
<1> SUFFICES ASSUME ClientInv, ForgetIdentity PROVE ClientInv'
  OBVIOUS
<1>0. IdsInv /\ OpInv /\ ToldInv /\ op \in Operations /\ WhereInv /\ IdInv /\ HeardInv
  BY DEF ClientInv, OpInv
<1>1. op.at = "forget" /\ op.kind = "unpair" /\ op.kept = "unsupported"
      /\ UNCHANGED <<server, made>>
  BY <1>0 DEF ForgetIdentity, WhereInv
<1>2. made' < MaxId /\ ~op.began
  BY <1>0, <1>1 DEF IdInv, WhereInv, PairPlaces
<1>3. "ok" \in Results /\ "failed" \in Results /\ op.online \in BOOLEAN
  BY <1>0 DEF Results, Operations
<1>4. CASE stored' = 0 /\ Look("ok")
  <2>1. IdsInv' /\ stored' \notin server'.holds
    BY <1>0, <1>1, <1>4, ClientAssumption DEF IdsInv
  <2>2. OpInv' /\ ToldInv'
    BY <1>0, <1>1, <1>2, <1>3, <1>4, <2>1, LookFits
  <2> QED
    BY <2>1, <2>2 DEF ClientInv
<1>5. CASE stored' = stored /\ Report("failed", op.online)
  <2>1. IdsInv'
    BY <1>0, <1>1, <1>5 DEF IdsInv
  <2>2. op.apps => op.paired /\ op.online
    BY <1>0, <1>1 DEF HeardInv
  <2>3. OpInv' /\ ToldInv'
    BY <1>0, <1>1, <1>2, <1>3, <1>5, <2>2, ReportFits
  <2> QED
    BY <2>1, <2>3 DEF ClientInv
<1> QED
  BY <1>4, <1>5 DEF ForgetIdentity

LEMMA StopFits == ClientInv /\ Stop => ClientInv'
<1> SUFFICES ASSUME ClientInv, Stop PROVE ClientInv'
  OBVIOUS
<1>0. IdsInv /\ OpInv /\ ToldInv /\ op \in Operations /\ WhereInv /\ IdInv
  BY DEF ClientInv, OpInv
<1>1. op.at = "stop" /\ op.kind = "stop" /\ ~op.looking /\ UNCHANGED <<stored, made>>
  BY <1>0 DEF Stop, WhereInv
<1>2. stored' # 0
  BY <1>0, <1>1 DEF IdInv
<1>3. IdsInv'
  <2>1. server' \in {server, Stopped}
    BY DEF Stop, Reaches, Lost
  <2>2. Stopped \in Servers /\ Stopped.holds = server.holds
    BY <1>0 DEF IdsInv, Stopped, Servers, Games
  <2> QED
    BY <1>0, <1>1, <2>1, <2>2 DEF IdsInv
<1>4. PICK outcome \in {"ok", "io", "failed"} : ActionEnds(outcome)
  BY DEF Stop
<1>5. OpInv' /\ ToldInv'
  BY <1>0, <1>1, <1>2, <1>4, ActionEndsFits DEF Results
<1> QED
  BY <1>3, <1>5 DEF ClientInv

LEMMA StartingFits == ClientInv /\ (List \/ Quit \/ LookAgain \/ Launch) => ClientInv'
<1> SUFFICES ASSUME ClientInv, List \/ Quit \/ LookAgain \/ Launch PROVE ClientInv'
  OBVIOUS
<1>0. IdsInv /\ OpInv /\ ToldInv /\ op \in Operations /\ WhereInv /\ IdInv /\ HeardInv
  BY DEF ClientInv, OpInv
<1>1. op.at \in StartPlaces /\ UNCHANGED <<stored, made>>
  BY DEF List, Quit, LookAgain, Launch, StartPlaces
<1>2. op.kind = "start" /\ ~op.looking /\ ~op.began /\ stored' # 0
  BY <1>0, <1>1 DEF WhereInv, IdInv, StartPlaces, PairPlaces
<1>3. IdsInv'
  <2>1. server \in Servers /\ Stopped \in Servers /\ Stopped.holds = server.holds
    BY <1>0 DEF IdsInv, Stopped, Servers, Games
  <2>2. ASSUME NEW g \in Games
        PROVE  [server EXCEPT !.game = g] \in Servers /\ [server EXCEPT !.game = g].holds = server.holds
    BY <2>1 DEF Servers
  <2>3. server' \in Servers /\ server'.holds = server.holds
    <3>1. CASE List \/ LookAgain
      BY <2>1, <3>1 DEF List, LookAgain
    <3>2. CASE Quit
      BY <2>1, <3>2 DEF Quit, Reaches
    <3>3. CASE Launch
      <4> DEFINE g == IF op.game # 0 THEN server.game ELSE Asked
      <4>1. g \in Games
        BY <2>1 DEF Servers, Games
      <4>2. server' \in {server, [server EXCEPT !.game = g]}
        BY <2>1, <3>3 DEF Launch, Reaches, Lost, Servers
      <4> QED
        BY <2>1, <2>2, <4>1, <4>2
    <3> QED
      BY <3>1, <3>2, <3>3
  <2> QED
    BY <1>0, <1>1, <2>3 DEF IdsInv
<1>4. ASSUME NEW outcome \in {"io", "failed"}, ActionEnds(outcome) PROVE ClientInv'
  BY <1>0, <1>2, <1>3, <1>4, ActionEndsFits DEF Results, ClientInv
<1>5. ASSUME NEW spot \in StartPlaces, GoTo(spot), UNCHANGED <<told, job>>,
             spot # "list", spot = "launch" => op.at = "list" /\ server' = server /\ op.game \in {0, Asked}
      PROVE  ClientInv'
  <2>1. op' = [op EXCEPT !.at = spot, !.began = op'.began] /\ op'.began = op.began
    BY <1>0, <1>5 DEF GoTo, Operations
  <2>2. op'.began \in BOOLEAN /\ ~op'.began
    BY <1>0, <1>2, <2>1 DEF Operations
  <2>3. spot \in OpPlaces \ (LookPlaces \cup {"none", "identity", "unpair"}) /\ spot \notin PairPlaces
        /\ spot # "stop"
    BY <1>5 DEF OpPlaces, LookPlaces, PairPlaces, StartPlaces
  <2>4. op.at \notin {"none", "identity", "forget"}
    BY <1>1 DEF StartPlaces
  <2>5. spot = "launch" => op.game = 0 \/ (op.game = Asked /\ (server'.game = Asked \/ op.meddled))
    BY <1>0, <1>5 DEF HeardInv
  <2>6. OpInv' /\ ToldInv'
    BY <1>0, <1>1, <1>2, <1>5, <2>1, <2>2, <2>3, <2>4, <2>5, OnwardFits
  <2> QED
    BY <1>3, <2>6 DEF ClientInv
<1>6. CASE List
  BY <1>4, <1>5, <1>6 DEF List, StartPlaces
<1>7. CASE Quit
  BY <1>4, <1>5, <1>7 DEF Quit, StartPlaces
<1>8. CASE LookAgain
  <2>1. CASE ActionEnds("failed")
    BY <1>4, <2>1
  <2>2. CASE op' = [op EXCEPT !.game = 0, !.at = "launch"] /\ UNCHANGED <<told, job>>
    <3>1. op' \in Operations
      BY <1>0, <2>2 DEF Operations, OpPlaces, StartPlaces, Games
    <3>2. /\ op'.at = "launch" /\ op'.id = op.id /\ op'.kind = op.kind /\ op'.looking = op.looking
          /\ op'.kept = op.kept /\ op'.apps = op.apps /\ op'.began = op.began /\ op'.game = 0
      BY <1>0, <2>2 DEF Operations
    <3>3. WhereInv'
      BY <1>0, <1>2, <3>2 DEF WhereInv, LookPlaces, PairPlaces, StartPlaces
    <3>4. IdInv'
      BY <1>0, <1>1, <1>2, <3>2 DEF IdInv, StartPlaces
    <3>5. HeardInv'
      BY <1>0, <1>2, <3>2 DEF HeardInv, WhereInv, LookPlaces
    <3>6. ToldInv'
      BY <1>0, <1>2, <2>2, <3>2, BusyFits DEF ToldInv
    <3> QED
      BY <1>3, <3>1, <3>3, <3>4, <3>5, <3>6 DEF OpInv, ClientInv
  <2> QED
    BY <1>8, <2>1, <2>2 DEF LookAgain
<1>9. CASE Launch
  <2>1. op.game = 0 \/ (op.game = Asked /\ (server.game = Asked \/ op.meddled))
    BY <1>0, <1>9 DEF Launch, HeardInv
  <2>2. CASE ActionEnds("ok") /\ (server'.game = Asked \/ op.meddled)
    BY <1>0, <1>2, <1>3, <2>2, ActionEndsFits DEF Results, ClientInv
  <2>3. ActionEnds("ok") /\ ~(ActionEnds("io") \/ ActionEnds("failed")) =>
          server' = [server EXCEPT !.game = IF op.game # 0 THEN @ ELSE Asked]
    BY <1>9 DEF Launch, Reaches
  <2>4. [server EXCEPT !.game = IF op.game # 0 THEN @ ELSE Asked].game = Asked \/ op.meddled
    BY <1>0, <2>1 DEF IdsInv, Servers
  <2> QED
    BY <1>4, <1>9, <2>2, <2>3, <2>4 DEF Launch
<1> QED
  BY <1>6, <1>7, <1>8, <1>9

\* People at the PC, who meddle with what runs and with what was told.
LEMMA PeopleFit == ClientInv /\ (UserRemovesClients \/ UserPlays) => ClientInv'
<1> SUFFICES ASSUME ClientInv, UserRemovesClients \/ UserPlays PROVE ClientInv'
  OBVIOUS
<1>0. /\ IdsInv /\ OpInv /\ ToldInv /\ op \in Operations /\ WhereInv /\ IdInv /\ HeardInv
      /\ told \in Snapshots
  BY DEF ClientInv, OpInv, ToldInv
<1>1. /\ op' = [op EXCEPT !.meddled = TRUE] /\ told' = [told EXCEPT !.meddled = TRUE]
      /\ UNCHANGED <<stored, made, job>>
  BY DEF UserRemovesClients, UserPlays
<1>2. /\ server' \in Servers /\ server'.holds \subseteq server.holds
      /\ server'.unpairs = server.unpairs
  <2>1. CASE UserRemovesClients
    <3>1. server' = [server EXCEPT !.holds = {}, !.phase = 0]
      BY <2>1 DEF UserRemovesClients
    <3>2. server \in Servers /\ {} \in SUBSET (1 .. MaxId)
      BY <1>0 DEF IdsInv
    <3> QED
      BY <3>1, <3>2, ServerWith
  <2>2. CASE UserPlays
    BY <1>0, <2>2 DEF UserPlays, IdsInv, Servers
  <2> QED
    BY <2>1, <2>2
<1>3. IdsInv'
  BY <1>0, <1>1, <1>2 DEF IdsInv
<1>4. op' \in Operations /\ told' \in Snapshots
  BY <1>0, <1>1 DEF Operations, Snapshots
<1>5. /\ op'.at = op.at /\ op'.id = op.id /\ op'.kind = op.kind /\ op'.looking = op.looking
      /\ op'.kept = op.kept /\ op'.apps = op.apps /\ op'.began = op.began /\ op'.game = op.game
      /\ op'.paired = op.paired /\ op'.online = op.online /\ op'.meddled
  BY <1>0, <1>1 DEF Operations
<1>6. /\ told'.kind = told.kind /\ told'.result = told.result /\ told'.online = told.online
      /\ told'.paired = told.paired /\ told'.apps = told.apps /\ told'.began = told.began
      /\ told'.unheard = told.unheard /\ told'.meddled
  BY <1>0, <1>1 DEF Snapshots
<1>7. WhereInv' /\ HeardInv'
  BY <1>0, <1>5 DEF WhereInv, HeardInv
<1>8. IdInv'
  BY <1>0, <1>1, <1>2, <1>5 DEF IdInv
<1>9. PairedForReal' /\ StreamsTheAsked'
  BY <1>6 DEF PairedForReal, StreamsTheAsked
<1>10. FailedLeavesNothing' /\ UnpairedAsksAgain'
  BY <1>0, <1>1, <1>2, <1>5, <1>6 DEF ToldInv, FailedLeavesNothing, UnpairedAsksAgain, Idle
<1>11. SnapshotWhole'
  BY <1>0, <1>5, <1>6 DEF ToldInv, SnapshotWhole, Idle
<1> QED
  BY <1>0, <1>1, <1>3, <1>4, <1>7, <1>8, <1>9, <1>10, <1>11 DEF ToldInv, OpInv, ClientInv

\* An operation begins when none runs, a pairing may have no thread to.
LEMMA BeginFits ==
  ClientInv /\ ((\E kind \in Kinds : Begins(kind)) \/ PairNotStarted) => ClientInv'
<1> SUFFICES ASSUME ClientInv, (\E kind \in Kinds : Begins(kind)) \/ PairNotStarted PROVE ClientInv'
  OBVIOUS
<1>0. IdsInv /\ OpInv /\ ToldInv
  BY DEF ClientInv
<1>1. UNCHANGED <<server, stored, made>>
  BY DEF Begins, PairNotStarted
<1>2. IdsInv'
  BY <1>0, <1>1 DEF IdsInv
<1>3. Nothing \in Snapshots /\ [Nothing EXCEPT !.kind = "pair", !.result = "failed"] \in Snapshots
  BY DEF Nothing, Snapshots, Kinds, Results, Games
<1>4. ASSUME NEW kind \in Kinds, Begins(kind) PROVE ClientInv'
  <2> DEFINE now == [NoOp EXCEPT !.kind = kind, !.at = "identity", !.looking = kind = "refresh"]
  <2>1. op' = now /\ told' = Nothing /\ job' \in Jobs /\ made < MaxId /\ op.kind = "none"
    BY <1>0, <1>4 DEF Begins, Idle, ToldInv, Jobs
  <2>2. NoOp \in Operations
    BY ClientAssumption DEF NoOp, Operations, Kinds, OpPlaces, Games, Results
  <2>3. now \in Operations
    BY <2>2 DEF Operations, OpPlaces
  <2>4. /\ now.at = "identity" /\ now.kind = kind /\ now.looking = (kind = "refresh")
        /\ now.kept = "ok" /\ ~now.apps /\ ~now.began /\ kind # "none"
    BY DEF NoOp, Kinds
  <2> HIDE DEF now
  <2>5. WhereInv' /\ IdInv' /\ HeardInv'
    BY <1>1, <2>1, <2>4 DEF WhereInv, IdInv, HeardInv, LookPlaces, PairPlaces, StartPlaces
  <2>6. ToldInv'
    BY <1>3, <2>1, <2>4 DEF ToldInv, PairedForReal, FailedLeavesNothing, UnpairedAsksAgain,
       StreamsTheAsked, SnapshotWhole, Idle
  <2> QED
    BY <1>2, <2>1, <2>3, <2>5, <2>6 DEF OpInv, ClientInv
<1>5. CASE PairNotStarted
  <2>1. op' = op /\ job' = "failed" /\ told' = [Nothing EXCEPT !.kind = "pair", !.result = "failed"]
    BY <1>5 DEF PairNotStarted
  <2>2. told'.kind = "pair" /\ ~told'.began
    BY <2>1 DEF Nothing
  <2>3. OpInv'
    <3>1. op' \in Operations /\ WhereInv'
      BY <1>0, <2>1 DEF OpInv, WhereInv
    <3>2. IdInv'
      BY <1>0, <1>1, <2>1 DEF OpInv, IdInv
    <3>3. HeardInv'
      BY <1>0, <1>1, <2>1 DEF OpInv, HeardInv
    <3> QED
      BY <3>1, <3>2, <3>3 DEF OpInv
  <2>4. ToldInv'
    BY <1>3, <2>1, <2>2 DEF ToldInv, Jobs, PairedForReal, FailedLeavesNothing, UnpairedAsksAgain,
       StreamsTheAsked, SnapshotWhole
  <2> QED
    BY <1>2, <2>3, <2>4 DEF ClientInv
<1> QED
  BY <1>4, <1>5

\* What a pairing, an unpair and a start tell is so, wherever requests and
\* answers are lost: for any number of identities.
THEOREM ToldIsSo == ClientSpec => []ClientOK
<1>1. ClientInit => ClientInv
  <2> SUFFICES ASSUME ClientInit PROVE ClientInv
    OBVIOUS
  <2>1. IdsInv
    BY ClientAssumption DEF ClientInit, IdsInv, Servers, Games
  <2>2. NoOp \in Operations /\ Nothing \in Snapshots
    BY ClientAssumption DEF NoOp, Nothing, Operations, Snapshots, Kinds, OpPlaces, Games, Results
  <2>3. OpInv
    BY <2>2 DEF ClientInit, NoOp, OpInv, WhereInv, IdInv, HeardInv, LookPlaces, PairPlaces,
       StartPlaces
  <2>4. ToldInv
    BY <2>2 DEF ClientInit, Nothing, ToldInv, Jobs, PairedForReal, FailedLeavesNothing,
       UnpairedAsksAgain, StreamsTheAsked, SnapshotWhole
  <2> QED
    BY <2>1, <2>3, <2>4 DEF ClientInv
<1>2. ClientInv /\ [ClientNext]_clientVars => ClientInv'
  <2> SUFFICES ASSUME ClientInv, [ClientNext]_clientVars PROVE ClientInv'
    OBVIOUS
  <2>1. CASE UNCHANGED clientVars
    <3>0. op' = op /\ server' = server /\ stored' = stored /\ made' = made
      BY <2>1 DEF clientVars
    <3>1. IdsInv' /\ OpInv'
      <4>1. IdsInv' /\ IdInv'
        BY <3>0 DEF ClientInv, OpInv, IdsInv, IdInv
      <4>2. WhereInv' /\ HeardInv' /\ (op \in Operations)'
        BY <3>0 DEF ClientInv, OpInv, WhereInv, HeardInv
      <4> QED
        BY <4>1, <4>2 DEF OpInv
    <3>2. ToldInv'
      BY <2>1 DEF clientVars, ClientInv, ToldInv, PairedForReal, FailedLeavesNothing,
         UnpairedAsksAgain, StreamsTheAsked, SnapshotWhole, Idle
    <3> QED
      BY <3>1, <3>2 DEF ClientInv
  <2>2. CASE \E k \in 1 .. 4 : Phase(k)
    BY <2>2, PairingFits
  <2>3. CASE PairBegins \/ Phase(1) \/ Phase(2) \/ Phase(3) \/ Phase(4) \/ Confirm
    BY <2>3, PairingFits
  <2> QED
    BY <2>1, <2>3, BeginFits, PeopleFit, IdentityFits, InfoFits, InfosFits, LookingFits, UndoFits,
       UnpairFits, ForgetFits, StopFits, StartingFits DEF ClientNext, Steps
<1>3. ClientInv => ClientOK
  <2> SUFFICES ASSUME ClientInv PROVE ClientTypeOK
    BY DEF ClientInv, ToldInv, ClientOK
  <2> QED
    BY DEF ClientInv, ClientTypeOK, IdsInv, Servers, OpInv, Operations, ToldInv, Snapshots, Jobs
<1> QED
  BY <1>1, <1>2, <1>3, PTL DEF ClientSpec

-----------------------------------------------------------------------------
(* MergeLoop: LoopInv says that after s entries the list is what it was given
   without those of the first s that are the same PC as the one stay. *)

\* What the loop has left when it has looked at the first s entries it was given.
Swept(s) == {i \in Places(given.list) : i <= s => i \in Kept(given.list, given.index)}
Heir(s) == IF given.list.selected \in Swept(s) THEN given.list.selected ELSE given.index
LoopAt(s) ==
  /\ list = [hosts |-> Picked(given.list.hosts, Swept(s)), selected |-> NewPlace(Swept(s), Heir(s))]
  /\ index = NewPlace(Swept(s), given.index)
  /\ duplicate = 1 + Cardinality({i \in Swept(s) : i <= s})

Given ==
  /\ given.list \in ListType /\ HasSelected(given.list) /\ Len(given.list.hosts) <= MaxHosts
  /\ given.index \in Places(given.list)

LoopInv == Given /\ \E s \in 0..Len(given.list.hosts) : LoopAt(s)

\* Where the entries are that are still there.
LEMMA SweptFacts ==
  ASSUME Given, NEW s \in 0..Len(given.list.hosts)
  PROVE  /\ given.list.hosts \in Seq(Hosts) /\ Len(given.list.hosts) \in Nat
         /\ Places(given.list) = 1..Len(given.list.hosts)
         /\ Swept(s) \subseteq 1..Len(given.list.hosts)
         /\ given.index \in Swept(s) /\ Heir(s) \in Swept(s)
         /\ PickedWell(Hosts, given.list.hosts, Swept(s))
<1> DEFINE hosts == given.list.hosts
<1>1. hosts \in Seq(Hosts) /\ Len(hosts) \in Nat /\ Places(given.list) = 1..Len(hosts)
  BY HostsOf DEF Given, Places
<1>2. Swept(s) \subseteq 1..Len(hosts) /\ given.index \in Swept(s)
  BY <1>1 DEF Swept, Kept, Given
<1>3. Heir(s) \in Swept(s)
  BY <1>2 DEF Heir
<1> DEFINE swept == Swept(s)
<1>4. PickedWell(Hosts, hosts, swept)
  <2> HIDE DEF swept
  <2>1. swept \subseteq 1..Len(hosts)
    BY <1>2 DEF swept
  <2> QED
    BY <1>1, <2>1, PickedFacts
<1> QED
  BY <1>1, <1>2, <1>3, <1>4

\* What the loop's variables say of the entries.
LEMMA LoopAtFacts ==
  ASSUME Given, NEW s \in 0..Len(given.list.hosts), LoopAt(s)
  PROVE  /\ Cardinality(Swept(s)) \in Nat /\ Len(list.hosts) = Cardinality(Swept(s))
         /\ \A i \in Swept(s) : /\ NewPlace(Swept(s), i) \in 1..Cardinality(Swept(s))
                                /\ list.hosts[NewPlace(Swept(s), i)] = given.list.hosts[i]
         /\ list.hosts = Picked(given.list.hosts, Swept(s))
         /\ list.selected = NewPlace(Swept(s), Heir(s))
<1>1. list.hosts = Picked(given.list.hosts, Swept(s)) /\ list.selected = NewPlace(Swept(s), Heir(s))
  BY DEF LoopAt
<1> DEFINE swept == Swept(s)
<1>2. PickedWell(Hosts, given.list.hosts, swept)
  BY SweptFacts
<1> HIDE DEF swept
<1>3. /\ Cardinality(swept) \in Nat
      /\ Len(Picked(given.list.hosts, swept)) = Cardinality(swept)
      /\ \A i \in swept : /\ NewPlace(swept, i) \in 1..Cardinality(swept)
                         /\ Picked(given.list.hosts, swept)[NewPlace(swept, i)] = given.list.hosts[i]
  BY <1>2 DEF PickedWell
<1> QED
  BY <1>1, <1>3 DEF swept

LEMMA LoopInit == Init => LoopInv
<1> SUFFICES ASSUME Init PROVE LoopInv
  OBVIOUS
<1>1. /\ list \in Lists /\ HasSelected(list) /\ index \in Places(list) /\ duplicate = 1
      /\ given = [list |-> list, index |-> index]
  BY DEF Init
<1>2. PICK n \in 1..MaxHosts : \E h \in [1..n -> Hosts], p \in 1..MaxHosts :
        list = [hosts |-> h, selected |-> p]
  BY <1>1 DEF Lists
<1>3. PICK h \in [1..n -> Hosts], p \in 1..MaxHosts : list = [hosts |-> h, selected |-> p]
  BY <1>2
<1>4. MaxHosts \in Nat /\ n \in Nat /\ n <= MaxHosts
  BY HostListAssumption
<1>5. h \in Seq(Hosts) /\ Len(h) = n
  <2>1. h \in Seq(Hosts)
    BY <1>4, IsASeq
  <2> QED
    BY <1>4, <2>1, LenProperties
<1>6. list \in ListType /\ Len(list.hosts) <= MaxHosts /\ list.hosts = h
  BY <1>3, <1>4, <1>5 DEF ListType
<1>7. given.list = list /\ given.index = index
  BY <1>1
<1>8. Given
  BY <1>1, <1>6, <1>7 DEF Given
<1>9. Swept(0) = 1..n
  BY <1>4, <1>5, <1>6, <1>7 DEF Swept, Places
<1>10. /\ \A i \in 1..n : NewPlace(1..n, i) = i
       /\ Picked(h, 1..n) = h
  BY <1>5, AllKept
<1>11. {i \in Swept(0) : i <= 0} = {}
  BY <1>4, <1>9
<1>12. index \in 1..n /\ list.selected \in 1..n
  BY <1>1, <1>5, <1>6 DEF HasSelected, Places
<1>13. Heir(0) = list.selected
  BY <1>7, <1>9, <1>12 DEF Heir
<1>14. LoopAt(0)
  <2>1. list = [hosts |-> h, selected |-> list.selected]
    BY <1>3
  <2>2. duplicate = 1 + Cardinality({i \in Swept(0) : i <= 0})
    <3>1. Cardinality({i \in Swept(0) : i <= 0}) = 0
      BY <1>11, FS_EmptySet
    <3> QED
      BY <1>1, <3>1
  <2> QED
    BY <1>6, <1>7, <1>9, <1>10, <1>12, <1>13, <2>1, <2>2 DEF LoopAt
<1>15. 0 \in 0..Len(given.list.hosts)
  BY <1>4, <1>5, <1>6, <1>7
<1> QED
  BY <1>8, <1>14, <1>15 DEF LoopInv

\* The entry the loop looks at is the next one it was given; it is the same PC as
\* the one stay exactly when it goes.
LEMMA LooksAtNext ==
  ASSUME Given, NEW s \in 0..Len(given.list.hosts), LoopAt(s), duplicate <= Len(list.hosts)
  PROVE  /\ s + 1 \in Swept(s) /\ s + 1 \in 1..Len(given.list.hosts)
         /\ NewPlace(Swept(s), s + 1) = duplicate
         /\ Duplicate <=> s + 1 \notin Kept(given.list, given.index)
<1> DEFINE n == Len(given.list.hosts)
           stay == Swept(s)
           seen == {i \in stay : i <= s}
<1>1. /\ n \in Nat /\ Places(given.list) = 1..n /\ stay \subseteq 1..n /\ given.index \in stay
      /\ IsFiniteSet(stay)
      /\ \A i \in stay : NewPlace(stay, i) \in 1..Cardinality(stay)
                         /\ list.hosts[NewPlace(stay, i)] = given.list.hosts[i]
      /\ \A i, j \in stay : i < j => NewPlace(stay, i) < NewPlace(stay, j)
      /\ Cardinality(stay) \in Nat /\ Len(list.hosts) = Cardinality(stay)
  <2>1. n \in Nat /\ stay \subseteq 1..n
    BY SweptFacts
  <2> HIDE DEF stay, n
  <2>2. /\ IsFiniteSet(stay)
        /\ \A i, j \in stay : i < j => NewPlace(stay, i) < NewPlace(stay, j)
    BY <2>1, PlacesOfKept
  <2> QED
    BY <2>1, <2>2, SweptFacts, LoopAtFacts DEF stay, n
<1>2. s \in Nat /\ s \in Int
  BY <1>1
<1>3. duplicate = 1 + Cardinality(seen) /\ index = NewPlace(stay, given.index)
  BY DEF LoopAt
<1>4. IsFiniteSet(seen) /\ Cardinality(seen) \in Nat
  BY <1>1, FS_Subset, FS_CardinalityType
<1>5. s # n
  <2>1. ASSUME s = n PROVE FALSE
    <3>1. seen = stay
      BY <1>1, <2>1
    <3> HIDE DEF seen, stay
    <3> QED
      BY <1>1, <1>3, <1>4, <3>1
  <2> QED
    BY <2>1
<1>6. s + 1 \in 1..n /\ s + 1 \in stay
  <2>1. s + 1 \in 1..n /\ ~(s + 1 <= s)
    BY <1>1, <1>2, <1>5
  <2> QED
    BY <1>1, <2>1 DEF Swept
<1>7. NewPlace(stay, s + 1) = duplicate
  <2>1. {j \in stay : j <= s + 1} = seen \cup {s + 1}
    <3>1. \A j \in stay : j \in Int
      BY <1>1
    <3> HIDE DEF stay
    <3> QED
      BY <1>2, <1>6, <3>1
  <2>2. s + 1 \notin seen
    BY <1>2
  <2> DEFINE upto == {j \in stay : j <= s + 1}
  <2>4. NewPlace(stay, s + 1) = Cardinality(upto) /\ upto = seen \cup {s + 1}
    BY <2>1 DEF NewPlace
  <2> HIDE DEF seen, upto
  <2>3. Cardinality(seen \cup {s + 1}) = Cardinality(seen) + 1
    BY <1>4, <2>2, FS_AddElement
  <2> QED
    BY <1>3, <1>4, <2>3, <2>4
<1>8. Duplicate <=> /\ s + 1 # given.index
                    /\ SameHost(given.list.hosts[s + 1], given.list.hosts[given.index])
  <2>1. /\ list.hosts[duplicate] = given.list.hosts[s + 1]
        /\ list.hosts[index] = given.list.hosts[given.index]
    BY <1>1, <1>3, <1>6, <1>7
  <2>2. duplicate # index <=> s + 1 # given.index
    <3>1. s + 1 < given.index \/ given.index < s + 1 \/ s + 1 = given.index
      BY <1>1, <1>2
    <3>2. duplicate \in Int /\ index \in Int
      BY <1>1, <1>3, <1>4
    <3> QED
      BY <1>1, <1>3, <1>6, <1>7, <3>1, <3>2
  <2> QED
    BY <2>1, <2>2 DEF Duplicate
<1>9. s + 1 \in Kept(given.list, given.index)
        <=> s + 1 = given.index \/ ~SameHost(given.list.hosts[s + 1], given.list.hosts[given.index])
  BY <1>1, <1>6 DEF Kept
<1> QED
  BY <1>6, <1>7, <1>8, <1>9

LEMMA SkipStep == ASSUME LoopInv, Skip PROVE LoopInv'
<1>1. PICK s \in 0..Len(given.list.hosts) : LoopAt(s)
  BY DEF LoopInv
<1>2. Given
  BY DEF LoopInv
<1>3. /\ s + 1 \in Swept(s) /\ s + 1 \in 1..Len(given.list.hosts)
      /\ NewPlace(Swept(s), s + 1) = duplicate
      /\ s + 1 \in Kept(given.list, given.index)
  BY <1>1, <1>2, LooksAtNext DEF Skip
<1>4. duplicate' = duplicate + 1 /\ list' = list /\ index' = index /\ given' = given
  BY DEF Skip
<1>5. Len(given.list.hosts) \in Nat /\ Swept(s) \subseteq 1..Len(given.list.hosts)
  BY <1>2, SweptFacts
<1>6. s \in Int /\ s + 1 \in 0..Len(given.list.hosts)
  BY <1>3, <1>5
<1>7. Swept(s + 1) = Swept(s)
  <2>1. \A i \in 1..Len(given.list.hosts) : i <= s + 1 <=> i <= s \/ i = s + 1
    BY <1>6
  <2>2. Places(given.list) = 1..Len(given.list.hosts)
    BY DEF Places
  <2> QED
    BY <1>3, <2>1, <2>2 DEF Swept
<1>8. Cardinality({i \in Swept(s) : i <= s + 1}) = duplicate
  BY <1>3 DEF NewPlace
<1>9. LoopAt(s + 1)'
  <2>1. /\ list = [hosts |-> Picked(given.list.hosts, Swept(s)),
                   selected |-> NewPlace(Swept(s), Heir(s))]
        /\ index = NewPlace(Swept(s), given.index)
    BY <1>1 DEF LoopAt
  <2>2. Swept(s + 1)' = Swept(s) /\ Heir(s + 1)' = Heir(s)
    BY <1>4, <1>7 DEF Swept, Heir
  <2>3. duplicate' = 1 + Cardinality({i \in Swept(s) : i <= s + 1})
    <3>1. duplicate \in Int
      BY <1>2, <1>3, <1>1, LoopAtFacts
    <3> QED
      BY <1>4, <1>8, <3>1
  <2> QED
    BY <1>4, <2>1, <2>2, <2>3 DEF LoopAt
<1> QED
  BY <1>2, <1>4, <1>6, <1>9 DEF LoopInv, Given

LEMMA FoldStep == ASSUME LoopInv, Fold PROVE LoopInv'
<1>1. PICK s \in 0..Len(given.list.hosts) : LoopAt(s)
  BY DEF LoopInv
<1>2. Given
  BY DEF LoopInv
<1> DEFINE n == Len(given.list.hosts)
           stay == Swept(s)
           rest == stay \ {s + 1}
<1>3. /\ s + 1 \in stay /\ s + 1 \in 1..n
      /\ NewPlace(stay, s + 1) = duplicate
      /\ s + 1 \notin Kept(given.list, given.index)
  BY <1>1, <1>2, LooksAtNext DEF Fold
<1>4. /\ list' = [hosts |-> SubSeq(list.hosts, 1, duplicate - 1)
                              \o SubSeq(list.hosts, duplicate + 1, Len(list.hosts)),
                  selected |-> SelectedAfterFold]
      /\ index' = PlaceAfterFold /\ duplicate' = duplicate /\ given' = given
  BY DEF Fold
<1>5. /\ given.list.hosts \in Seq(Hosts) /\ n \in Nat /\ stay \subseteq 1..n
      /\ Places(given.list) = 1..n /\ given.index \in stay /\ Heir(s) \in stay
  BY <1>2, SweptFacts
<1>6. s \in Int /\ s + 1 \in 0..n
  BY <1>3, <1>5
<1>7. Swept(s + 1) = rest
  <2>1. \A i \in 1..n : i <= s + 1 <=> i <= s \/ i = s + 1
    BY <1>6
  <2> QED
    BY <1>3, <1>5, <2>1 DEF Swept
<1>8. given.index # s + 1 /\ given.index \in rest
  <2>1. given.index \in Kept(given.list, given.index)
    BY <1>2 DEF Kept, Given
  <2> QED
    BY <1>3, <1>5, <2>1
<1>9. /\ list.hosts = Picked(given.list.hosts, stay)
      /\ list.selected = NewPlace(stay, Heir(s))
      /\ index = NewPlace(stay, given.index)
  BY <1>1, <1>2, LoopAtFacts DEF LoopAt
<1>10. /\ \A i, j \in stay : i < j => NewPlace(stay, i) < NewPlace(stay, j)
       /\ \A i \in stay : NewPlace(stay, i) \in Nat
       /\ \A i \in rest :
            NewPlace(rest, i) = IF s + 1 < i THEN NewPlace(stay, i) - 1 ELSE NewPlace(stay, i)
  <2> HIDE DEF stay, n
  <2>1. stay \subseteq 1..n /\ n \in Nat /\ s + 1 \in stay
    BY <1>3, <1>5
  <2>2. /\ \A i, j \in stay : i < j => NewPlace(stay, i) < NewPlace(stay, j)
        /\ \A i \in stay : NewPlace(stay, i) \in 1..Cardinality(stay)
    BY <2>1, PlacesOfKept
  <2>3. \A i \in rest :
          NewPlace(rest, i) = IF s + 1 < i THEN NewPlace(stay, i) - 1 ELSE NewPlace(stay, i)
    <3> DEFINE k == s + 1
    <3>1. k \in stay
      BY <2>1
    <3> HIDE DEF k
    <3>2. \A i \in stay \ {k} :
            NewPlace(stay \ {k}, i) = IF k < i THEN NewPlace(stay, i) - 1 ELSE NewPlace(stay, i)
      BY <2>1, <3>1, PlacesWithout
    <3> QED
      BY <3>2 DEF k
  <2>4. \A i \in stay : NewPlace(stay, i) \in Nat
    BY <2>2
  <2> QED
    BY <2>2, <2>3, <2>4
<1>11. list'.hosts = Picked(given.list.hosts, rest)
  <2>1. Picked(given.list.hosts, rest)
          = SubSeq(Picked(given.list.hosts, stay), 1, NewPlace(stay, s + 1) - 1)
              \o SubSeq(Picked(given.list.hosts, stay), NewPlace(stay, s + 1) + 1,
                        Len(Picked(given.list.hosts, stay)))
    <3> HIDE DEF stay
    <3> QED
      BY <1>3, <1>5, PickedWithout
  <2> QED
    BY <1>3, <1>4, <1>9, <2>1
<1> DEFINE Beyond(i) ==
      IF duplicate < NewPlace(stay, i) THEN NewPlace(stay, i) - 1 ELSE NewPlace(stay, i)
<1>12. \A i \in rest : NewPlace(rest, i) = Beyond(i) /\ NewPlace(stay, i) # duplicate
  <2>1. ASSUME NEW i \in rest PROVE NewPlace(rest, i) = Beyond(i) /\ NewPlace(stay, i) # duplicate
    <3>1. i \in stay /\ i # s + 1 /\ i \in Int /\ s + 1 \in Int
      BY <1>5, <1>6
    <3>2. NewPlace(stay, i) \in Int /\ duplicate \in Int
      BY <1>3, <1>10, <3>1
    <3>3. s + 1 < i => duplicate < NewPlace(stay, i)
      BY <1>3, <1>10, <3>1
    <3>4. i < s + 1 => NewPlace(stay, i) < duplicate
      BY <1>3, <1>10, <3>1
    <3>5. NewPlace(rest, i) = IF s + 1 < i THEN NewPlace(stay, i) - 1 ELSE NewPlace(stay, i)
      BY <1>10
    <3> HIDE DEF stay, rest
    <3> QED
      BY <3>1, <3>2, <3>3, <3>4, <3>5
  <2> QED
    BY <2>1
<1>13. index' = NewPlace(rest, given.index)
  BY <1>4, <1>8, <1>9, <1>12 DEF PlaceAfterFold
<1>14. \A i, j \in stay : NewPlace(stay, i) = NewPlace(stay, j) => i = j
  <2>1. ASSUME NEW i \in stay, NEW j \in stay, NewPlace(stay, i) = NewPlace(stay, j) PROVE i = j
    <3>1. i \in Int /\ j \in Int /\ NewPlace(stay, i) \in Int
      BY <1>5, <1>10
    <3>2. ~(i < j) /\ ~(j < i)
      BY <1>10, <2>1, <3>1
    <3> QED
      BY <3>1, <3>2
  <2> QED
    BY <2>1
<1>15. SelectedAfterFold = NewPlace(rest, Heir(s + 1))
  <2>0. /\ Heir(s + 1) = IF given.list.selected \in rest THEN given.list.selected ELSE given.index
        /\ Heir(s) = IF given.list.selected \in stay THEN given.list.selected ELSE given.index
    BY <1>7 DEF Heir
  <2>1. CASE list.selected \in {duplicate, index}
    <3>1. Heir(s) \in {s + 1, given.index}
      BY <1>3, <1>5, <1>9, <1>14, <2>1
    <3>2. Heir(s + 1) = given.index
      BY <1>8, <2>0, <3>1
    <3> QED
      BY <1>8, <1>9, <1>12, <2>1, <3>2 DEF SelectedAfterFold, PlaceAfterFold
  <2>2. CASE list.selected \notin {duplicate, index}
    <3>1. Heir(s) # s + 1 /\ Heir(s) # given.index
      BY <1>3, <1>9, <2>2
    <3>2. Heir(s + 1) = Heir(s) /\ Heir(s) \in rest
      BY <1>5, <2>0, <3>1
    <3>3. list.selected \in Nat /\ duplicate \in Nat
      BY <1>3, <1>5, <1>9, <1>10
    <3>4. SelectedAfterFold = IF duplicate < list.selected THEN list.selected - 1 ELSE list.selected
      BY <2>2, <3>3 DEF SelectedAfterFold
    <3> QED
      BY <1>9, <1>12, <3>2, <3>4
  <2> QED
    BY <2>1, <2>2
<1>16. duplicate = 1 + Cardinality({i \in rest : i <= s + 1})
  <2>1. {i \in rest : i <= s + 1} = {i \in stay : i <= s}
    <3>1. \A i \in stay : i \in Int
      BY <1>5
    <3> HIDE DEF stay
    <3> QED
      BY <1>6, <3>1
  <2> QED
    BY <1>1, <2>1 DEF LoopAt
<1>17. LoopAt(s + 1)'
  <2>1. Swept(s + 1)' = rest /\ Heir(s + 1)' = Heir(s + 1)
    BY <1>4, <1>7 DEF Swept, Heir
  <2>2. list' = [hosts |-> Picked(given.list.hosts, rest), selected |-> NewPlace(rest, Heir(s + 1))]
    BY <1>4, <1>11, <1>15
  <2> HIDE DEF rest
  <2> QED
    BY <1>4, <1>13, <1>16, <2>1, <2>2 DEF LoopAt
<1> QED
  BY <1>2, <1>4, <1>6, <1>17 DEF LoopInv, Given

\* When every entry was looked at, what is left is what Merged says.
LEMMA LoopDone == LoopInv => LoopMerges
<1> SUFFICES ASSUME LoopInv PROVE LoopMerges
  OBVIOUS
<1>1. PICK s \in 0..Len(given.list.hosts) : LoopAt(s)
  BY DEF LoopInv
<1>2. Given
  BY DEF LoopInv
<1> DEFINE n == Len(given.list.hosts)
           stay == Swept(s)
           seen == {i \in stay : i <= s}
<1>3. /\ n \in Nat /\ stay \subseteq 1..n /\ Places(given.list) = 1..n /\ n <= MaxHosts
      /\ given.index \in stay /\ Heir(s) \in stay /\ MaxHosts \in Nat
      /\ IsFiniteSet(stay) /\ Cardinality(stay) \in Nat /\ Cardinality(stay) <= n
      /\ \A i \in stay : NewPlace(stay, i) \in 1..Cardinality(stay)
  <2>1. n \in Nat /\ stay \subseteq 1..n
    BY <1>2, SweptFacts
  <2> HIDE DEF stay, n
  <2>2. /\ IsFiniteSet(stay) /\ Cardinality(stay) \in Nat /\ Cardinality(stay) <= n
        /\ \A i \in stay : NewPlace(stay, i) \in 1..Cardinality(stay)
    BY <2>1, PlacesOfKept
  <2> QED
    BY <1>2, <2>1, <2>2, SweptFacts, HostListAssumption DEF stay, n, Given
<1>4. /\ list = [hosts |-> Picked(given.list.hosts, stay), selected |-> NewPlace(stay, Heir(s))]
      /\ index = NewPlace(stay, given.index) /\ duplicate = 1 + Cardinality(seen)
  BY <1>1 DEF LoopAt
<1>5. IsFiniteSet(seen) /\ Cardinality(seen) \in Nat /\ Cardinality(seen) <= Cardinality(stay)
  BY <1>3, FS_Subset, FS_CardinalityType
<1>6. PickedWell(Hosts, given.list.hosts, stay)
  BY <1>2, SweptFacts
<1>7. TypeOK
  <2> DEFINE c == Cardinality(stay)
             h == Picked(given.list.hosts, stay)
  <2>1. h \in Seq(Hosts) /\ Len(h) = c
    BY <1>6 DEF PickedWell
  <2>2. NewPlace(stay, given.index) \in 1..c /\ NewPlace(stay, Heir(s)) \in 1..c
    BY <1>3
  <2> HIDE DEF stay, seen, h, c
  <2>3. c \in 1..MaxHosts
    BY <1>3, <2>2 DEF c
  <2>4. h \in [1..c -> Hosts]
    BY <2>1, LenProperties
  <2>5. list \in Lists
    <3>1. NewPlace(stay, Heir(s)) \in 1..MaxHosts
      BY <1>3, <2>2, <2>3
    <3>2. list = [hosts |-> h, selected |-> NewPlace(stay, Heir(s))]
      BY <1>4 DEF h
    <3>3. h \in UNION {[1..m -> Hosts] : m \in 1..MaxHosts}
      BY <2>3, <2>4
    <3> QED
      BY <3>1, <3>2, <3>3 DEF Lists
  <2>6. index \in 1..MaxHosts /\ duplicate \in 1..MaxHosts + 1
    BY <1>3, <1>4, <1>5, <2>2, <2>3 DEF c
  <2> QED
    BY <2>5, <2>6 DEF TypeOK
<1>8. ASSUME Returned
      PROVE  list = Merged(given.list, given.index) /\ index = MergedPlace(given.list, given.index)
  <2>1. Len(list.hosts) = Cardinality(stay)
    BY <1>1, <1>2, LoopAtFacts
  <2>2. seen = stay
    <3>1. Cardinality(seen) = Cardinality(stay)
      <4> HIDE DEF seen, stay
      <4> QED
        BY <1>3, <1>4, <1>5, <1>8, <2>1 DEF Returned
    <3>2. seen \subseteq stay
      OBVIOUS
    <3> HIDE DEF seen, stay
    <3> QED
      BY <1>3, <3>1, <3>2, FS_Subset
  <2>3. stay = Kept(given.list, given.index)
    <3>1. \A i \in 1..n : i > s => i \in stay
      BY <1>3 DEF Swept
    <3>2. \A i \in stay : i <= s
      BY <2>2
    <3>3. \A i \in 1..n : i <= s
      <4>1. \A i \in 1..n : i \in Int /\ s \in Int
        BY <1>3
      <4> HIDE DEF stay
      <4> QED
        BY <3>1, <3>2, <4>1
    <3> QED
      BY <1>3, <3>3 DEF Swept, Kept
  <2>4. HasSelected(given.list)
    BY <1>2 DEF Given
  <2>5. Merged(given.list, given.index)
          = [hosts |-> Picked(given.list.hosts, stay), selected |-> NewPlace(stay, Heir(s))]
    BY <2>3, <2>4 DEF Merged, Heir
  <2> QED
    BY <1>4, <2>3, <2>5 DEF MergedPlace
<1> QED
  BY <1>7, <1>8 DEF LoopMerges

LEMMA LoopStep == LoopInv /\ [Next]_vars => LoopInv'
<1> SUFFICES ASSUME LoopInv, [Next]_vars PROVE LoopInv'
  OBVIOUS
<1>1. CASE Skip
  BY <1>1, SkipStep
<1>2. CASE Fold
  BY <1>2, FoldStep
<1>3. CASE UNCHANGED vars
  BY <1>3 DEF vars, LoopInv, Given, LoopAt, Swept, Heir
<1> QED
  BY <1>1, <1>2, <1>3 DEF Next

\* merge_duplicates returns what Merged says.
THEOREM LoopIsMerged == Spec => []LoopMerges
  BY LoopInit, LoopStep, LoopDone, PTL DEF Spec

-----------------------------------------------------------------------------
(* Settings *)

\* The values a file may hold and those the settings page has, the number of
\* PCs and the selected one aside.
ReadBack ==
  [plain : [Settings!Plain -> {"default", "chosen", "bad"}], bitrate : {"default", "chosen", "bad"},
   codec : {"h264", "hevc", "pyrowave", "bad"}, hdr : {0, 1, 2}, decoder : {"default", "chosen"},
   count : Nat, selected : Nat, ports : {"default", "chosen", "zero"}]

\* The console's file is of the old layouts until the save; what was loaded is
\* in range and usable, and the file then is what the save writes of it.
SettingsInv ==
  /\ step \in {"load", "save", "reload", "done"}
  /\ step = "load" => file \in Settings!Files
  /\ step \in {"reload", "done"} => file = Settings!Written(firstLoad)
  /\ step = "done" => again = firstLoad
  /\ firstLoad \in Settings!Settings /\ again \in Settings!Settings
  /\ Settings!Usable(firstLoad)

LEMMA DefaultsUsable == Settings!Defaults \in Settings!Settings /\ Settings!Usable(Settings!Defaults)
<1>1. /\ [p \in Settings!Plain |-> "default"] \in [Settings!Plain -> {"default", "chosen"}]
      /\ 0 \in 0 .. MaxHosts
  BY HostListAssumption
<1> QED
  BY <1>1 DEF Settings!Defaults, Settings!Settings, Settings!Usable

\* What a taken file holds is read with a value for every setting.
LEMMA CopiedTyped ==
  ASSUME NEW f \in Settings!Files, Settings!Taken(f)
  PROVE  Settings!Copied(f) \in ReadBack /\ Settings!Copied(f).count \in 0 .. MaxHosts
<1>1. Settings!Torn \in Settings!Configs
  <2>1. [plain |-> [p \in Settings!Plain |-> "chosen"], bitrate |-> "chosen", codec |-> "h264",
         hdr |-> 0, decoder |-> "chosen", count |-> 0, selected |-> 0, ports |-> "chosen",
         address |-> "chosen"] \in Settings!Configs
    BY DEF Settings!Configs
  <2> QED
    BY <2>1 DEF Settings!Torn
<1>2. /\ f.layout \in Settings!Layouts /\ f.config \in Settings!Configs
      /\ f.config.count <= MaxHosts
  <2>1. f.layout # "none" /\ f.config.count <= MaxHosts
    BY DEF Settings!Taken
  <2>2. f # Settings!NoFile
    BY <2>1 DEF Settings!NoFile
  <2>3. CASE f \in [layout : Settings!Layouts, sound : {TRUE}, config : Settings!Configs]
    BY <2>1, <2>3
  <2>4. CASE f \in [layout : Settings!Layouts, sound : {FALSE}, config : {Settings!Torn}]
    BY <2>1, <2>4, <1>1
  <2> QED
    BY <2>2, <2>3, <2>4 DEF Settings!Files
<1>3. /\ f.config.plain \in [Settings!Plain -> {"chosen", "bad"}]
      /\ f.config.bitrate \in {"chosen", "bad"}
      /\ f.config.codec \in {"h264", "pyrowave", "bad"} /\ f.config.hdr \in {0, 1, 2}
      /\ f.config.decoder = "chosen" /\ f.config.count \in Nat /\ f.config.selected \in Nat
      /\ f.config.ports \in {"chosen", "zero"} /\ f.config.address \in {"chosen", "zero"}
  BY <1>2, HostListAssumption DEF Settings!Configs
<1>4. [p \in Settings!Plain |->
         IF Settings!Carries(f.layout, p) THEN f.config.plain[p] ELSE "default"]
        \in [Settings!Plain -> {"default", "chosen", "bad"}]
  BY <1>3
<1> QED
  BY <1>2, <1>3, <1>4, HostListAssumption DEF Settings!Copied, ReadBack

\* The values are put in range, HDR gets a codec that has it.
LEMMA SettledUsable ==
  ASSUME NEW c \in ReadBack, c.count \in 0 .. MaxHosts
  PROVE  LET s == Settings!HdrCodec(Settings!Settled(c))
         IN  s \in Settings!Settings /\ Settings!Usable(s)
<1> DEFINE plain == [p \in Settings!Plain |-> IF c.plain[p] = "bad" THEN "default" ELSE c.plain[p]]
           t == Settings!Settled(c)
<1>1. plain \in [Settings!Plain -> {"default", "chosen"}]
  BY DEF ReadBack
<1>2. /\ Settings!Selected(c) \in 0 .. MaxHosts
      /\ IF c.count = 0 THEN Settings!Selected(c) = 0 ELSE Settings!Selected(c) < c.count
  BY HostListAssumption DEF Settings!Selected, ReadBack
<1> HIDE DEF plain
<1>3. t = [plain |-> plain, bitrate |-> t.bitrate, codec |-> t.codec, hdr |-> t.hdr,
           decoder |-> "default", count |-> c.count, selected |-> Settings!Selected(c),
           ports |-> t.ports]
  BY DEF Settings!Settled, plain
<1>4. /\ t.bitrate \in {"default", "chosen"} /\ t.codec \in {"h264", "hevc", "pyrowave"}
      /\ t.hdr \in {0, 1} /\ t.ports \in {"default", "chosen"}
  BY DEF Settings!Settled, ReadBack
<1> HIDE DEF t
<1>5. CASE t.hdr = 1 /\ t.codec = "h264"
  <2>1. Settings!HdrCodec(t) = [t EXCEPT !.codec = "hevc"]
    BY <1>5 DEF Settings!HdrCodec
  <2>2. Settings!HdrCodec(t) =
          [plain |-> plain, bitrate |-> t.bitrate, codec |-> "hevc", hdr |-> t.hdr,
           decoder |-> "default", count |-> c.count, selected |-> Settings!Selected(c),
           ports |-> t.ports]
    BY <2>1, <1>3
  <2> QED
    BY <2>2, <1>1, <1>2, <1>4 DEF Settings!Settings, Settings!Usable, t
<1>6. CASE ~(t.hdr = 1 /\ t.codec = "h264")
  <2>1. Settings!HdrCodec(t) = t
    BY <1>6 DEF Settings!HdrCodec
  <2>2. t \in Settings!Settings
    BY <1>1, <1>2, <1>3, <1>4 DEF Settings!Settings
  <2>3. Settings!Usable(t)
    BY <1>2, <1>3, <1>6 DEF Settings!Usable
  <2> QED
    BY <2>1, <2>2, <2>3 DEF t
<1> QED
  BY <1>5, <1>6

LEMMA LoadedUsable ==
  ASSUME NEW f \in Settings!Files
  PROVE  Settings!Loaded(f) \in Settings!Settings /\ Settings!Usable(Settings!Loaded(f))
BY DefaultsUsable, CopiedTyped, SettledUsable DEF Settings!Loaded

\* What a save writes is loaded as it was saved.
LEMMA WrittenIsLoaded ==
  ASSUME NEW c \in Settings!Settings, Settings!Usable(c)
  PROVE  Settings!Loaded(Settings!Written(c)) = c
<1> DEFINE f == Settings!Written(c)
<1>1. Settings!Taken(f)
  BY HostListAssumption DEF Settings!Taken, Settings!Written, Settings!Settings
<1>2. [p \in Settings!Plain |->
         IF Settings!Carries(f.layout, p) THEN f.config.plain[p] ELSE "default"] = c.plain
  BY DEF Settings!Carries, Settings!Written, Settings!Settings
<1>3. Settings!Copied(f) = c
  BY <1>2 DEF Settings!Copied, Settings!Written, Settings!Settings, Settings!CarriesCodec,
              Settings!CarriesHdr, Settings!CarriesDecoder, Settings!CarriesPorts
<1>4. [p \in Settings!Plain |-> IF c.plain[p] = "bad" THEN "default" ELSE c.plain[p]] = c.plain
  BY DEF Settings!Settings
<1>5. Settings!Selected(c) = c.selected
  BY HostListAssumption DEF Settings!Selected, Settings!Settings, Settings!Usable
<1>6. Settings!Settled(c) = c
  BY <1>4, <1>5 DEF Settings!Settled, Settings!Settings
<1>7. Settings!HdrCodec(c) = c
  BY DEF Settings!HdrCodec, Settings!Usable
<1> QED
  BY <1>1, <1>3, <1>6, <1>7 DEF Settings!Loaded

LEMMA SettingsInvInit == Settings!Init => SettingsInv
BY DefaultsUsable DEF Settings!Init, SettingsInv

LEMMA SettingsInvStep ==
  ASSUME SettingsInv, Settings!Next \/ UNCHANGED settings
  PROVE  SettingsInv'
<1>1. CASE UNCHANGED settings
  BY <1>1 DEF settings, SettingsInv, Settings!Usable, Settings!Written
<1>2. CASE Settings!Load
  BY <1>2, LoadedUsable DEF Settings!Load, SettingsInv
<1>3. CASE Settings!Save
  BY <1>3 DEF Settings!Save, SettingsInv
<1>4. CASE Settings!Reload
  BY <1>4, WrittenIsLoaded DEF Settings!Reload, SettingsInv
<1> QED
  BY <1>1, <1>2, <1>3, <1>4 DEF Settings!Next

LEMMA SettingsInvOK == SettingsInv => Settings!ConfigOK
BY DEF SettingsInv, Settings!ConfigOK, Settings!TypeOK, Settings!MigratesOnce
-----------------------------------------------------------------------------
(* Sockets *)

\* The instance counts as the theorems about finite sets do.
LEMMA CountsAlike ==
  /\ \A S : Calls!Cardinality(S) = Cardinality(S)
  /\ \A S : Calls!IsFiniteSet(S) => IsFiniteSet(S)
<1>1. ASSUME NEW S PROVE Calls!Cardinality(S) = Cardinality(S)
  BY DEF Cardinality, Calls!Cardinality
<1>2. ASSUME NEW S, Calls!IsFiniteSet(S) PROVE IsFiniteSet(S)
  BY <1>2 DEF IsFiniteSet, Calls!IsFiniteSet
<1> QED
  BY <1>1, <1>2

Three == {"read", "write", "error"}
Tellings == SUBSET (Socks \X Calls!Ways)

LEMMA NothingTold == {} \in Tellings
BY DEF Tellings

CallsTyped ==
  /\ call \in {"none", "poll", "select", "resolve"}
  /\ callAt \in {"none", "events", "create", "add", "wait", "told", "pool", "resolver", "name", "info"}
  /\ sets \subseteq Three
  /\ \A set \in Three : asked[set] \subseteq Socks
  /\ added \subseteq Socks /\ ready \in Tellings
  /\ callHeld \subseteq {"descriptors", "events", "epoll", "pool", "resolver"}
  /\ callAnswer.result \in -1 .. Cardinality(Socks)

\* What is held is given back before a call returns; the answer of the last
\* call has sockets only in the sets that were given, of those asked for.
CallsInv ==
  /\ CallsTyped
  /\ call = "none" => callAt = "none"
  /\ callAt \in {"none", "info"} => callHeld = {}
  /\ sets # {} => \A set \in Three \ sets : asked[set] = {}
  /\ \A set \in Three :
       callAnswer[set] = {} \/ (set \in sets /\ callAnswer[set] \subseteq Calls!Used)
  /\ Calls!CountsSets

\* A call that returns.
LEMMA ReturnFits ==
  ASSUME CallsInv, NEW a, Calls!Return(a), callHeld' = {},
         a.result \in -1 .. Cardinality(Socks),
         \A set \in Three : a[set] = {} \/ (set \in sets /\ a[set] \subseteq Calls!Used),
         a.of = "select" => a.result = Cardinality(a.read \cup a.write \cup a.error)
  PROVE  CallsInv'
<1>1. CallsTyped'
  BY NothingTold DEF CallsInv, CallsTyped, Calls!Return
<1>2. \A set \in Three : callAnswer'[set] = {} \/ (set \in sets' /\ callAnswer'[set] \subseteq Calls!Used')
  BY DEF Calls!Return, Calls!Used
<1>3. Calls!CountsSets'
  BY CountsAlike DEF Calls!Return, Calls!CountsSets
<1> QED
  BY <1>1, <1>2, <1>3 DEF CallsInv, Calls!Return

LEMMA NoAnswerFits ==
  /\ Calls!NoAnswer.of # "select" /\ Calls!Failure.of # "select"
  /\ \A set \in Three : Calls!NoAnswer[set] = {} /\ Calls!Failure[set] = {}
  /\ Calls!NoAnswer.result = 0 /\ Calls!Failure.result = -1
BY DEF Calls!NoAnswer, Calls!Failure, Three

LEMMA SocksCounted ==
  /\ Cardinality(Socks) \in Nat
  /\ \A S \in SUBSET Socks : Cardinality(S) \in 0 .. Cardinality(Socks)
<1>1. IsFiniteSet(Socks)
  BY CallsAssumption, CountsAlike DEF Calls!SocketsAssumption
<1>2. ASSUME NEW S \in SUBSET Socks PROVE Cardinality(S) \in 0 .. Cardinality(Socks)
  <2>1. IsFiniteSet(S) /\ Cardinality(S) <= Cardinality(Socks)
    BY <1>1, FS_Subset
  <2> QED
    BY <1>1, <2>1, FS_CardinalityType
<1> QED
  BY <1>1, <1>2, FS_CardinalityType

LEMMA ReportedFits == ASSUME CallsInv, Calls!Report PROVE CallsInv'
<1> DEFINE a == Calls!With(Calls!Counted)
           tellers == {t[1] : t \in ready}
<1>1. Calls!Used \subseteq Socks
  BY DEF CallsInv, CallsTyped, Calls!Used, Three
<1>2. /\ \A s \in Calls!Reported.read : s \in Calls!Used /\ "read" \in sets
      /\ \A s \in Calls!Reported.write : s \in Calls!Used /\ "write" \in sets
      /\ \A s \in Calls!Reported.error : s \in Calls!Used /\ "error" \in sets
  BY DEF Calls!Reported, Calls!Set
<1>3. a = [of |-> call, result |-> Calls!Counted, read |-> Calls!Reported.read,
           write |-> Calls!Reported.write, error |-> Calls!Reported.error]
  BY DEF Calls!With
<1>4. tellers \subseteq Socks
  BY DEF CallsInv, CallsTyped, Tellings
<1>5. Calls!Counted \in 0 .. Cardinality(Socks)
  <2>1. Calls!Reported.read \cup Calls!Reported.write \cup Calls!Reported.error \in SUBSET Socks
    BY <1>1, <1>2
  <2>2. Cardinality(Calls!Reported.read \cup Calls!Reported.write \cup Calls!Reported.error)
          \in 0 .. Cardinality(Socks)
    BY <2>1, SocksCounted
  <2>3. Cardinality(tellers) \in 0 .. Cardinality(Socks)
    BY <1>4, SocksCounted
  <2> QED
    BY <2>2, <2>3, CountsAlike DEF Calls!Counted
<1>6. \A set \in Three : a[set] = {} \/ (set \in sets /\ a[set] \subseteq Calls!Used)
  <2>1. /\ a["read"] = Calls!Reported.read /\ a["write"] = Calls!Reported.write
        /\ a["error"] = Calls!Reported.error
    BY <1>3
  <2> QED
    BY <1>2, <2>1 DEF Three
<1>7. a.of = "select" => a.result = Cardinality(a.read \cup a.write \cup a.error)
  <2>1. a.of = call /\ a.result = Calls!Counted /\ a.read = Calls!Reported.read
        /\ a.write = Calls!Reported.write /\ a.error = Calls!Reported.error
    BY <1>3
  <2>2. call = "select" => Calls!Counted = Cardinality(
          Calls!Reported.read \cup Calls!Reported.write \cup Calls!Reported.error)
    BY CountsAlike DEF Calls!Counted
  <2> HIDE DEF a
  <2> QED
    BY <2>1, <2>2
<1>8. a.result \in -1 .. Cardinality(Socks)
  BY <1>3, <1>5, SocksCounted
<1>9. Calls!Return(a) /\ callHeld' = {}
  BY DEF Calls!Report
<1> HIDE DEF a
<1> QED
  BY <1>6, <1>7, <1>8, <1>9, ReturnFits

LEMMA CallsInvStep == ASSUME CallsInv, Calls!Next \/ UNCHANGED calls PROVE CallsInv'
<1>1. CASE UNCHANGED calls
  BY <1>1 DEF calls, CallsInv, CallsTyped, Calls!CountsSets, Calls!Used
<1>2. CASE Calls!Select \/ Calls!Poll \/ Calls!Resolve
  <2>1. callAnswer' = Calls!NoAnswer
    BY <1>2 DEF Calls!Select, Calls!Poll, Calls!Resolve
  <2>2. Calls!CountsSets'
    BY <2>1, NoAnswerFits DEF Calls!CountsSets
  <2>3. \A set \in Three : callAnswer'[set] = {}
    BY <2>1, NoAnswerFits
  <2>4. callAnswer'.result \in -1 .. Cardinality(Socks)
    BY <2>1, NoAnswerFits, SocksCounted
  <2>5. CASE Calls!Select
    BY NothingTold, <2>2, <2>3, <2>4, <2>5 DEF Calls!Select, CallsInv, CallsTyped, Three
  <2>6. CASE Calls!Poll
    <3>1. PICK r \in SUBSET Socks, w \in SUBSET Socks : asked' = [read |-> r, write |-> w, error |-> {}]
      BY <2>6 DEF Calls!Poll
    <3>2. \A set \in Three : asked'[set] \subseteq Socks
      BY <3>1 DEF Three
    <3> QED
      BY NothingTold, <2>2, <2>3, <2>4, <2>6, <3>2 DEF Calls!Poll, CallsInv, CallsTyped, Three
  <2>7. CASE Calls!Resolve
    <3>1. \A set \in Three : asked'[set] \subseteq Socks
      BY <2>7 DEF Calls!Resolve, Calls!Nobody, Three
    <3> QED
      BY NothingTold, <2>2, <2>3, <2>4, <2>7, <3>1 DEF Calls!Resolve, CallsInv, CallsTyped, Three
  <2> QED
    BY <1>2, <2>5, <2>6, <2>7
<1>3. ASSUME NEW a, Calls!Return(a), callHeld' = {}, a = Calls!NoAnswer \/ a = Calls!Failure
      PROVE  CallsInv'
  <2>1. a.of # "select" /\ \A set \in Three : a[set] = {}
    BY <1>3, NoAnswerFits
  <2>2. a.result \in -1 .. Cardinality(Socks)
    BY <1>3, NoAnswerFits, SocksCounted
  <2> QED
    BY <1>3, <2>1, <2>2, ReturnFits
<1>4. ASSUME NEW to, Calls!Go(to), to \in {"create", "add", "wait", "told", "resolver", "name"},
             added' \subseteq Socks, ready' \in Tellings,
             callHeld' \subseteq {"descriptors", "events", "epoll", "pool", "resolver"},
             callAt # "none"
      PROVE  CallsInv'
  BY <1>4 DEF Calls!Go, CallsInv, CallsTyped, Calls!CountsSets, Calls!Used
<1>5. CASE Calls!Events
  BY <1>3, <1>4, <1>5 DEF Calls!Events, CallsInv, CallsTyped
<1>6. CASE Calls!Create
  BY <1>3, <1>4, <1>6 DEF Calls!Create, CallsInv, CallsTyped
<1>7. CASE Calls!Add
  <2>1. Calls!Used \subseteq Socks
    BY DEF CallsInv, CallsTyped, Calls!Used, Three
  <2> QED
    BY <1>3, <1>4, <1>7, <2>1 DEF Calls!Add, CallsInv, CallsTyped
<1>8. CASE Calls!Wait
  <2>1. SUBSET (added \X Calls!Ways) \subseteq Tellings
    <3>1. added \subseteq Socks
      BY DEF CallsInv, CallsTyped
    <3>2. added \X Calls!Ways \subseteq Socks \X Calls!Ways
      BY <3>1
    <3> QED
      BY <3>2 DEF Tellings
  <2> QED
    BY <1>3, <1>4, <1>8, <2>1 DEF Calls!Wait, CallsInv, CallsTyped
<1>9. CASE Calls!Report
  BY <1>9, ReportedFits
<1>10. CASE Calls!Pool
  BY <1>3, <1>4, <1>10 DEF Calls!Pool, CallsInv, CallsTyped
<1>11. CASE Calls!Resolver
  BY <1>3, <1>4, <1>11 DEF Calls!Resolver, CallsInv, CallsTyped
<1>12. CASE Calls!Name
  <2>1. CASE Calls!Go("info") /\ UNCHANGED <<added, ready>>
    BY <1>12, <2>1 DEF Calls!Name, Calls!Go, CallsInv, CallsTyped, Calls!CountsSets, Calls!Used
  <2>2. CASE Calls!Return(Calls!Failure)
    BY <1>3, <1>12, <2>2 DEF Calls!Name
  <2> QED
    BY <1>12, <2>1, <2>2 DEF Calls!Name
<1>13. CASE Calls!Info
  BY <1>3, <1>13 DEF Calls!Info, CallsInv
<1> QED
  BY <1>1, <1>2, <1>5, <1>6, <1>7, <1>8, <1>9, <1>10, <1>11, <1>12, <1>13 DEF Calls!Next

LEMMA CallsInvInit == Calls!Init => CallsInv
BY NothingTold, NoAnswerFits, SocksCounted
   DEF Calls!Init, CallsInv, CallsTyped, Three, Calls!Nobody, Calls!CountsSets

LEMMA CallsInvOK == CallsInv => Calls!SocketsOK
<1> SUFFICES ASSUME CallsInv PROVE Calls!SocketsOK
  OBVIOUS
<1>1. Calls!TypeOK /\ Calls!KeepsNothing
  BY CountsAlike DEF CallsInv, CallsTyped, Tellings, Calls!TypeOK, Calls!KeepsNothing
<1>2. ASSUME Cardinality(sets) = 1, NEW set \in sets PROVE callAnswer[set] \subseteq asked[set]
  <2>1. IsFiniteSet(sets)
    <3>1. IsFiniteSet({} \cup {"read"} \cup {"write"} \cup {"error"})
      BY FS_EmptySet, FS_AddElement
    <3>2. sets \in SUBSET ({} \cup {"read"} \cup {"write"} \cup {"error"})
      BY DEF CallsInv, CallsTyped, Three
    <3> QED
      BY <3>1, <3>2, FS_Subset
  <2>2. \A other \in sets : other = set
    BY <1>2, <2>1, FS_Singleton
  <2>3. set \in Three /\ \A other \in Three \ {set} : asked[other] = {}
    BY <2>2 DEF CallsInv, CallsTyped
  <2>4. Calls!Used = asked[set]
    BY <2>3 DEF Calls!Used, Three
  <2>5. callAnswer[set] = {} \/ callAnswer[set] \subseteq Calls!Used
    BY <2>3 DEF CallsInv
  <2> QED
    BY <2>4, <2>5
<1>3. Calls!OneSetNamesAsked
  BY <1>2, CountsAlike DEF Calls!OneSetNamesAsked
<1> QED
  BY <1>1, <1>3 DEF CallsInv, Calls!SocketsOK

-----------------------------------------------------------------------------
(* Discovery *)

Entries == [address : Addresses, port : Ports \cup {0}]

\* While a reply's services are entered, those of its ports that are not listed
\* yet are still to be entered.
Pending(h) ==
  /\ stage = "services" /\ h.address = source
  /\ \E i \in DOMAIN services : services[i].port = h.port

IsListed(h) == \E i \in DOMAIN found : found[i] = h

\* The ports that are still to be entered were heard of too.
ServicesHeard ==
  stage = "services" =>
    \A k \in DOMAIN services :
      services[k].port # 0 => [address |-> source, port |-> services[k].port] \in heard

SearchInv ==
  /\ Search!TypeOK /\ Search!NoTwins /\ Search!PortsTheirOwn /\ ServicesHeard
  /\ Len(found) < MaxHosts => \A h \in heard : IsListed(h) \/ Pending(h)
  /\ \A i \in DOMAIN found : found[i].port = 0 =>
       \A h \in heard : h.address = found[i].address => Pending(h)
  /\ stage \in {"socket", "over"} => searchHeld = {}

\* add_host: the entries of the address, those of them that are the service,
\* and the ones that are given its port.
OfAddress(address, old) == {i \in DOMAIN old : old[i].address = address}
TheService(address, old, service) ==
  {i \in OfAddress(address, old) : service.port = 0 \/ old[i].port \in {0, service.port}}
TakesPort(address, old, service, i) ==
  /\ i \in OfAddress(address, old) /\ old[i].port = 0
  /\ \A j \in TheService(address, old, service) : i <= j

LEMMA EntriesFacts ==
  ASSUME NEW old \in Seq(Entries)
  PROVE  /\ DOMAIN old = 1 .. Len(old) /\ Len(old) \in Nat
         /\ \A i \in DOMAIN old : old[i] \in Entries
         /\ \A i \in DOMAIN old : old[i].address \in Addresses /\ old[i].port \in Ports \cup {0}
<1>1. DOMAIN old = 1 .. Len(old) /\ Len(old) \in Nat
  OBVIOUS
<1>2. \A i \in DOMAIN old : old[i] \in Entries
  OBVIOUS
<1>3. \A e \in Entries : e.address \in Addresses /\ e.port \in Ports \cup {0}
  BY DEF Entries
<1> QED
  BY <1>1, <1>2, <1>3

\* It keeps the list's entries but for their ports, or makes one more.
LEMMA AddShape ==
  ASSUME NEW address \in Addresses, NEW old \in Seq(Entries),
         NEW service \in [instance : Instances, port : Ports \cup {0}],
         NEW after, after = Search!Add(address, old, service)
  PROVE  /\ after \in Seq(Entries)
         /\ Len(after) = Len(old) + (IF TheService(address, old, service) # {} \/ Len(old) = MaxHosts
                                      THEN 0 ELSE 1)
         /\ \A i \in DOMAIN old :
              /\ after[i].address = old[i].address
              /\ after[i].port = (IF TakesPort(address, old, service, i)
                                 THEN service.port ELSE old[i].port)
         /\ Len(after) = Len(old) + 1 =>
              after[Len(after)] = [address |-> address, port |-> service.port]
<1> DEFINE same == TheService(address, old, service)
           noted == [i \in DOMAIN old |->
                      [address |-> old[i].address,
                       port |-> IF TakesPort(address, old, service, i)
                                THEN service.port ELSE old[i].port]]
           new == [address |-> address, port |-> service.port]
<1>1. after = IF same # {} \/ Len(old) = MaxHosts THEN noted ELSE Append(noted, new)
  BY DEF Search!Add, Search!Entry, OfAddress, TheService, TakesPort
<1>2. new \in Entries
  BY DEF Entries
<1>3. noted \in Seq(Entries) /\ Len(noted) = Len(old)
  <2>1. service.port \in Ports \cup {0}
    OBVIOUS
  <2>2. \A i \in 1 .. Len(old) : noted[i] \in Entries
    BY <2>1, EntriesFacts DEF Entries
  <2>3. noted \in [1 .. Len(old) -> Entries]
    BY <2>2, EntriesFacts
  <2> QED
    BY <2>3, EntriesFacts
<1>4. \A i \in DOMAIN old :
        /\ noted[i].address = old[i].address
        /\ noted[i].port = IF TakesPort(address, old, service, i) THEN service.port ELSE old[i].port
  OBVIOUS
<1> HIDE DEF noted, same
<1>5. CASE same # {} \/ Len(old) = MaxHosts
  <2>1. after = noted
    BY <1>1, <1>5
  <2> QED
    BY <2>1, <1>3, <1>4, <1>5, EntriesFacts DEF same
<1>6. CASE ~(same # {} \/ Len(old) = MaxHosts)
  <2> HIDE DEF new
  <2>1. after = Append(noted, new)
    BY <1>1, <1>6
  <2>2. /\ after \in Seq(Entries) /\ Len(after) = Len(old) + 1
        /\ \A i \in DOMAIN old : after[i] = noted[i]
        /\ after[Len(after)] = new
    BY <2>1, <1>2, <1>3
  <2> QED
    BY <2>2, <1>4, <1>6 DEF same, new
<1> QED
  BY <1>5, <1>6

\* The reply's services stay typed as its records are read.
LEMMA NotedTyped ==
  ASSUME NEW old \in Seq([instance : Instances, port : Ports \cup {0}]), Len(old) <= MaxServices,
         NEW record \in Search!Records
  PROVE  /\ Search!Noted(old, record) \in Seq([instance : Instances, port : Ports \cup {0}])
         /\ Len(Search!Noted(old, record)) <= MaxServices
<1> DEFINE Service == [instance : Instances, port : Ports \cup {0}]
           fresh == [instance |-> record.instance, port |-> record.port]
           known == \E i \in DOMAIN old : old[i].instance = record.instance
           written == [i \in DOMAIN old |->
                         IF old[i].instance = record.instance /\ record.type = "SRV"
                         THEN fresh ELSE old[i]]
<1>1. fresh \in Service
  BY DEF Search!Records
<1>2. Search!Noted(old, record) =
        IF known THEN written ELSE IF Len(old) < MaxServices THEN Append(old, fresh) ELSE old
  BY DEF Search!Noted
<1>3. old \in Seq(Service) /\ MaxServices \in Nat
  BY SearchAssumption DEF Search!DiscoveryAssumption
<1> HIDE DEF Service, fresh, known
<1>4. written \in Seq(Service) /\ Len(written) = Len(old)
  <2>1. /\ \A i \in 1 .. Len(old) : old[i] \in Service
        /\ DOMAIN old = 1 .. Len(old) /\ Len(old) \in Nat
    BY <1>3
  <2>2. written \in [1 .. Len(old) -> Service]
    BY <1>1, <2>1
  <2> QED
    BY <2>1, <2>2
<1> HIDE DEF written
<1>5. Len(old) < MaxServices =>
        Append(old, fresh) \in Seq(Service) /\ Len(Append(old, fresh)) <= MaxServices
  BY <1>1, <1>3
<1>6. Search!Noted(old, record) \in Seq(Service) /\ Len(Search!Noted(old, record)) <= MaxServices
  BY <1>2, <1>3, <1>4, <1>5
<1> QED
  BY <1>6 DEF Service

\* What is typed of the search, for its steps.
LEMMA SearchTyped ==
  ASSUME SearchInv
  PROVE  /\ found \in Seq(Entries) /\ Len(found) <= MaxHosts /\ Len(found) \in Nat
         /\ DOMAIN found = 1 .. Len(found) /\ MaxHosts \in Nat
         /\ \A i \in DOMAIN found : found[i] \in Entries
         /\ heard \subseteq [address : Addresses, port : Ports] /\ 0 \notin Ports
         /\ source \in Addresses
         /\ services \in Seq([instance : Instances, port : Ports \cup {0}])
         /\ Len(services) <= MaxServices
<1>1. /\ found \in Seq(Entries) /\ Len(found) <= MaxHosts
      /\ heard \subseteq [address : Addresses, port : Ports] /\ source \in Addresses
      /\ services \in Seq([instance : Instances, port : Ports \cup {0}])
      /\ Len(services) <= MaxServices
  BY DEF SearchInv, Search!TypeOK, Entries
<1> QED
  BY <1>1, EntriesFacts, HostListAssumption

LEMMA EnterFits == ASSUME SearchInv, Search!Enter PROVE SearchInv'
<1> DEFINE service == Head(services)
           Service == [instance : Instances, port : Ports \cup {0}]
           ours == OfAddress(source, found)
           same == TheService(source, found, service)
           passed(i) == TakesPort(source, found, service, i)
<1>1. /\ stage = "services" /\ services # <<>>
      /\ found' = Search!Add(source, found, service) /\ services' = Tail(services)
      /\ stage' = stage /\ searchHeld' = searchHeld /\ source' = source /\ heard' = heard
  BY DEF Search!Enter
<1>2. /\ service \in Service /\ service = services[1] /\ services' \in Seq(Service)
      /\ Len(services') = Len(services) - 1
      /\ \A k \in DOMAIN services : k # 1 => k - 1 \in DOMAIN services' /\ services'[k - 1] = services[k]
  <2>1. services \in Seq(Service)
    BY SearchTyped
  <2> HIDE DEF Service
  <2> QED
    BY <1>1, <2>1
<1>3. /\ found' \in Seq(Entries)
      /\ Len(found') = Len(found) + (IF same # {} \/ Len(found) = MaxHosts THEN 0 ELSE 1)
      /\ \A i \in DOMAIN found :
           /\ found'[i].address = found[i].address
           /\ found'[i].port = (IF passed(i) THEN service.port ELSE found[i].port)
      /\ Len(found') = Len(found) + 1 =>
           found'[Len(found')] = [address |-> source, port |-> service.port]
  <2>1. source \in Addresses /\ found \in Seq(Entries)
    BY SearchTyped
  <2> HIDE DEF service
  <2> QED
    BY <1>1, <1>2, <2>1, AddShape
<1>4. /\ DOMAIN found = 1 .. Len(found) /\ DOMAIN found' = 1 .. Len(found')
      /\ Len(found) \in Nat /\ Len(found') \in Nat /\ MaxHosts \in Nat /\ Len(found) <= MaxHosts
      /\ \A i \in DOMAIN found' : found'[i] \in Entries
  BY <1>3, SearchTyped, EntriesFacts
<1>a. /\ ours = {i \in DOMAIN found : found[i].address = source}
      /\ same = {i \in ours : service.port = 0 \/ found[i].port \in {0, service.port}}
      /\ \A i : passed(i) <=> i \in ours /\ found[i].port = 0 /\ \A j \in same : i <= j
  BY DEF OfAddress, TheService, TakesPort
<1> HIDE DEF service, ours, same, passed
<1>b. /\ Len(found') = Len(found) \/ (Len(found') = Len(found) + 1 /\ same = {} /\ Len(found) < MaxHosts)
      /\ Len(found') <= MaxHosts
  <2> DEFINE n == Len(found)
             m == Len(found')
  <2>1. n \in Nat /\ m \in Nat /\ MaxHosts \in Nat /\ n <= MaxHosts
    BY <1>4
  <2>2. m = n + (IF same # {} \/ n = MaxHosts THEN 0 ELSE 1)
    BY <1>3
  <2> HIDE DEF n, m
  <2>3. (m = n \/ (m = n + 1 /\ same = {} /\ n < MaxHosts)) /\ m <= MaxHosts
    BY <2>1, <2>2
  <2> QED
    BY <2>3 DEF n, m
<1>c. /\ \/ DOMAIN found' = DOMAIN found
         \/ DOMAIN found' = DOMAIN found \cup {Len(found')} /\ Len(found') = Len(found) + 1
      /\ Len(found') = Len(found) + 1 => Len(found') \in DOMAIN found'
      /\ Len(found') < MaxHosts => Len(found) < MaxHosts /\ Len(found) # MaxHosts
  <2> DEFINE n == Len(found)
             m == Len(found')
  <2>1. n \in Nat /\ (m = n \/ m = n + 1) /\ MaxHosts \in Nat
    BY <1>4, <1>b
  <2> HIDE DEF n, m
  <2>2. /\ 1 .. m = 1 .. n \/ (1 .. m = (1 .. n) \cup {m} /\ m = n + 1)
        /\ m = n + 1 => m \in 1 .. m
        /\ m < MaxHosts => n < MaxHosts /\ n # MaxHosts
    BY <2>1
  <2> QED
    BY <1>4, <2>2 DEF n, m
<1>5. \A i \in DOMAIN found' : i \in DOMAIN found \/ (i = Len(found') /\ Len(found') = Len(found) + 1)
  BY <1>c
<1>6. \A i \in DOMAIN found : i \in DOMAIN found'
  BY <1>c
<1>7. Len(found') = Len(found) + 1 => same = {} /\ Len(found) < MaxHosts
  <2> DEFINE n == Len(found)
  <2>1. n \in Nat
    BY <1>4
  <2> HIDE DEF n
  <2>2. n + 1 # n
    BY <2>1
  <2> QED
    BY <1>b, <2>2 DEF n
<1>8. Search!TypeOK'
  <2>1. found' \in Seq([address : Addresses, port : Ports \cup {0}])
    BY <1>3 DEF Entries
  <2>2. Len(services') <= MaxServices
    <3>1. Len(services) \in Nat /\ MaxServices \in Nat /\ Len(services) <= MaxServices
      BY SearchTyped, SearchAssumption DEF Search!DiscoveryAssumption
    <3> DEFINE n == Len(services)
               m == Len(services')
    <3>2. m = n - 1
      BY <1>2
    <3> HIDE DEF n, m
    <3>3. n \in Nat /\ n <= MaxServices
      BY <3>1 DEF n
    <3>4. m <= MaxServices
      BY <3>1, <3>2, <3>3
    <3> QED
      BY <3>4 DEF m
  <2> QED
    BY <1>1, <1>2, <1>b, <2>1, <2>2 DEF SearchInv, Search!TypeOK
<1>9. Search!NoTwins'
  <2> SUFFICES ASSUME NEW i \in DOMAIN found', NEW j \in DOMAIN found', i # j,
                      found'[i].address = found'[j].address
               PROVE  found'[i].port # found'[j].port /\ found'[i].port # 0
    BY DEF Search!NoTwins
  <2>1. CASE i \in DOMAIN found /\ j \in DOMAIN found
    <3>1. found[i].address = found[j].address
      BY <1>a, <1>3, <2>1
    <3>2. found[i].port # found[j].port /\ found[i].port # 0 /\ found[j].port # 0
      BY <2>1, <3>1 DEF SearchInv, Search!NoTwins
    <3> QED
      BY <1>a, <1>3, <2>1, <3>2 
  <2>2. ASSUME NEW k \in DOMAIN found, NEW n \in DOMAIN found', n \notin DOMAIN found,
               found'[k].address = found'[n].address
        PROVE  found'[k].port # found'[n].port /\ found'[k].port # 0 /\ found'[n].port # 0
    <3>1. same = {} /\ found'[n] = [address |-> source, port |-> service.port]
      BY <1>a, <1>3, <1>5, <1>7, <2>2
    <3>2. k \in ours
      BY <1>a, <1>3, <2>2, <3>1
    <3>3. service.port # 0 /\ found[k].port # 0 /\ found[k].port # service.port
      BY <1>a, <3>1, <3>2
    <3> QED
      BY <1>a, <1>3, <3>1, <3>3 
  <2>3. i \in DOMAIN found \/ j \in DOMAIN found
    BY <1>5
  <2> QED
    BY <2>1, <2>2, <2>3
<1>10. ASSUME NEW h \in heard, Len(found') < MaxHosts PROVE IsListed(h)' \/ Pending(h)'
  <2>1. Len(found) < MaxHosts /\ Len(found) # MaxHosts
    BY <1>c, <1>10
  <2>2. h.port # 0 /\ h = [address |-> h.address, port |-> h.port]
    BY SearchTyped
  <2>3. ASSUME NEW i \in DOMAIN found', found'[i].address = h.address, found'[i].port = h.port
        PROVE  IsListed(h)'
    BY <1>4, <2>2, <2>3 DEF IsListed, Entries
  <2>4. CASE IsListed(h)
    BY <1>a, <1>3, <1>6, <2>2, <2>3, <2>4 DEF IsListed
  <2>5. CASE Pending(h)
    <3>1. PICK k \in DOMAIN services : services[k].port = h.port
      BY <2>5 DEF Pending
    <3>2. CASE k # 1
      BY <1>1, <1>2, <2>5, <3>1, <3>2 DEF Pending
    <3>3. CASE k = 1
      <4>1. service.port = h.port /\ h.address = source
        BY <1>2, <2>5, <3>1, <3>3 DEF Pending
      <4>2. CASE same = {}
        <5>1. Len(found') = Len(found) + 1
          BY <1>3, <2>1, <4>2
        <5>2. Len(found') \in DOMAIN found'
          BY <1>c, <5>1
        <5> QED
          BY <1>3, <2>3, <4>1, <5>1, <5>2
      <4>3. CASE same # {}
        <5>1. PICK m \in same : \A j \in same : m <= j
          <6>1. same \subseteq Nat
            BY <1>4, <1>a
          <6> QED
            BY <4>3, <6>1, LeastElement
        <5>2. found'[m].port = service.port
          BY <1>a, <1>3, <2>2, <4>1, <5>1 
        <5> QED
          BY <1>a, <1>3, <1>6, <2>3, <4>1, <5>1, <5>2
      <4> QED
        BY <4>2, <4>3
    <3> QED
      BY <3>2, <3>3
  <2> QED
    BY <2>1, <2>4, <2>5 DEF SearchInv
<1>11. ASSUME NEW i \in DOMAIN found', found'[i].port = 0, NEW h \in heard,
              h.address = found'[i].address
       PROVE  Pending(h)'
  <2>1. h.port # 0
    BY SearchTyped
  <2>2. ASSUME Pending(h), service.port # h.port PROVE Pending(h)'
    <3>1. PICK k \in DOMAIN services : services[k].port = h.port
      BY <2>2 DEF Pending
    <3>2. k # 1
      BY <1>2, <2>2, <3>1
    <3> QED
      BY <1>1, <1>2, <2>2, <3>1, <3>2 DEF Pending
  <2>3. CASE i \in DOMAIN found
    <3>1. found[i].port = 0 /\ found[i].address = h.address
      <4>1. passed(i) => found[i].port = 0
        BY <1>a
      <4> QED
        BY <1>a, <1>3, <1>11, <2>3, <4>1
    <3>2. Pending(h)
      BY <2>3, <3>1 DEF SearchInv
    <3>3. i \in ours
      BY <1>a, <2>3, <3>1, <3>2 DEF Pending
    <3>4. \A j \in same : j = i
      <4>1. ASSUME NEW j \in ours, j # i PROVE FALSE
        BY <1>a, <2>3, <3>1, <3>3, <4>1 DEF SearchInv, Search!NoTwins
      <4> QED
        BY <1>a, <4>1
    <3>5. passed(i)
      BY <1>a, <1>4, <2>3, <3>1, <3>3, <3>4 
    <3> QED
      BY <1>a, <1>3, <1>11, <2>1, <2>2, <2>3, <3>2, <3>5
  <2>4. CASE i \notin DOMAIN found
    <3>1. /\ same = {} /\ Len(found) < MaxHosts /\ service.port = 0 /\ h.address = source
      BY <1>a, <1>3, <1>5, <1>7, <1>11, <2>4
    <3>2. ~IsListed(h)
      BY <1>a, <3>1 DEF IsListed
    <3> QED
      BY <2>1, <2>2, <3>1, <3>2 DEF SearchInv
  <2> QED
    BY <2>3, <2>4
<1>12. ServicesHeard /\ Search!PortsTheirOwn
  BY DEF SearchInv
<1>13. service.port # 0 => [address |-> source, port |-> service.port] \in heard
  <2>1. 1 \in DOMAIN services
    <3>1. services \in Seq([instance : Instances, port : Ports \cup {0}])
      BY SearchTyped
    <3> QED
      BY <1>1, <3>1
  <2> QED
    BY <1>1, <1>2, <1>12, <2>1 DEF ServicesHeard
<1>14. Search!PortsTheirOwn'
  <2> SUFFICES ASSUME NEW i \in DOMAIN found', found'[i].port # 0 PROVE found'[i] \in heard
    BY <1>1 DEF Search!PortsTheirOwn
  <2>1. ASSUME found'[i].address = source, found'[i].port = service.port PROVE found'[i] \in heard
    <3>1. found'[i] = [address |-> source, port |-> service.port]
      BY <1>4, <2>1 DEF Entries
    <3> QED
      BY <1>13, <2>1, <3>1
  <2>2. ASSUME i \in DOMAIN found, ~passed(i) PROVE found'[i] \in heard
    <3>1. found'[i].address = found[i].address /\ found'[i].port = found[i].port
      BY <1>3, <2>2
    <3>2. found[i] \in Entries /\ found'[i] \in Entries
      BY <1>4, <2>2, SearchTyped
    <3>3. found'[i] = found[i]
      BY <3>1, <3>2 DEF Entries
    <3>4. found[i] \in heard
      BY <1>12, <2>2, <3>1 DEF Search!PortsTheirOwn
    <3> QED
      BY <3>3, <3>4
  <2>3. CASE i \in DOMAIN found /\ passed(i)
    <3>1. found'[i].address = source /\ found'[i].port = service.port
      BY <1>3, <1>a, <2>3
    <3> QED
      BY <2>1, <3>1
  <2>4. CASE i \notin DOMAIN found
    <3>1. found'[i] = [address |-> source, port |-> service.port]
      BY <1>3, <1>5, <2>4
    <3> QED
      BY <2>1, <3>1
  <2> QED
    BY <2>2, <2>3, <2>4
<1>15. ServicesHeard'
  <2> SUFFICES ASSUME NEW k \in DOMAIN services', services'[k].port # 0
               PROVE  [address |-> source, port |-> services'[k].port] \in heard
    BY <1>1 DEF ServicesHeard
  <2>1. k + 1 \in DOMAIN services /\ services'[k] = services[k + 1]
    <3>1. services \in Seq(Service) /\ services # <<>> /\ services' = Tail(services)
      BY <1>1, SearchTyped
    <3> HIDE DEF Service
    <3> QED
      BY <3>1
  <2> QED
    BY <1>1, <1>12, <2>1 DEF ServicesHeard
<1> QED
  BY <1>1, <1>8, <1>9, <1>10, <1>11, <1>14, <1>15 DEF SearchInv

LEMMA SearchInvInit == Search!Init => SearchInv
<1> SUFFICES ASSUME Search!Init PROVE SearchInv
  OBVIOUS
<1>1. found = <<>> /\ services = <<>> /\ heard = {} /\ searchHeld = {} /\ stage = "socket"
  BY DEF Search!Init
<1>2. (CHOOSE a \in Addresses : TRUE) \in Addresses
  BY SearchAssumption DEF Search!DiscoveryAssumption
<1>3. Search!TypeOK
  BY <1>1, <1>2, HostListAssumption, SearchAssumption
     DEF Search!Init, Search!TypeOK, Search!DiscoveryAssumption
<1> QED
  BY <1>1, <1>3 DEF SearchInv, Search!NoTwins, Search!PortsTheirOwn, ServicesHeard

LEMMA ReadAllFits == ASSUME SearchInv, Search!ReadAll PROVE SearchInv'
<1>1. /\ stage = "records" /\ stage' = "services"
      /\ heard' = heard \cup {[address |-> source, port |-> services[i].port] :
                               i \in {j \in DOMAIN services : services[j].port # 0}}
      /\ searchHeld' = searchHeld /\ source' = source /\ services' = services /\ found' = found
  BY DEF Search!ReadAll
<1>2. ASSUME NEW h \in heard', h \notin heard
      PROVE  Pending(h)' /\ h \in [address : Addresses, port : Ports]
  <2>1. PICK i \in DOMAIN services :
          services[i].port # 0 /\ h = [address |-> source, port |-> services[i].port]
    BY <1>1, <1>2
  <2>2. services[i] \in [instance : Instances, port : Ports \cup {0}]
    <3> DEFINE Service == [instance : Instances, port : Ports \cup {0}]
    <3>1. services \in Seq(Service)
      BY SearchTyped
    <3> HIDE DEF Service
    <3>2. services[i] \in Service
      BY <3>1
    <3> QED
      BY <3>2 DEF Service
  <2> QED
    BY <1>1, <2>1, <2>2, SearchTyped DEF Pending
<1>3. Search!TypeOK'
  <2>1. heard' \subseteq [address : Addresses, port : Ports]
    BY <1>2, SearchTyped
  <2> QED
    BY <1>1, <2>1 DEF SearchInv, Search!TypeOK
<1>4. Search!NoTwins'
  BY <1>1 DEF SearchInv, Search!NoTwins
<1>5. \A h : ~Pending(h)
  BY <1>1 DEF Pending
<1>6. ASSUME NEW h \in heard', Len(found) < MaxHosts PROVE IsListed(h)' \/ Pending(h)'
  BY <1>1, <1>2, <1>5, <1>6 DEF SearchInv, IsListed
<1>7. ASSUME NEW i \in DOMAIN found, found[i].port = 0, NEW h \in heard', h.address = found[i].address
      PROVE  Pending(h)'
  BY <1>1, <1>2, <1>5, <1>7 DEF SearchInv
<1>8. Search!PortsTheirOwn' /\ ServicesHeard'
  <2>1. Search!PortsTheirOwn
    BY DEF SearchInv
  <2>2. Search!PortsTheirOwn'
    BY <1>1, <2>1 DEF Search!PortsTheirOwn
  <2>3. ServicesHeard'
    BY <1>1 DEF ServicesHeard
  <2> QED
    BY <2>2, <2>3
<1> QED
  BY <1>1, <1>3, <1>4, <1>6, <1>7, <1>8 DEF SearchInv

\* A step that leaves what was found and heard, and no service pending.
LEMMA RestFits ==
  ASSUME SearchInv, found' = found, heard' = heard, Search!TypeOK',
         stage # "services" \/ services = <<>>, stage' # "services",
         stage' \in {"socket", "over"} => searchHeld' = {}
  PROVE  SearchInv'
<1>1. \A h : ~Pending(h)
  BY DEF Pending
<1>2. Search!NoTwins' /\ Search!PortsTheirOwn' /\ ServicesHeard'
  BY DEF SearchInv, Search!NoTwins, Search!PortsTheirOwn, ServicesHeard
<1>3. \A h \in heard : IsListed(h) => IsListed(h)'
  BY DEF IsListed
<1> QED
  BY <1>1, <1>2, <1>3 DEF SearchInv

LEMMA SearchInvStep == ASSUME SearchInv, Search!Next \/ UNCHANGED search PROVE SearchInv'
<1>1. CASE UNCHANGED search
  BY <1>1 DEF search, SearchInv, Search!TypeOK, Search!NoTwins, Search!PortsTheirOwn, ServicesHeard,
              Pending, IsListed
<1>2. CASE Search!OpenSocket \/ Search!OpenEpoll \/ Search!Ask
  <2>1. Search!TypeOK'
    BY <1>2 DEF Search!OpenSocket, Search!OpenEpoll, Search!Ask, SearchInv, Search!TypeOK
  <2> QED
    BY <1>2, <2>1, RestFits DEF Search!OpenSocket, Search!OpenEpoll, Search!Ask, SearchInv
<1>3. CASE Search!Hear \/ Search!Entered \/ Search!Stop
  <2>1. Search!TypeOK'
    <3>1. services' \in Seq([instance : Instances, port : Ports \cup {0}]) /\ Len(services') <= MaxServices
      <4>1. services' = services \/ services' = <<>>
        BY <1>3 DEF Search!Hear, Search!Entered, Search!Stop
      <4>2. 0 <= MaxServices
        BY SearchAssumption DEF Search!DiscoveryAssumption
      <4>3. <<>> \in Seq([instance : Instances, port : Ports \cup {0}]) /\ Len(<<>>) = 0
        OBVIOUS
      <4> QED
        BY <4>1, <4>2, <4>3, SearchTyped
    <3> QED
      BY <1>3, <3>1 DEF Search!Hear, Search!Entered, Search!Stop, SearchInv, Search!TypeOK
  <2> QED
    BY <1>3, <2>1, RestFits DEF Search!Hear, Search!Entered, Search!Stop, SearchInv
<1>4. CASE Search!Read
  <2>1. Search!TypeOK'
    BY <1>4, NotedTyped DEF Search!Read, SearchInv, Search!TypeOK
  <2> QED
    BY <1>4, <2>1, RestFits DEF Search!Read, SearchInv
<1> QED
  BY <1>1, <1>2, <1>3, <1>4, EnterFits, ReadAllFits DEF Search!Next

LEMMA SearchInvOK == SearchInv => Search!DiscoveryOK
<1> SUFFICES ASSUME SearchInv PROVE Search!DiscoveryOK
  OBVIOUS
<1>1. Search!EveryPortListed
  BY DEF SearchInv, Search!EveryPortListed, Pending, IsListed
<1>2. Search!PortsArrive
  BY DEF SearchInv, Search!PortsArrive, Pending
<1>3. Search!ClosesBoth
  BY DEF SearchInv, Search!ClosesBoth
<1> QED
  BY <1>1, <1>2, <1>3 DEF SearchInv, Search!DiscoveryOK

-----------------------------------------------------------------------------
(* The components together *)

SettingsParts == (part = "list" => LoopInv) /\ (part = "settings" => SettingsInv)

\* The loop of merge_duplicates returns what Merged says, for any number of PCs,
\* addresses and identities; and whichever layout a console still holds, the
\* load yields settings in range that the stream can use and that later starts
\* load again, for any maximal number of PCs.
THEOREM SettingsSafe == ServicesSpec => []SettingsOK
<1>1. ServicesInit => SettingsParts
  BY LoopInit, SettingsInvInit DEF ServicesInit, SettingsParts
<1>2. SettingsParts /\ [ServicesNext]_all => SettingsParts'
  <2> SUFFICES ASSUME SettingsParts, [ServicesNext]_all PROVE SettingsParts'
    OBVIOUS
  <2>1. part' = part
    BY DEF ServicesNext, all
  <2>2. part = "list" => [Next]_vars
    BY DEF ServicesNext, all
  <2>3. part = "settings" => Settings!Next \/ UNCHANGED settings
    BY DEF ServicesNext, all
  <2> QED
    BY <2>1, <2>2, <2>3, LoopStep, SettingsInvStep DEF SettingsParts
<1>3. SettingsParts => SettingsOK
  BY LoopDone, SettingsInvOK DEF SettingsParts, SettingsOK
<1> QED
  BY <1>1, <1>2, <1>3, PTL DEF ServicesSpec

NetworkParts == HttpInv /\ CallsInv /\ SearchInv

\* An interrupted request fails and leaves nothing, no call over the console's
\* sockets keeps anything at whichever step it was refused, select counts what it
\* sets, and a search lists every service it heard of once, for any number of
\* sockets, addresses, ports, services and entries.
THEOREM NetworkSafe == ServicesSpec => []NetworkOK
<1>1. ServicesInit => NetworkParts
  BY HttpInvInit, CallsInvInit, SearchInvInit DEF ServicesInit, NetworkParts
<1>2. NetworkParts /\ [ServicesNext]_all => NetworkParts'
  <2> SUFFICES ASSUME NetworkParts, [ServicesNext]_all PROVE NetworkParts'
    OBVIOUS
  <2>1. [HttpNext]_httpVars
    BY DEF ServicesNext, all
  <2>2. Calls!Next \/ UNCHANGED calls
    BY DEF ServicesNext, all
  <2>3. Search!Next \/ UNCHANGED search
    BY DEF ServicesNext, all
  <2> QED
    BY <2>1, <2>2, <2>3, HttpInvStep, CallsInvStep, SearchInvStep DEF NetworkParts
<1>3. NetworkParts => NetworkOK
  BY HttpInvOK, CallsInvOK, SearchInvOK DEF NetworkParts, NetworkOK
<1> QED
  BY <1>1, <1>2, <1>3, PTL DEF ServicesSpec
=============================================================================
