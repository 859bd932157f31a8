------------------------------- MODULE MergeLoop -------------------------------
(***************************************************************************)
(* merge_duplicates of moonlight_config.cpp, one action per pass of its    *)
(* while loop, over every list of at most MaxHosts PCs, twins included: a  *)
(* configuration file is not checked for them.  Places count from 1.       *)
(***************************************************************************)
EXTENDS HostList

VARIABLES
  list,        \* *config
  index,       \* the entry kept
  duplicate,   \* the entry looked at
  given        \* what the function was called with

vars == <<list, index, duplicate, given>>

Lists == {[hosts |-> h, selected |-> s] :
            h \in UNION {[1..n -> Hosts] : n \in 1..MaxHosts}, s \in 1..MaxHosts}

Init ==
  /\ list \in {l \in Lists : HasSelected(l)}
  /\ index \in Places(list)
  /\ duplicate = 1
  /\ given = [list |-> list, index |-> index]

Duplicate ==
  /\ duplicate # index
  /\ SameHost(list.hosts[duplicate], list.hosts[index])

PlaceAfterFold == IF duplicate < index THEN index - 1 ELSE index

\* Mutant: a selection of the folded entry stays where it was.
SelectedAfterFold_Stays ==
  IF list.selected > duplicate THEN list.selected - 1 ELSE list.selected

SelectedAfterFold ==
  IF list.selected \in {duplicate, index} THEN PlaceAfterFold
  ELSE IF list.selected > duplicate THEN list.selected - 1
  ELSE list.selected

Skip ==
  /\ duplicate <= Len(list.hosts)
  /\ ~Duplicate
  /\ duplicate' = duplicate + 1
  /\ UNCHANGED <<list, index, given>>

Fold ==
  /\ duplicate <= Len(list.hosts)
  /\ Duplicate
  /\ list' = [hosts |-> SubSeq(list.hosts, 1, duplicate - 1)
                          \o SubSeq(list.hosts, duplicate + 1, Len(list.hosts)),
              selected |-> SelectedAfterFold]
  /\ index' = PlaceAfterFold
  /\ UNCHANGED <<duplicate, given>>

Next == Skip \/ Fold
Spec == Init /\ [][Next]_vars

Returned == duplicate > Len(list.hosts)

TypeOK ==
  /\ list \in Lists
  /\ index \in 1..MaxHosts
  /\ duplicate \in 1..(MaxHosts + 1)

(***************************************************************************)
(* When the loop of merge_duplicates returns, exactly the entries of the   *)
(* kept PC are gone, in the order the list had, the place returned is the  *)
(* kept PC's and the selection is on the PC it was on: the definition the  *)
(* launcher's model uses.                                                  *)
(***************************************************************************)
LoopMerges ==
  /\ TypeOK
  /\ Returned => /\ list = Merged(given.list, given.index)
                 /\ index = MergedPlace(given.list, given.index)

=============================================================================
