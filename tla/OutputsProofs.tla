----------------------------- MODULE OutputsProofs -----------------------------
(***************************************************************************)
(* Proofs about what reaches the player. The AGC presenter                 *)
(* (src/native_agc_present.cpp) and the threads that use it, for any       *)
(* number of pictures and sessions: what it holds, what it takes the       *)
(* output for, and, as long as no submission was left out of its count,    *)
(* that pictures neither tear nor go back. The sound                       *)
(* (src/moonlight_stream.cpp), for a ring, grains and packets of any       *)
(* length: the console gets the samples in their order, none twice. What a *)
(* picture is held back for, for any window and any most that is allowed:  *)
(* it is earned and forgotten again (frame_pacing.hpp and                  *)
(* ps5_pacing_feedback.hpp).  The cadence and the place of a picture on a  *)
(* variable output, for any window, reserve and delays of the network: the *)
(* PC's rate and the PC's spacing (frame_pacing.hpp and                    *)
(* ps5_vrr_timeline.hpp).  And its grid of scanouts, for any rates and     *)
(* delays of the thread that leave it room: never too slow, never at once, *)
(* and repeats between the pictures (frame_pacing.hpp).                    *)
(***************************************************************************)
EXTENDS MCOutputs, FiniteSetTheorems, SequenceTheorems, WellFoundedInduction, TLAPS

-----------------------------------------------------------------------------
(* The presenter                                                           *)

Submissions == [buffer : {0, 1}, marker : Nat, immediate : BOOLEAN, picture : Nat]
Flips == [buffer : {0, 1}, marker : Nat, immediate : BOOLEAN]
Presenters == [ready : BOOLEAN, frame : Nat, marker : Nat, immediate : BOOLEAN,
               mode : Modes \cup {"none"}]
Users == [at : {"off", "first", "undo", "connecting", "still", "stream", "ending", "closing"},
          sessions : Nat, waits : BOOLEAN, keeps : SUBSET (1..MaxSent),
          failures : 0..FailureLimit, shown : BOOLEAN]
Outputs == [free : BOOLEAN, active : BOOLEAN, refused : BOOLEAN]

Typed ==
    /\ user \in Users /\ pr \in Presenters
    /\ asks \in [vrr : BOOLEAN, vsync : BOOLEAN, mode : Modes]
    /\ held \subseteq Acquired(7) /\ rejected \in BOOLEAN /\ uncounted \in BOOLEAN
    /\ output \in Outputs
    /\ gpu \in Seq(Submissions) /\ flips \in Seq(Flips)
    /\ screen \in [buffer : 0..2, marker : Nat]
    /\ image \in [{0, 1} -> Nat] /\ sent \in 0..MaxSent

\* The connecting screen waits within its call, which is not counted yet.
Showing == user.waits /\ user.at \in {"first", "connecting"}

\* The marker of the last submission of a call that did not fail.
Last == IF Showing THEN pr.frame + 1 ELSE pr.frame

Counts ==
    /\ Last <= sent /\ pr.marker <= sent
    /\ user.waits => user.at \in {"first", "connecting", "stream"} /\ pr.ready
    /\ ~pr.ready => pr.frame = 0 /\ pr.marker = 0

-----------------------------------------------------------------------------
(* Where the last submission is: with the GPU, queued at VideoOut, or done. *)

Into == (Last + 1) % 2      \* its buffer
Done == gpu = <<>> /\ (Last = 0 \/ screen.buffer = Into)
Queued == gpu = <<>> /\ ~Done

\* A flip that shows what is shown.
Again == [buffer |-> screen.buffer, marker |-> screen.marker, immediate |-> FALSE]
Repeated == Len(flips) - (IF Queued THEN 1 ELSE 0)

\* On its way it is awaited, its memory is kept, its buffer is not the one
\* shown, and whatever is queued before it shows what is shown.
Flight ==
    /\ Last = 0 => gpu = <<>> /\ flips = <<>> /\ screen = Black
    /\ screen.marker <= Last
    /\ pr.marker \in {0, Last}
    /\ Showing => pr.marker = Last
    /\ ~Done => /\ pr.marker = Last /\ screen.marker < Last /\ screen.buffer # Into
                /\ sent \in user.keeps
    /\ gpu # <<>> => gpu = <<[buffer |-> Into, marker |-> Last, immediate |-> pr.immediate,
                              picture |-> sent]>>
    /\ Queued => /\ flips # <<>>
                 /\ flips[Len(flips)] = [buffer |-> Into, marker |-> Last,
                                         immediate |-> pr.immediate]
                 /\ image[Into] = sent
    /\ \A i \in 1..Repeated : flips[i] = Again
    /\ \A b \in {0, 1} : image[b] <= sent

FlightInv == ~uncounted => Flight

AgcInv == Typed /\ Counts /\ Ledger /\ NeverTakenForVariable /\ FlightInv

-----------------------------------------------------------------------------

LEMMA Parity ==
  ASSUME NEW n \in Nat
  PROVE  /\ n % 2 \in {0, 1} /\ (n + 1) % 2 \in {0, 1}
         /\ n % 2 # (n + 1) % 2 /\ (n + 1 + 1) % 2 = n % 2
         /\ n > 0 => (n - 1) % 2 = (n + 1) % 2
OBVIOUS

LEMMA LastNat == ASSUME Typed PROVE Last \in Nat /\ Into \in {0, 1}
<1>1. pr.frame \in Nat
  BY DEF Typed, Presenters
<1>2. Last \in Nat
  BY <1>1 DEF Last
<1> QED
  BY <1>2, Parity DEF Into

\* Nothing out is nothing with the GPU and nothing queued.
LEMMA ConcatEmpty ==
  ASSUME NEW S, NEW T, NEW s \in Seq(S), NEW t \in Seq(T), s \o t = <<>>
  PROVE  s = <<>> /\ t = <<>>
<1>1. Len(s \o t) = Len(s) + Len(t) /\ Len(s) \in Nat /\ Len(t) \in Nat
  OBVIOUS
<1>2. Len(s) = 0 /\ Len(t) = 0
  BY <1>1, EmptySeq
<1> QED
  BY <1>2, EmptySeq

\* The history of the submissions that were left out.
LEMMA CountedKept ==
  ASSUME Typed, Counted
  PROVE  /\ uncounted' \in BOOLEAN
         /\ Reported => uncounted' = uncounted
         /\ TimesOut => uncounted' = uncounted
         /\ ~uncounted' => ~uncounted /\ ~Loses
<1>1. uncounted \in BOOLEAN /\ Loses \in BOOLEAN
  BY DEF Typed, Loses, Unreported, Reported
<1>2. Reported \/ TimesOut => Loses = FALSE
  BY DEF TimesOut, Loses, Unreported
<1> QED
  BY <1>1, <1>2 DEF Counted

\* A marker that was reported, or given up when nothing was out, is that of a
\* submission done.
LEMMA RetiresDone ==
  ASSUME Typed, Flight, Reported \/ Unreported, ~Loses
  PROVE  Done
<1>1. screen.marker \in Nat /\ Last \in Nat
  BY LastNat DEF Typed
<1>2. SUFFICES ASSUME ~Done PROVE FALSE
  OBVIOUS
<1>3. pr.marker = Last /\ screen.marker < Last
  BY <1>2 DEF Flight
<1>4. ~Reported
  BY <1>1, <1>3 DEF Reported
<1>5. gpu = <<>> /\ flips = <<>>
  <2>1. gpu \in Seq(Submissions) /\ flips \in Seq(Flips) /\ gpu \o flips = <<>>
    BY <1>4 DEF Loses, Typed
  <2> QED
    BY <2>1, ConcatEmpty
<1> QED
  BY <1>2, <1>5 DEF Flight, Queued

LEMMA ReportedDone == ASSUME Typed, Flight, Reported PROVE Done
BY RetiresDone DEF Loses, Unreported

\* Steps that leave the last submission where it is.
LEMMA FlightKept ==
  ASSUME Typed, Flight, UNCHANGED <<gpu, flips, screen, image, sent>>, Last' = Last,
         Showing' => pr'.marker = Last,
         \/ pr'.marker = pr.marker /\ pr'.immediate = pr.immediate /\ user'.keeps = user.keeps
         \/ Done /\ pr'.marker \in {0, pr.marker}
  PROVE  Flight'
<1>1. Done' <=> Done
  BY DEF Done, Into
<1>2. Into' = Into /\ (Queued' <=> Queued) /\ Again' = Again /\ Repeated' = Repeated
  BY <1>1 DEF Into, Queued, Again, Repeated
<1>3. pr'.marker \in {0, Last}
  BY DEF Flight
<1>4. ~Done => pr'.marker = pr.marker /\ pr'.immediate = pr.immediate /\ user'.keeps = user.keeps
  OBVIOUS
<1>5. gpu # <<>> => ~Done
  BY DEF Done
<1>6. Queued => ~Done
  BY DEF Queued
<1> HIDE DEF Showing
<1> QED
  BY <1>1, <1>2, <1>3, <1>4, <1>5, <1>6 DEF Flight

\* A new submission, after the one before is done.
LEMMA FlightSubmitted ==
  ASSUME Typed, Flight, Done, ~Showing, NEW immediate \in BOOLEAN, Submits(immediate),
         UNCHANGED <<flips, screen, image>>,
         pr'.marker = pr.frame + 1, pr'.immediate = immediate,
         Last' = pr.frame + 1, sent' \in user'.keeps
  PROVE  Flight'
<1>1. Last = pr.frame /\ Last \in Nat /\ Last' = Last + 1
  BY LastNat DEF Last
<1>2. /\ Into' = pr.frame % 2 /\ Into' # Into /\ Into' \in {0, 1}
  BY <1>1, Parity DEF Into
<1>3. gpu = <<>> /\ (Last = 0 \/ screen.buffer = Into)
  BY DEF Done
<1>4. gpu' = <<[buffer |-> Into', marker |-> Last', immediate |-> pr'.immediate,
                picture |-> sent']>>
  BY <1>1, <1>2, <1>3 DEF Submits
<1>5. sent' = sent + 1 /\ sent \in Nat
  BY DEF Submits, Typed
<1>6. screen.buffer # Into'
  BY <1>1, <1>2, <1>3 DEF Flight, Black
<1>7. gpu' # <<>>
  BY <1>4
<1>8. ~Done' /\ ~Queued'
  BY <1>7 DEF Done, Queued
<1>9. screen.marker \in Nat /\ screen.marker < Last'
  BY <1>1 DEF Flight, Typed
<1>10. ~Queued
  BY DEF Queued
<1>11. Repeated' = Repeated /\ Again' = Again
  BY <1>8, <1>10 DEF Repeated, Again
<1>12. \A b \in {0, 1} : image'[b] <= sent'
  BY <1>5 DEF Flight, Typed
<1>13. \A i \in 1..Repeated' : flips'[i] = Again'
  BY <1>11 DEF Flight
<1>14. Last' # 0 /\ pr'.marker = Last'
  BY <1>1
<1>15. screen'.marker <= Last' /\ screen'.marker < Last' /\ screen'.buffer # Into'
  BY <1>1, <1>6, <1>9
<1> HIDE DEF Showing, Submits
<1> QED
  BY <1>4, <1>8, <1>12, <1>13, <1>14, <1>15 DEF Flight

\* A presenter that was given back.
LEMMA FlightCleared ==
  ASSUME Typed, Flight, Done, pr' = NoPresenter, ~Showing',
         flips' = <<>>, screen' = Black, image' = NoImages, UNCHANGED <<gpu, sent>>
  PROVE  Flight'
<1>1. Last' = 0 /\ pr'.marker = 0 /\ screen'.marker = 0
  BY DEF Last, NoPresenter, Black
<1>2. gpu' = <<>>
  BY DEF Done
<1>3. Done' /\ ~Queued'
  BY <1>1, <1>2 DEF Done, Queued
<1>4. Repeated' = 0
  BY <1>3, EmptySeq DEF Repeated
<1>5. \A b \in {0, 1} : image'[b] <= sent'
  BY DEF NoImages, Typed
<1>6. \A i \in 1..Repeated' : flips'[i] = Again'
  BY <1>4
<1> HIDE DEF Showing, Black, NoImages, NoPresenter
<1> QED
  BY <1>1, <1>2, <1>3, <1>5, <1>6 DEF Flight

-----------------------------------------------------------------------------
(* What the steps are made of                                              *)

LEMMA RecordTypes ==
  /\ Black \in [buffer : 0..2, marker : Nat] /\ NoImages \in [{0, 1} -> Nat]
  /\ NoPresenter \in Presenters
<1>1. PICK f \in BOOLEAN : f = FALSE
  OBVIOUS
<1>2. NoPresenter = [ready |-> f, frame |-> 0, marker |-> 0, immediate |-> f, mode |-> "none"]
  BY <1>1 DEF NoPresenter
<1> QED
  BY <1>2 DEF Black, NoImages, Presenters

LEMMA ConfigureOutput ==
  ASSUME Typed, NeverTakenForVariable, Configure
  PROVE  output' \in Outputs /\ (output'.active => output'.free)
<1>1. output \in Outputs
  BY DEF Typed
<1>2. CASE Settle
  <2>1. PICK unpegs \in BOOLEAN :
          output' = [output EXCEPT
                       !.free = (output.free \/ unpegs) /\ (asks.vrr \/ output.refused),
                       !.active = (output.free \/ unpegs) /\ (asks.vrr \/ output.refused)]
    BY <1>2 DEF Settle
  <2> DEFINE stays == (output.free \/ unpegs) /\ (asks.vrr \/ output.refused)
  <2>2. stays \in BOOLEAN /\ output' = [output EXCEPT !.free = stays, !.active = stays]
    BY <2>1
  <2> HIDE DEF stays
  <2> QED
    BY <1>1, <2>2 DEF Outputs
<1>3. CASE output' = [output EXCEPT !.active = FALSE]
  BY <1>1, <1>3 DEF Outputs
<1> QED
  BY <1>2, <1>3 DEF Configure

LEMMA AcquiredMore == \A k \in 0..7 : Acquired(k) \subseteq Acquired(7)
BY DEF Acquired

LEMMA InitializeKeeps ==
  ASSUME Typed, NeverTakenForVariable, NEW k \in 0..7, Initialize(k)
  PROVE  /\ held' \subseteq Acquired(7) /\ output' \in Outputs
         /\ output'.active => output'.free
         /\ k = 7 => Acquired(7) \ {"flip queue"} \subseteq held'
<1>1. held' \subseteq Acquired(7)
  BY AcquiredMore DEF Initialize
<1>2. output' \in Outputs /\ (output'.active => output'.free)
  <2>1. CASE "video" \in held'
    BY <2>1, ConfigureOutput DEF Initialize
  <2>2. CASE "video" \notin held'
    BY <2>2 DEF Initialize, Typed, NeverTakenForVariable
  <2> QED
    BY <2>1, <2>2
<1> HIDE DEF Acquired
<1> QED
  BY <1>1, <1>2 DEF Initialize

\* SetUp, where the presenter is ready and where it is not.
LEMMA SetUpKeeps ==
  ASSUME Typed, Ledger, NeverTakenForVariable, SetUp
  PROVE  /\ held' \subseteq Acquired(7) /\ output' \in Outputs
         /\ output'.active => output'.free
         /\ Acquired(7) \ {"flip queue"} \subseteq held'
<1>1. CASE pr.ready
  BY <1>1 DEF SetUp, Ledger, Typed, NeverTakenForVariable
<1>2. CASE ~pr.ready
  <2>1. Initialize(7) /\ 7 \in 0..7
    BY <1>2 DEF SetUp
  <2> QED
    BY <2>1, InitializeKeeps
<1> QED
  BY <1>1, <1>2

LEMMA SubmitsTyped ==
  ASSUME Typed, NEW immediate \in BOOLEAN, Submits(immediate)
  PROVE  gpu' \in Seq(Submissions) /\ sent' = sent + 1 /\ sent' \in 1..MaxSent
<1>1. pr.frame \in Nat /\ sent \in Nat
  BY DEF Typed, Presenters
<1>2. [buffer |-> pr.frame % 2, marker |-> pr.frame + 1, immediate |-> immediate,
       picture |-> sent + 1] \in Submissions
  BY <1>1, Parity DEF Submissions
<1>3. gpu' \in Seq(Submissions)
  BY <1>2, AppendProperties DEF Submits, Typed
<1> QED
  BY <1>1, <1>3, PresenterAssumption DEF Submits

\* The presenter's record, its marker retired or another one pending.
LEMMA PresenterFields ==
  ASSUME Typed
  PROVE  /\ Retired \in Presenters /\ Retired.ready = pr.ready /\ Retired.frame = pr.frame
         /\ Retired.marker = 0 /\ Retired.immediate = pr.immediate
         /\ Ready \in Presenters /\ Ready.ready = TRUE /\ Ready.frame = pr.frame
         /\ Ready.marker = 0 /\ Ready.immediate = pr.immediate
         /\ \A immediate \in BOOLEAN :
              /\ Pending(immediate) \in Presenters /\ Pending(immediate).ready = TRUE
              /\ Pending(immediate).frame = pr.frame
              /\ Pending(immediate).marker = pr.frame + 1
              /\ Pending(immediate).immediate = immediate
<1>1. pr \in Presenters /\ asks.mode \in Modes
  BY DEF Typed
<1>2. /\ Retired \in Presenters /\ Retired.ready = pr.ready /\ Retired.frame = pr.frame
      /\ Retired.marker = 0 /\ Retired.immediate = pr.immediate
  BY <1>1 DEF Retired, Presenters
<1> HIDE DEF Retired
<1>3. /\ Ready \in Presenters /\ Ready.ready = TRUE /\ Ready.frame = pr.frame
      /\ Ready.marker = 0 /\ Ready.immediate = pr.immediate
  <2>1. PICK t \in BOOLEAN : t = TRUE
    OBVIOUS
  <2>2. Ready = [Retired EXCEPT !.ready = t, !.mode = asks.mode]
    BY <2>1 DEF Ready
  <2> QED
    BY <1>1, <1>2, <2>1, <2>2 DEF Presenters
<1>4. ASSUME NEW immediate \in BOOLEAN
      PROVE  /\ Pending(immediate) \in Presenters /\ Pending(immediate).ready = TRUE
             /\ Pending(immediate).frame = pr.frame
             /\ Pending(immediate).marker = pr.frame + 1
             /\ Pending(immediate).immediate = immediate
  <2> HIDE DEF Ready
  <2>1. pr.frame + 1 \in Nat
    BY <1>1 DEF Presenters
  <2>2. Pending(immediate) = [Ready EXCEPT !.marker = pr.frame + 1, !.immediate = immediate]
    BY DEF Pending
  <2> QED
    BY <1>3, <2>1, <2>2 DEF Presenters
<1> QED
  BY <1>2, <1>3, <1>4

\* A presenter that counts its submission.
LEMMA CountedFields ==
  ASSUME Typed, NEW p \in Presenters
  PROVE  LET q == [p EXCEPT !.frame = @ + 1]
         IN  /\ q \in Presenters /\ q.ready = p.ready /\ q.frame = p.frame + 1
             /\ q.marker = p.marker /\ q.immediate = p.immediate
BY DEF Presenters

\* How a step reads and leaves the users of the presenter.
LEMMA UserFields ==
  ASSUME Typed
  PROVE  /\ user.waits \in BOOLEAN /\ user.keeps \subseteq 1..MaxSent
         /\ user.failures \in 0..FailureLimit /\ user.sessions \in Nat
BY DEF Typed, Users

LEMMA RetiresTyped ==
  ASSUME Typed, Retires \/ TimesOut
  PROVE  rejected' \in BOOLEAN
BY DEF Typed, Retires, TimesOut, Unreported, Reported

LEMMA TimesOutPending ==
  ASSUME Typed, TimesOut
  PROVE  pr.marker > 0
BY DEF Typed, TimesOut, Reported, Presenters

-----------------------------------------------------------------------------
(* The connecting screen                                                   *)

LEMMA BeginStep == ASSUME AgcInv, Begin PROVE AgcInv'
<1> USE DEF AgcInv
<1>1. /\ UNCHANGED <<pr, held, rejected, gpu, display, sent, uncounted>>
      /\ asks' \in [vrr : BOOLEAN, vsync : BOOLEAN, mode : Modes]
      /\ output' = [output EXCEPT !.active = FALSE]
  BY DEF Begin
<1>2. user.at = "off" /\ user.waits = FALSE
  BY UserFields DEF Begin, Counts
<1>3. /\ user' \in Users /\ user'.at = "first" /\ user'.waits = FALSE
      /\ user'.keeps = user.keeps
  <2>1. PICK f \in BOOLEAN : f = FALSE
    OBVIOUS
  <2>2. 0 \in 0..FailureLimit
    BY PresenterAssumption
  <2>3. PICK m \in Nat : m = user.sessions + 1
    BY UserFields
  <2>4. PICK n \in 0..FailureLimit : n = 0
    BY <2>2
  <2>5. user' = [user EXCEPT !.at = "first", !.sessions = m, !.failures = n, !.shown = f]
    BY <2>1, <2>3, <2>4 DEF Begin
  <2>6. user' \in Users
    BY <2>5 DEF Typed, Users
  <2> QED
    BY <1>2, <2>5, <2>6 DEF Typed, Users
<1>4. output' \in Outputs /\ output'.active = FALSE
  BY <1>1 DEF Typed, Outputs
<1>5. Typed'
  BY <1>1, <1>3, <1>4 DEF Typed, display
<1>6. Last' = Last /\ ~Showing'
  BY <1>1, <1>2, <1>3 DEF Last, Showing
<1>7. Counts' /\ Ledger' /\ NeverTakenForVariable'
  BY <1>1, <1>3, <1>4, <1>6 DEF Counts, Ledger, NeverTakenForVariable
<1>8. FlightInv'
  BY <1>1, <1>3, <1>6, FlightKept DEF FlightInv, display
<1> QED
  BY <1>5, <1>7, <1>8

LEMMA ShowStep == ASSUME AgcInv, Show PROVE AgcInv'
<1> USE DEF AgcInv
<1>1. /\ SetUp /\ Submits(FALSE) /\ pr' = Pending(FALSE) /\ Retires /\ Counted
      /\ user' = [user EXCEPT !.waits = TRUE, !.keeps = @ \union {sent + 1}]
      /\ UNCHANGED <<asks, display>>
  BY DEF Show
<1>2. user.at \in {"first", "connecting"} /\ user.waits = FALSE
  BY UserFields DEF Show
<1>3. FALSE \in BOOLEAN
  OBVIOUS
<1>4. gpu' \in Seq(Submissions) /\ sent' = sent + 1 /\ sent' \in 1..MaxSent
  BY <1>1, <1>3, SubmitsTyped
<1>5. /\ pr' \in Presenters /\ pr'.ready = TRUE /\ pr'.frame = pr.frame
      /\ pr'.marker = pr.frame + 1 /\ pr'.immediate = FALSE
  BY <1>1, <1>3, PresenterFields
<1>6. /\ user' \in Users /\ user'.at = user.at /\ user'.waits = TRUE
      /\ user'.keeps = user.keeps \union {sent'}
  <2>1. PICK t \in BOOLEAN : t = TRUE
    OBVIOUS
  <2>2. user.keeps \union {sent + 1} \in SUBSET (1..MaxSent)
    BY <1>4, UserFields
  <2>3. user' = [user EXCEPT !.waits = t, !.keeps = user.keeps \union {sent + 1}]
    BY <1>1, <2>1
  <2> QED
    BY <1>4, <2>1, <2>2, <2>3 DEF Typed, Users
<1>7. /\ held' \subseteq Acquired(7) /\ output' \in Outputs /\ (output'.active => output'.free)
      /\ Acquired(7) \ {"flip queue"} \subseteq held'
  BY <1>1, SetUpKeeps
<1>8. rejected' \in BOOLEAN /\ uncounted' \in BOOLEAN
  BY <1>1, RetiresTyped, CountedKept
<1>9. Typed'
  <2>1. sent' \in 0..MaxSent
    BY <1>4
  <2> QED
    BY <1>1, <1>4, <1>5, <1>6, <1>7, <1>8, <2>1 DEF Typed, display
<1>10. ~Showing /\ Showing' /\ Last = pr.frame /\ Last' = pr.frame + 1
  BY <1>2, <1>5, <1>6 DEF Last, Showing
<1>11. pr.frame \in Nat /\ sent \in Nat /\ pr.frame <= sent
  BY <1>10 DEF Counts, Typed, Presenters
<1>12. Counts'
  BY <1>2, <1>4, <1>5, <1>6, <1>10, <1>11 DEF Counts
<1>13. Ledger' /\ NeverTakenForVariable'
  BY <1>2, <1>5, <1>6, <1>7 DEF Ledger, NeverTakenForVariable, Acquired
<1>14. ASSUME ~uncounted' PROVE Flight'
  <2>1. Flight /\ ~Loses
    BY <1>1, <1>14, CountedKept DEF FlightInv
  <2>2. Done
    BY <1>1, <2>1, RetiresDone DEF Retires
  <2>3. sent' \in user'.keeps
    BY <1>6
  <2> QED
    BY <1>1, <1>3, <1>5, <1>10, <2>1, <2>2, <2>3, FlightSubmitted DEF display
<1> QED
  BY <1>9, <1>12, <1>13, <1>14 DEF FlightInv

LEMMA ShowReturnsStep == ASSUME AgcInv, ShowReturns PROVE AgcInv'
<1> USE DEF AgcInv
<1>1. /\ Reported /\ pr' = [Retired EXCEPT !.frame = @ + 1]
      /\ user' = [user EXCEPT !.at = "connecting", !.waits = FALSE, !.keeps = @ \ {sent}]
      /\ UNCHANGED <<asks, held, rejected, output, gpu, display, sent, uncounted>>
  BY DEF ShowReturns
<1>2. user.at \in {"first", "connecting"} /\ user.waits = TRUE
  BY UserFields DEF ShowReturns
<1>3. /\ pr' \in Presenters /\ pr'.ready = pr.ready /\ pr'.frame = pr.frame + 1
      /\ pr'.marker = 0 /\ pr'.immediate = pr.immediate
  BY <1>1, PresenterFields, CountedFields
<1>4. /\ user' \in Users /\ user'.at = "connecting" /\ user'.waits = FALSE
      /\ user'.keeps = user.keeps \ {sent}
  <2>1. PICK f \in BOOLEAN : f = FALSE
    OBVIOUS
  <2>2. user.keeps \ {sent} \in SUBSET (1..MaxSent)
    BY UserFields
  <2>3. user' = [user EXCEPT !.at = "connecting", !.waits = f, !.keeps = user.keeps \ {sent}]
    BY <1>1, <2>1
  <2> QED
    BY <2>1, <2>2, <2>3 DEF Typed, Users
<1>5. Typed'
  BY <1>1, <1>3, <1>4 DEF Typed, display
<1>6. Showing /\ ~Showing' /\ Last = pr.frame + 1 /\ Last' = Last
  BY <1>2, <1>3, <1>4 DEF Last, Showing
<1>7. pr.ready /\ pr'.ready
  BY <1>2, <1>3 DEF Counts
<1>8. Counts'
  BY <1>1, <1>3, <1>4, <1>6, <1>7 DEF Counts, Typed
<1>9. Ledger' /\ NeverTakenForVariable'
  BY <1>1, <1>4, <1>7 DEF Ledger, NeverTakenForVariable
<1>10. ASSUME ~uncounted' PROVE Flight'
  <2>1. Flight
    BY <1>1, <1>10 DEF FlightInv
  <2>2. Done
    BY <1>1, <2>1, ReportedDone
  <2> QED
    BY <1>1, <1>3, <1>6, <2>1, <2>2, FlightKept DEF display
<1> QED
  BY <1>5, <1>8, <1>9, <1>10 DEF FlightInv

\* A submission that fails may leave its commands with the GPU.
LEMMA RefusalKeeps ==
  ASSUME Typed, Refusal
  PROVE  /\ gpu' \in Seq(Submissions) /\ sent' \in 0..MaxSent /\ sent <= sent'
         /\ uncounted' \in BOOLEAN /\ (uncounted => uncounted')
         /\ sent' > sent => sent' \in 1..MaxSent
         /\ ~uncounted' => UNCHANGED <<gpu, sent, uncounted>> /\ ~Loses
         /\ pr' \in Presenters /\ pr'.ready = TRUE /\ pr'.frame = pr.frame
         /\ pr'.marker = 0 /\ pr'.immediate = pr.immediate
<1>1. /\ pr' \in Presenters /\ pr'.ready = TRUE /\ pr'.frame = pr.frame
      /\ pr'.marker = 0 /\ pr'.immediate = pr.immediate
  BY PresenterFields DEF Refusal
<1>2. CASE UNCHANGED <<gpu, sent>> /\ Counted
  <2>1. sent \in Nat /\ sent' = sent
    BY <1>2 DEF Typed
  <2>2. gpu' \in Seq(Submissions) /\ sent' \in 0..MaxSent
    BY <1>2 DEF Typed
  <2>3. /\ uncounted' \in BOOLEAN /\ (uncounted => uncounted')
        /\ ~uncounted' => uncounted' = uncounted /\ ~Loses
    BY <1>2, CountedKept DEF Counted, Typed
  <2> QED
    BY <1>1, <1>2, <2>1, <2>2, <2>3
<1>3. CASE Submits(FALSE) /\ uncounted' = TRUE
  <2>1. FALSE \in BOOLEAN
    OBVIOUS
  <2>2. gpu' \in Seq(Submissions) /\ sent' = sent + 1 /\ sent' \in 1..MaxSent
    BY <1>3, <2>1, SubmitsTyped
  <2>3. sent \in Nat /\ sent' \in 0..MaxSent /\ sent <= sent'
    BY <2>2 DEF Typed
  <2> QED
    BY <1>1, <1>3, <2>2, <2>3
<1> QED
  BY <1>2, <1>3 DEF Refusal

\* What a call that fails leaves behind, however far it came.
FailedCall ==
    /\ pr' \in Presenters /\ pr'.frame = pr.frame /\ pr'.immediate = pr.immediate
    /\ pr'.marker \in {0, pr.marker}
    /\ pr'.marker = pr.marker \/ Reported \/ Unreported
    /\ ~uncounted' => pr'.marker = pr.marker \/ ~Loses
    /\ (pr.ready => pr'.ready) /\ (~pr'.ready => pr'.frame = 0 /\ pr'.marker = 0)
    /\ held' \subseteq Acquired(7) /\ output' \in Outputs /\ (output'.active => output'.free)
    /\ pr'.ready => Acquired(7) \ {"flip queue"} \subseteq held'
    /\ rejected' \in BOOLEAN /\ uncounted' \in BOOLEAN
    /\ gpu' \in Seq(Submissions) /\ sent' \in 0..MaxSent /\ sent <= sent'
    /\ sent' > sent => sent' \in 1..MaxSent
    /\ ~uncounted' => UNCHANGED <<gpu, sent, uncounted>>

LEMMA ShowFailsCall ==
  ASSUME AgcInv, ShowFails
  PROVE  FailedCall
<1> USE DEF AgcInv
<1>1. /\ pr \in Presenters /\ gpu \in Seq(Submissions)
      /\ held \subseteq Acquired(7) /\ output \in Outputs /\ (output.active => output.free)
      /\ rejected \in BOOLEAN /\ uncounted \in BOOLEAN
      /\ pr.ready => Acquired(7) \ {"flip queue"} \subseteq held
      /\ ~pr.ready => pr.frame = 0 /\ pr.marker = 0
  BY DEF Typed, Counts, Ledger, NeverTakenForVariable
<1>2. sent' = sent => sent' \in 0..MaxSent /\ sent <= sent' /\ ~(sent' > sent)
  BY DEF Typed
<1> HIDE DEF Acquired
<1>3. CASE TimesOut /\ UNCHANGED <<pr, held, output, gpu, sent, uncounted>>
  <2>1. rejected' = rejected
    BY <1>3 DEF TimesOut
  <2> QED
    BY <1>1, <1>3, <1>2, <2>1 DEF FailedCall
<1>4. CASE ~Fits /\ Retires /\ pr' = Retired /\ Counted /\ UNCHANGED <<held, output, gpu, sent>>
  <2>1. rejected' \in BOOLEAN /\ (Reported \/ Unreported) /\ pr.ready
    BY <1>4, RetiresTyped DEF Retires, Fits
  <2>3. uncounted' \in BOOLEAN /\ (~uncounted' => uncounted' = uncounted /\ ~Loses)
    BY <1>1, <1>4, CountedKept DEF Counted
  <2>2. /\ pr' \in Presenters /\ pr'.ready = pr.ready /\ pr'.frame = pr.frame
        /\ pr'.marker = 0 /\ pr'.immediate = pr.immediate
    BY <1>4, PresenterFields
  <2> QED
    BY <1>1, <1>4, <1>2, <2>1, <2>2, <2>3 DEF FailedCall
<1>5. CASE /\ ~pr.ready /\ \E k \in 0..6 : Initialize(k)
           /\ UNCHANGED <<pr, rejected, gpu, sent, uncounted>>
  <2>1. PICK k \in 0..6 : Initialize(k)
    BY <1>5
  <2>2. k \in 0..7
    OBVIOUS
  <2>3. /\ held' \subseteq Acquired(7) /\ output' \in Outputs /\ (output'.active => output'.free)
    BY <2>1, <2>2, InitializeKeeps
  <2> QED
    BY <1>1, <1>5, <1>2, <2>3 DEF FailedCall
<1>6. CASE Fits /\ Retires /\ SetUp /\ Refusal
  <2>1. rejected' \in BOOLEAN /\ (Reported \/ Unreported)
    BY <1>6, RetiresTyped DEF Retires
  <2>2. /\ held' \subseteq Acquired(7) /\ output' \in Outputs /\ (output'.active => output'.free)
        /\ Acquired(7) \ {"flip queue"} \subseteq held'
    BY <1>6, SetUpKeeps
  <2> QED
    BY <1>6, <2>1, <2>2, RefusalKeeps DEF FailedCall
<1> QED
  BY <1>3, <1>4, <1>5, <1>6 DEF ShowFails

LEMMA ShowFailsStep == ASSUME AgcInv, ShowFails PROVE AgcInv'
<1> USE DEF AgcInv
<1>1. FailedCall
  BY ShowFailsCall
<1>2. /\ user' = [user EXCEPT !.at = IF @ = "first" THEN "undo" ELSE "still",
                              !.keeps = IF sent' > sent THEN @ \union {sent'} ELSE @]
      /\ UNCHANGED <<asks, display>>
  BY DEF ShowFails
<1>3. user.at \in {"first", "connecting"} /\ user.waits = FALSE
  BY UserFields DEF ShowFails
<1> HIDE DEF Acquired
<1>4. /\ user' \in Users /\ user'.at \in {"undo", "still"} /\ user'.waits = FALSE
      /\ user'.at = "still" => user.at = "connecting"
      /\ sent' = sent => user'.keeps = user.keeps
  <2> DEFINE a == IF user.at = "first" THEN "undo" ELSE "still"
             k == IF sent' > sent THEN user.keeps \union {sent'} ELSE user.keeps
  <2>1. a \in {"undo", "still"} /\ (a = "still" => user.at = "connecting")
    BY <1>3
  <2>2. k \in SUBSET (1..MaxSent)
    BY <1>1, UserFields DEF FailedCall
  <2>3. sent' = sent => k = user.keeps
    BY DEF Typed
  <2>4. user' = [user EXCEPT !.at = a, !.keeps = k]
    BY <1>2
  <2> HIDE DEF a, k
  <2> QED
    BY <1>3, <2>1, <2>2, <2>3, <2>4 DEF Typed, Users
<1>5. Typed'
  BY <1>1, <1>2, <1>4 DEF Typed, display, FailedCall
<1>6. ~Showing /\ ~Showing' /\ Last = pr.frame /\ Last' = pr.frame
  BY <1>1, <1>3, <1>4 DEF Last, Showing, FailedCall
<1>7. Counts'
  <2>1. pr.frame \in Nat /\ pr.marker \in Nat /\ sent \in Nat /\ sent' \in Nat
    <3>1. sent' \in 0..MaxSent
      BY <1>1 DEF FailedCall
    <3>2. sent \in 0..MaxSent /\ pr \in Presenters
      BY DEF Typed
    <3> QED
      BY <3>1, <3>2 DEF Presenters
  <2>2. pr.frame <= sent /\ pr.marker <= sent /\ sent <= sent' /\ pr'.marker \in {0, pr.marker}
    BY <1>1, <1>6 DEF Counts, FailedCall
  <2>3. Last' <= sent' /\ pr'.marker <= sent'
    BY <1>6, <2>1, <2>2
  <2> QED
    BY <1>1, <1>4, <2>3 DEF Counts, FailedCall
<1>8. user.at = "connecting" => pr'.ready
  BY <1>1 DEF FailedCall, Ledger
<1>9. Ledger' /\ NeverTakenForVariable'
  BY <1>1, <1>4, <1>8 DEF Ledger, NeverTakenForVariable, FailedCall
<1>10. ASSUME ~uncounted' PROVE Flight'
  <2>1. UNCHANGED <<gpu, sent, uncounted>>
    BY <1>1, <1>10 DEF FailedCall
  <2>2. UNCHANGED <<gpu, sent, flips, screen, image>> /\ ~uncounted
    BY <1>2, <1>10, <2>1 DEF display
  <2>3. Flight
    BY <2>2 DEF FlightInv
  <2>4. user'.keeps = user.keeps
    BY <1>4, <2>2
  <2>5. \/ pr'.marker = pr.marker /\ pr'.immediate = pr.immediate /\ user'.keeps = user.keeps
        \/ Done /\ pr'.marker \in {0, pr.marker}
    <3>1. CASE pr'.marker = pr.marker
      BY <1>1, <2>4, <3>1 DEF FailedCall
    <3>2. CASE pr'.marker # pr.marker
      BY <1>1, <1>10, <2>3, <3>2, RetiresDone DEF FailedCall
    <3> QED
      BY <1>1, <3>1, <3>2 DEF FailedCall
  <2> QED
    BY <1>6, <2>2, <2>3, <2>5, FlightKept
<1> QED
  BY <1>5, <1>7, <1>9, <1>10 DEF FlightInv

LEMMA ShowLateStep == ASSUME AgcInv, ShowLate PROVE AgcInv'
<1> USE DEF AgcInv
<1>1. /\ user' = [user EXCEPT !.at = IF @ = "first" THEN "undo" ELSE "still", !.waits = FALSE]
      /\ uncounted' = TRUE /\ TimesOut
      /\ UNCHANGED <<asks, pr, held, output, gpu, display, sent>>
  BY DEF ShowLate
<1>2. user.at \in {"first", "connecting"} /\ user.waits = TRUE
  BY UserFields DEF ShowLate
<1>3. /\ user' \in Users /\ user'.at \in {"undo", "still"} /\ user'.waits = FALSE
      /\ user'.at = "still" => user.at = "connecting"
  <2> DEFINE a == IF user.at = "first" THEN "undo" ELSE "still"
  <2>1. a \in {"undo", "still"} /\ (a = "still" => user.at = "connecting")
    BY <1>2
  <2>2. PICK f \in BOOLEAN : f = FALSE
    OBVIOUS
  <2>3. user' = [user EXCEPT !.at = a, !.waits = f]
    BY <1>1, <2>2
  <2> HIDE DEF a
  <2> QED
    BY <2>1, <2>2, <2>3 DEF Typed, Users
<1>4. uncounted' \in BOOLEAN /\ rejected' \in BOOLEAN
  BY <1>1, RetiresTyped
<1>5. Typed'
  BY <1>1, <1>3, <1>4 DEF Typed, display
<1>6. Last' = pr.frame /\ Last = pr.frame + 1
  BY <1>1, <1>2, <1>3 DEF Last, Showing
<1>7. Counts'
  BY <1>1, <1>3, <1>6 DEF Counts, Typed, Presenters
<1>8. Ledger' /\ NeverTakenForVariable'
  BY <1>1, <1>3 DEF Ledger, NeverTakenForVariable
<1> QED
  BY <1>1, <1>5, <1>7, <1>8 DEF FlightInv

-----------------------------------------------------------------------------
(* Closing                                                                 *)

\* native_agc_present_shutdown gives everything back or keeps everything.
LEMMA ShutdownStep ==
  ASSUME AgcInv, Shutdown, ~user.waits, user' \in Users, ~user'.waits,
         user'.at \in {"ending", "off"},
         user'.keeps = user.keeps, Counted, UNCHANGED <<asks, gpu, sent>>
  PROVE  AgcInv'
<1> USE DEF AgcInv
<1>1. ~Showing /\ ~Showing' /\ Last = pr.frame
  BY DEF Last, Showing
<1>2. /\ rejected' \in BOOLEAN /\ uncounted' \in BOOLEAN
      /\ ~uncounted' => ~uncounted /\ ~Loses
  BY RetiresTyped, CountedKept DEF Shutdown
<1>3. CASE /\ Retires
           /\ held' = {} /\ pr' = NoPresenter
           /\ flips' = <<>> /\ screen' = Black /\ image' = NoImages
           /\ \E free \in {output.free, TRUE} : output' = [output EXCEPT !.free = free]
  <2>1. output' \in Outputs /\ (output'.active => output'.free)
    BY <1>3 DEF Typed, Outputs, NeverTakenForVariable
  <2>2. flips' \in Seq(Flips)
    BY <1>3
  <2>3. Typed'
    BY <1>2, <1>3, <2>1, <2>2, RecordTypes DEF Typed
  <2>4. pr'.frame = 0 /\ pr'.marker = 0 /\ ~pr'.ready /\ Last' = 0
    BY <1>1, <1>3 DEF NoPresenter, Last
  <2>5. Counts'
    BY <1>1, <2>4 DEF Counts, Typed
  <2>6. Ledger' /\ NeverTakenForVariable'
    BY <1>3, <2>1, <2>4 DEF Ledger, NeverTakenForVariable
  <2>7. ASSUME ~uncounted' PROVE Flight'
    <3>1. Flight /\ ~Loses
      BY <1>2, <2>7 DEF FlightInv
    <3>2. Done
      BY <1>3, <3>1, RetiresDone DEF Retires
    <3> QED
      BY <1>1, <1>3, <3>1, <3>2, FlightCleared
  <2> QED
    BY <2>3, <2>5, <2>6, <2>7 DEF FlightInv
<1>4. CASE TimesOut /\ UNCHANGED <<held, pr, flips, screen, image, output>>
  <2>1. Last' = Last
    BY <1>1, <1>4 DEF Last
  <2>2. Typed'
    BY <1>2, <1>4 DEF Typed
  <2>3. Counts'
    BY <1>4, <2>1 DEF Counts
  <2>4. pr.marker > 0
    BY <1>4, TimesOutPending
  <2>5. Ledger' /\ NeverTakenForVariable'
    BY <1>4, <2>4 DEF Ledger, NeverTakenForVariable
  <2>6. FlightInv'
    BY <1>1, <1>2, <1>4, <2>1, FlightKept DEF FlightInv
  <2> QED
    BY <2>2, <2>3, <2>5, <2>6
<1> QED
  BY <1>3, <1>4 DEF Shutdown

LEMMA UndoStep == ASSUME AgcInv, Undo PROVE AgcInv'
<1>1. /\ Shutdown /\ user' = [user EXCEPT !.at = "ending"] /\ user.at = "undo"
      /\ Counted /\ UNCHANGED <<asks, gpu, sent>>
  BY DEF Undo
<1>2. ~user.waits
  BY <1>1 DEF AgcInv, Counts
<1>3. /\ user' \in Users /\ user'.at = "ending" /\ user'.waits = user.waits
      /\ user'.keeps = user.keeps
  BY <1>1 DEF AgcInv, Typed, Users
<1> QED
  BY <1>1, <1>2, <1>3, ShutdownStep

LEMMA EndShutdownStep == ASSUME AgcInv, EndShutdown PROVE AgcInv'
<1>1. /\ Shutdown /\ user' = [user EXCEPT !.at = "off"] /\ user.at = "closing"
      /\ Counted /\ UNCHANGED <<asks, gpu, sent>>
  BY DEF EndShutdown
<1>2. ~user.waits
  BY <1>1 DEF AgcInv, Counts
<1>3. /\ user' \in Users /\ user'.at = "off" /\ user'.waits = user.waits
      /\ user'.keeps = user.keeps
  BY <1>1 DEF AgcInv, Typed, Users
<1> QED
  BY <1>1, <1>2, <1>3, ShutdownStep

\* Steps that only move the users on.
LEMMA MovesOn ==
  ASSUME AgcInv, UNCHANGED <<asks, pr, held, rejected, output, gpu, display, sent, uncounted>>,
         user' \in Users, ~user'.waits, ~Showing, user'.keeps = user.keeps,
         user'.at \in {"stream", "ending"}, user.at \in {"connecting", "still", "stream"}
  PROVE  AgcInv'
<1> USE DEF AgcInv
<1>1. ~Showing' /\ Last' = Last
  BY DEF Showing, Last
<1>2. Typed' /\ Counts'
  BY <1>1 DEF Typed, Counts, display
<1>3. Ledger' /\ NeverTakenForVariable'
  BY DEF Ledger, NeverTakenForVariable
<1>4. FlightInv'
  BY <1>1, FlightKept DEF FlightInv, display
<1> QED
  BY <1>2, <1>3, <1>4

LEMMA FirstPictureStep == ASSUME AgcInv, FirstPicture PROVE AgcInv'
<1>1. /\ user' = [user EXCEPT !.at = "stream"] /\ user.at \in {"connecting", "still"}
      /\ ~user.waits
      /\ UNCHANGED <<asks, pr, held, rejected, output, gpu, display, sent, uncounted>>
  BY DEF FirstPicture
<1>2. /\ user' \in Users /\ user'.at = "stream" /\ user'.waits = user.waits
      /\ user'.keeps = user.keeps
  BY <1>1 DEF AgcInv, Typed, Users
<1>3. ~Showing
  BY <1>1 DEF Showing
<1> QED
  BY <1>1, <1>2, <1>3, MovesOn

LEMMA EndStep == ASSUME AgcInv, End PROVE AgcInv'
<1>1. /\ user' = [user EXCEPT !.at = "ending", !.waits = FALSE]
      /\ user.at \in {"connecting", "still", "stream"} /\ (user.at = "connecting" => ~user.waits)
      /\ UNCHANGED <<asks, pr, held, rejected, output, gpu, display, sent, uncounted>>
  BY DEF End
<1>2. /\ user' \in Users /\ user'.at = "ending" /\ user'.waits = FALSE
      /\ user'.keeps = user.keeps
  <2>1. PICK f \in BOOLEAN : f = FALSE
    OBVIOUS
  <2>2. user' = [user EXCEPT !.at = "ending", !.waits = f]
    BY <1>1, <2>1
  <2> QED
    BY <2>1, <2>2 DEF AgcInv, Typed, Users
<1>3. ~Showing
  BY <1>1 DEF Showing
<1> QED
  BY <1>1, <1>2, <1>3, MovesOn

LEMMA EndFinishStep == ASSUME AgcInv, EndFinish PROVE AgcInv'
<1> USE DEF AgcInv
<1>1. /\ Counted /\ UNCHANGED <<asks, held, output, gpu, display, sent>>
      /\ user.at = "ending"
  BY DEF EndFinish
<1>2. ~user.waits /\ ~Showing
  BY <1>1 DEF Counts, Showing
<1>3. /\ rejected' \in BOOLEAN /\ uncounted' \in BOOLEAN
      /\ ~uncounted' => ~uncounted /\ ~Loses
  BY <1>1, RetiresTyped, CountedKept DEF EndFinish
<1>4. CASE Retires /\ pr' = Retired /\ user' = [user EXCEPT !.at = "closing", !.keeps = {}]
  <2>1. /\ pr' \in Presenters /\ pr'.ready = pr.ready /\ pr'.frame = pr.frame
        /\ pr'.marker = 0 /\ pr'.immediate = pr.immediate
    BY <1>4, PresenterFields
  <2>2. user' \in Users /\ user'.at = "closing" /\ user'.waits = user.waits
    <3>1. {} \in SUBSET (1..MaxSent)
      OBVIOUS
    <3> QED
      BY <1>4, <3>1 DEF Typed, Users
  <2>3. ~Showing' /\ Last' = Last
    BY <1>2, <2>1, <2>2 DEF Showing, Last
  <2>4. Typed'
    BY <1>1, <1>3, <2>1, <2>2 DEF Typed, display
  <2>5. Counts'
    BY <1>1, <1>2, <2>1, <2>2, <2>3 DEF Counts, Typed
  <2>6. Ledger' /\ NeverTakenForVariable'
    BY <1>1, <2>1, <2>2 DEF Ledger, NeverTakenForVariable
  <2>7. ASSUME ~uncounted' PROVE Flight'
    <3>1. Flight /\ ~Loses
      BY <1>3, <2>7 DEF FlightInv
    <3>2. Done
      BY <1>4, <3>1, RetiresDone DEF Retires
    <3> QED
      BY <1>1, <2>1, <2>3, <3>1, <3>2, FlightKept DEF display
  <2> QED
    BY <2>4, <2>5, <2>6, <2>7 DEF FlightInv
<1>5. CASE TimesOut /\ UNCHANGED pr /\ user' = [user EXCEPT !.at = "closing"]
  <2>1. user' \in Users /\ user'.at = "closing" /\ user'.waits = user.waits
        /\ user'.keeps = user.keeps
    BY <1>5 DEF Typed, Users
  <2>2. ~Showing' /\ Last' = Last
    BY <1>2, <1>5, <2>1 DEF Showing, Last
  <2>3. Typed' /\ Counts'
    BY <1>1, <1>2, <1>3, <1>5, <2>1, <2>2 DEF Typed, Counts, display
  <2>4. Ledger' /\ NeverTakenForVariable'
    BY <1>1, <1>5, <2>1 DEF Ledger, NeverTakenForVariable
  <2>5. FlightInv'
    BY <1>1, <1>2, <1>3, <1>5, <2>1, <2>2, FlightKept DEF FlightInv, display
  <2> QED
    BY <2>3, <2>4, <2>5
<1> QED
  BY <1>4, <1>5 DEF EndFinish

-----------------------------------------------------------------------------
(* The stream's presentation thread                                        *)

LEMMA PictureStep == ASSUME AgcInv, Picture PROVE AgcInv'
<1> USE DEF AgcInv
<1>1. /\ user' = [user EXCEPT !.waits = TRUE, !.keeps = @ \union {sent'}]
      /\ UNCHANGED <<asks, held, output, display, uncounted>> /\ Reported
      /\ user.at = "stream" /\ user.waits = FALSE
  BY UserFields DEF Picture, Running
<1>2. PICK i \in BOOLEAN : /\ Submits(i) /\ pr' = [Pending(i) EXCEPT !.frame = @ + 1]
                           /\ rejected' \in BOOLEAN
  <2>1. Immediate \in BOOLEAN /\ rejected \in BOOLEAN
    BY DEF Immediate, Typed
  <2>2. CASE /\ UNCHANGED rejected /\ Submits(Immediate)
             /\ pr' = [Pending(Immediate) EXCEPT !.frame = @ + 1]
    BY <2>1, <2>2
  <2>3. CASE /\ Immediate /\ rejected' = TRUE /\ Submits(FALSE)
             /\ pr' = [Pending(FALSE) EXCEPT !.frame = @ + 1]
    BY <2>3
  <2> QED
    BY <2>2, <2>3 DEF Picture
<1>3. gpu' \in Seq(Submissions) /\ sent' = sent + 1 /\ sent' \in 1..MaxSent
  BY <1>2, SubmitsTyped
<1>4. /\ pr' \in Presenters /\ pr'.ready = TRUE /\ pr'.frame = pr.frame + 1
      /\ pr'.marker = pr.frame + 1 /\ pr'.immediate = i
  <2>1. /\ Pending(i) \in Presenters /\ Pending(i).ready = TRUE
        /\ Pending(i).frame = pr.frame /\ Pending(i).marker = pr.frame + 1
        /\ Pending(i).immediate = i
    BY PresenterFields
  <2> QED
    BY <1>2, <2>1, CountedFields
<1>5. /\ user' \in Users /\ user'.at = "stream" /\ user'.waits = TRUE
      /\ user'.keeps = user.keeps \union {sent'}
  <2>1. PICK t \in BOOLEAN : t = TRUE
    OBVIOUS
  <2>2. user.keeps \union {sent'} \in SUBSET (1..MaxSent)
    BY <1>3, UserFields
  <2>3. user' = [user EXCEPT !.waits = t, !.keeps = user.keeps \union {sent'}]
    BY <1>1, <2>1
  <2> QED
    BY <1>1, <2>1, <2>2, <2>3 DEF Typed, Users
<1>6. Typed'
  <2>1. sent' \in 0..MaxSent
    BY <1>3
  <2> QED
    BY <1>1, <1>2, <1>3, <1>4, <1>5, <2>1 DEF Typed, display
<1>7. ~Showing /\ ~Showing' /\ Last = pr.frame /\ Last' = pr.frame + 1
  BY <1>1, <1>4, <1>5 DEF Last, Showing
<1>8. pr.frame \in Nat /\ sent \in Nat /\ pr.frame <= sent
  BY <1>7 DEF Counts, Typed, Presenters
<1>9. Counts'
  BY <1>3, <1>4, <1>5, <1>7, <1>8 DEF Counts
<1>10. Ledger' /\ NeverTakenForVariable'
  BY <1>1, <1>4, <1>5 DEF Ledger, NeverTakenForVariable
<1>11. ASSUME ~uncounted' PROVE Flight'
  <2>1. Flight
    BY <1>1, <1>11 DEF FlightInv
  <2>2. Done
    BY <1>1, <2>1, ReportedDone
  <2>3. sent' \in user'.keeps
    BY <1>5
  <2> QED
    BY <1>1, <1>2, <1>4, <1>7, <2>1, <2>2, <2>3, FlightSubmitted DEF display
<1> QED
  BY <1>6, <1>9, <1>10, <1>11 DEF FlightInv

\* One more failure of a presentation, while they are not too many.
LEMMA FailureCounted ==
  ASSUME Typed, Running, user' = [user EXCEPT !.failures = @ + 1]
  PROVE  /\ user' \in Users /\ user'.at = user.at /\ user'.waits = user.waits
         /\ user'.keeps = user.keeps
<1>1. user.failures + 1 \in 0..FailureLimit
  BY UserFields, PresenterAssumption DEF Running
<1> QED
  BY <1>1 DEF Typed, Users

LEMMA PictureFailsStep == ASSUME AgcInv, PictureFails PROVE AgcInv'
<1> USE DEF AgcInv
<1>1. /\ user' = [user EXCEPT !.failures = @ + 1] /\ Running
      /\ UNCHANGED <<asks, held, output, display>> /\ ~user.waits /\ user.at = "stream"
  BY DEF PictureFails, Running
<1>2. /\ user' \in Users /\ user'.at = user.at /\ user'.waits = user.waits
      /\ user'.keeps = user.keeps
  BY <1>1, FailureCounted
<1>3. pr.ready
  BY <1>1 DEF Ledger
<1>4. ~Showing /\ ~Showing' /\ Last = pr.frame
  BY <1>1, <1>2 DEF Showing, Last
<1>5. pr.frame \in Nat /\ sent \in Nat /\ pr.frame <= sent
  BY <1>4 DEF Counts, Typed, Presenters
<1>6. CASE Reported /\ rejected' \in {rejected, rejected \/ Immediate} /\ Refusal
  <2>1. /\ gpu' \in Seq(Submissions) /\ sent' \in 0..MaxSent /\ sent <= sent'
        /\ uncounted' \in BOOLEAN /\ (uncounted => uncounted')
        /\ ~uncounted' => UNCHANGED <<gpu, sent, uncounted>>
        /\ pr' \in Presenters /\ pr'.ready = TRUE /\ pr'.frame = pr.frame
        /\ pr'.marker = 0 /\ pr'.immediate = pr.immediate
    BY <1>6, RefusalKeeps
  <2>2. rejected' \in BOOLEAN
    BY <1>6 DEF Typed, Immediate
  <2>3. Typed'
    BY <1>1, <1>2, <2>1, <2>2 DEF Typed, display
  <2>4. Last' = pr.frame
    BY <1>4, <2>1 DEF Last
  <2>5. Counts'
    BY <1>1, <1>2, <1>5, <2>1, <2>4 DEF Counts
  <2>6. Ledger' /\ NeverTakenForVariable'
    BY <1>1, <1>2, <1>3, <2>1 DEF Ledger, NeverTakenForVariable
  <2>7. ASSUME ~uncounted' PROVE Flight'
    <3>1. UNCHANGED <<gpu, sent, uncounted>>
      BY <2>1, <2>7
    <3>2. Flight
      BY <2>1, <2>7 DEF FlightInv
    <3>3. Done
      BY <1>6, <3>2, ReportedDone
    <3> QED
      BY <1>1, <1>4, <2>1, <2>4, <3>1, <3>2, <3>3, FlightKept DEF display
  <2> QED
    BY <2>3, <2>5, <2>6, <2>7 DEF FlightInv
<1>7. CASE TimesOut /\ UNCHANGED <<pr, gpu, sent, uncounted>>
  <2>1. rejected' \in BOOLEAN
    BY <1>7, RetiresTyped
  <2>2. Last' = Last
    BY <1>4, <1>7 DEF Last
  <2>3. Typed' /\ Counts'
    BY <1>1, <1>2, <1>7, <2>1, <2>2 DEF Typed, Counts, display
  <2>4. Ledger' /\ NeverTakenForVariable'
    BY <1>1, <1>2, <1>7 DEF Ledger, NeverTakenForVariable
  <2>5. FlightInv'
    BY <1>1, <1>2, <1>4, <1>7, <2>2, FlightKept DEF FlightInv, display
  <2> QED
    BY <2>3, <2>4, <2>5
<1> QED
  BY <1>6, <1>7 DEF PictureFails

LEMMA CompleteStep == ASSUME AgcInv, Complete PROVE AgcInv'
<1> USE DEF AgcInv
<1>1. /\ Counted /\ UNCHANGED <<asks, held, output, gpu, display, sent>>
      /\ user.waits = TRUE /\ user.at = "stream" /\ Running
  BY UserFields DEF Complete, Running
<1>2. /\ rejected' \in BOOLEAN /\ uncounted' \in BOOLEAN
      /\ ~uncounted' => ~uncounted /\ ~Loses
  BY <1>1, RetiresTyped, CountedKept DEF Complete
<1>3. CASE /\ Retires /\ pr' = Retired
           /\ user' = [user EXCEPT !.waits = FALSE, !.keeps = @ \ {sent}, !.failures = 0,
                                   !.shown = TRUE]
  <2>1. /\ pr' \in Presenters /\ pr'.ready = pr.ready /\ pr'.frame = pr.frame
        /\ pr'.marker = 0 /\ pr'.immediate = pr.immediate
    BY <1>3, PresenterFields
  <2>2. user' \in Users /\ user'.at = "stream" /\ user'.waits = FALSE
    <3>1. PICK f \in BOOLEAN, t \in BOOLEAN : f = FALSE /\ t = TRUE
      OBVIOUS
    <3>2. 0 \in 0..FailureLimit
      BY PresenterAssumption
    <3>3. PICK n \in 0..FailureLimit : n = 0
      BY <3>2
    <3>4. user.keeps \ {sent} \in SUBSET (1..MaxSent)
      BY UserFields
    <3>5. user' = [user EXCEPT !.waits = f, !.keeps = user.keeps \ {sent}, !.failures = n,
                               !.shown = t]
      BY <1>3, <3>1, <3>3
    <3>6. user' \in Users
      BY <3>4, <3>5 DEF Typed, Users
    <3> QED
      BY <1>1, <3>1, <3>5, <3>6 DEF Typed, Users
  <2>3. ~Showing /\ ~Showing' /\ Last' = Last
    BY <1>1, <2>1, <2>2 DEF Showing, Last
  <2>4. Typed'
    BY <1>1, <1>2, <2>1, <2>2 DEF Typed, display
  <2>5. Counts'
    BY <1>1, <2>1, <2>2, <2>3 DEF Counts, Typed
  <2>6. Ledger' /\ NeverTakenForVariable'
    BY <1>1, <2>1, <2>2 DEF Ledger, NeverTakenForVariable
  <2>7. ASSUME ~uncounted' PROVE Flight'
    <3>1. Flight /\ ~Loses
      BY <1>2, <2>7 DEF FlightInv
    <3>2. Done
      BY <1>3, <3>1, RetiresDone DEF Retires
    <3> QED
      BY <1>1, <2>1, <2>3, <3>1, <3>2, FlightKept DEF display
  <2> QED
    BY <2>4, <2>5, <2>6, <2>7 DEF FlightInv
<1>4. CASE TimesOut /\ UNCHANGED pr /\ user' = [user EXCEPT !.failures = @ + 1]
  <2>1. /\ user' \in Users /\ user'.at = user.at /\ user'.waits = user.waits
        /\ user'.keeps = user.keeps
    BY <1>1, <1>4, FailureCounted
  <2>2. ~Showing /\ ~Showing' /\ Last' = Last
    BY <1>1, <1>4, <2>1 DEF Showing, Last
  <2>3. Typed' /\ Counts'
    BY <1>1, <1>2, <1>4, <2>1, <2>2 DEF Typed, Counts, display
  <2>4. Ledger' /\ NeverTakenForVariable'
    BY <1>1, <1>4, <2>1 DEF Ledger, NeverTakenForVariable
  <2>5. FlightInv'
    BY <1>1, <1>2, <1>4, <2>1, <2>2, FlightKept DEF FlightInv, display
  <2> QED
    BY <2>3, <2>4, <2>5
<1> QED
  BY <1>3, <1>4 DEF Complete

LEMMA RepeatStep == ASSUME AgcInv, Repeat PROVE AgcInv'
<1> USE DEF AgcInv
<1>1. /\ UNCHANGED <<user, asks, pr, held, rejected, output, gpu, screen, image, sent, uncounted>>
      /\ user.at = "stream" /\ pr.frame > 0 /\ pr.marker = 0 /\ flips = <<>>
      /\ flips' = <<[buffer |-> (pr.frame - 1) % 2, marker |-> screen.marker, immediate |-> FALSE]>>
  BY DEF Repeat, Running
<1>2. pr.frame \in Nat /\ screen.marker \in Nat
  BY DEF Typed, Presenters
<1>3. (pr.frame - 1) % 2 = (pr.frame + 1) % 2 /\ (pr.frame + 1) % 2 \in {0, 1}
  BY <1>1, <1>2, Parity
<1>4. flips' \in Seq(Flips)
  <2>1. PICK f \in BOOLEAN : f = FALSE
    OBVIOUS
  <2>2. [buffer |-> (pr.frame - 1) % 2, marker |-> screen.marker, immediate |-> f] \in Flips
    BY <1>2, <1>3 DEF Flips
  <2>3. PICK x \in Flips :
          x = [buffer |-> (pr.frame - 1) % 2, marker |-> screen.marker, immediate |-> FALSE]
    BY <2>1, <2>2
  <2>4. flips' = <<x>>
    BY <1>1, <2>3
  <2> QED
    BY <2>4
<1>5. Typed'
  BY <1>1, <1>4 DEF Typed
<1>6. ~Showing /\ ~Showing' /\ Last = pr.frame /\ Last' = Last
  BY <1>1 DEF Showing, Last
<1>7. Counts'
  BY <1>1, <1>6 DEF Counts
<1>8. Ledger' /\ NeverTakenForVariable'
  BY <1>1 DEF Ledger, NeverTakenForVariable
<1>9. ASSUME ~uncounted' PROVE Flight'
  <2>1. Flight
    BY <1>1, <1>9 DEF FlightInv
  <2>2. Done
    BY <1>1, <1>2, <2>1, ReportedDone DEF Reported
  <2>3. screen.buffer = Into /\ Into = (pr.frame + 1) % 2 /\ gpu = <<>>
    BY <1>1, <1>6, <2>2 DEF Done, Into
  <2>4. Done' /\ ~Queued' /\ Into' = Into
    BY <1>1, <1>6, <2>3 DEF Done, Queued, Into
  <2>5. flips'[1] = Again' /\ Len(flips') = 1
    BY <1>1, <1>3, <2>3 DEF Again
  <2>6. \A i \in 1..Repeated' : flips'[i] = Again'
    BY <2>4, <2>5 DEF Repeated
  <2>7. gpu' = <<>> /\ Last' # 0
    BY <1>1, <1>2, <1>6, <2>3
  <2> HIDE DEF Showing
  <2> QED
    BY <1>1, <1>6, <2>1, <2>4, <2>6, <2>7 DEF Flight
<1> QED
  BY <1>5, <1>7, <1>8, <1>9 DEF FlightInv

-----------------------------------------------------------------------------
(* The GPU and VideoOut                                                    *)

LEMMA GpuFinishesStep == ASSUME AgcInv, GpuFinishes PROVE AgcInv'
<1> USE DEF AgcInv
<1> DEFINE g == Head(gpu)
           f == [buffer |-> g.buffer, marker |-> g.marker, immediate |-> g.immediate]
<1>1. /\ UNCHANGED <<user, asks, pr, held, rejected, output, screen, sent, uncounted>>
      /\ gpu # <<>> /\ gpu' = Tail(gpu)
      /\ IF "registered" \in held
         THEN image' = [image EXCEPT ![g.buffer] = g.picture] /\ flips' = Append(flips, f)
         ELSE UNCHANGED <<image, flips>>
  BY DEF GpuFinishes
<1>2. g \in Submissions /\ gpu' \in Seq(Submissions)
  BY <1>1, HeadTailProperties DEF Typed
<1>3. f \in Flips
  BY <1>2 DEF Submissions, Flips
<1>4. Append(flips, f) \in Seq(Flips)
  BY <1>3, AppendProperties DEF Typed
<1>5. [image EXCEPT ![g.buffer] = g.picture] \in [{0, 1} -> Nat]
  BY <1>2 DEF Typed, Submissions
<1>6. Typed'
  BY <1>1, <1>2, <1>4, <1>5 DEF Typed
<1>7. (Showing' <=> Showing) /\ Last' = Last /\ Into' = Into
  BY <1>1 DEF Showing, Last, Into
<1>8. Counts'
  BY <1>1, <1>7 DEF Counts
<1>9. Ledger' /\ NeverTakenForVariable'
  BY <1>1 DEF Ledger, NeverTakenForVariable
<1>10. ASSUME ~uncounted' PROVE Flight'
  <2>1. Flight
    BY <1>1, <1>10 DEF FlightInv
  <2>2. ~Done /\ ~Queued
    BY <1>1 DEF Done, Queued
  <2>3. /\ gpu = <<[buffer |-> Into, marker |-> Last, immediate |-> pr.immediate,
                    picture |-> sent]>>
        /\ pr.marker = Last /\ screen.marker < Last /\ screen.buffer # Into
        /\ sent \in user.keeps
    BY <1>1, <2>1, <2>2 DEF Flight
  <2>4. g = [buffer |-> Into, marker |-> Last, immediate |-> pr.immediate, picture |-> sent]
        /\ gpu' = <<>>
    BY <1>1, <2>3
  <2>5. Last \in Nat /\ Into \in {0, 1} /\ screen.marker \in Nat /\ sent \in Nat
    BY LastNat DEF Typed
  <2>6. Last # 0
    BY <2>3, <2>5
  <2>7. ~Done' /\ Queued'
    BY <1>1, <1>7, <2>3, <2>4, <2>6 DEF Done, Queued
  <2>8. "registered" \in held
    <3>1. pr.marker # 0
      BY <2>3, <2>6
    <3>2. pr.ready
      BY <3>1 DEF Counts
    <3>3. "registered" \in Acquired(7) \ {"flip queue"}
      <4>1. 7 \in 1..7 /\ Stages[7] = "registered"
        BY DEF Stages
      <4>2. "registered" \in Acquired(7)
        BY <4>1 DEF Acquired
      <4> QED
        BY <4>2
    <3> QED
      BY <3>2, <3>3 DEF Ledger
  <2>9. f = [buffer |-> Into, marker |-> Last, immediate |-> pr.immediate]
    BY <2>4
  <2> DEFINE n == Len(flips)
  <2>10. n \in Nat /\ flips \in Seq(Flips)
    BY LenProperties DEF Typed
  <2>11. flips' = Append(flips, f)
    BY <1>1, <2>8
  <2> HIDE DEF f
  <2>12. Len(flips') = n + 1 /\ flips'[n + 1] = f /\ \A i \in 1..n : flips'[i] = flips[i]
    BY <1>3, <2>10, <2>11, AppendProperties
  <2> HIDE DEF n
  <2>13. Repeated = n /\ Repeated' = n
    BY <2>2, <2>7, <2>10, <2>12 DEF Repeated, n
  <2>14. Again' = Again
    BY <1>1 DEF Again
  <2>15. \A i \in 1..Repeated' : flips'[i] = Again'
    BY <2>1, <2>12, <2>13, <2>14 DEF Flight
  <2>16. image' = [image EXCEPT ![Into] = sent]
    BY <1>1, <2>4, <2>8
  <2>17. image'[Into] = sent /\ \A b \in {0, 1} : image'[b] <= sent
    BY <2>1, <2>5, <2>16 DEF Flight, Typed
  <2>18. flips' # <<>> /\ flips'[Len(flips')] = f
    BY <2>10, <2>12, EmptySeq
  <2> HIDE DEF Showing
  <2> QED
    BY <1>1, <1>7, <2>1, <2>3, <2>4, <2>6, <2>7, <2>9, <2>15, <2>17, <2>18 DEF Flight
<1> QED
  BY <1>6, <1>8, <1>9, <1>10 DEF FlightInv

LEMMA DisplayShowsStep == ASSUME AgcInv, DisplayShows PROVE AgcInv'
<1> USE DEF AgcInv
<1> DEFINE f == Head(flips)
<1>1. /\ UNCHANGED <<user, asks, pr, held, rejected, output, gpu, image, sent, uncounted>>
      /\ flips # <<>> /\ flips' = Tail(flips)
      /\ \/ screen' = [buffer |-> f.buffer, marker |-> f.marker]
         \/ screen' = [buffer |-> f.buffer,
                       marker |-> IF f.immediate THEN screen.marker ELSE f.marker]
  BY DEF DisplayShows
<1> DEFINE n == Len(flips)
<1>2. flips \in Seq(Flips) /\ n \in Nat
  BY LenProperties DEF Typed
<1>3. f \in Flips /\ flips' \in Seq(Flips) /\ Len(flips') = n - 1 /\ f = flips[1]
  BY <1>1, <1>2, HeadTailProperties
<1>4. \A i \in 1..(n - 1) : flips'[i] = flips[i + 1]
  BY <1>1, <1>2, HeadTailProperties
<1>5. n >= 1
  BY <1>1, <1>2, EmptySeq
<1>6. /\ screen'.buffer = f.buffer /\ screen'.marker \in {f.marker, screen.marker}
      /\ ~f.immediate => screen'.marker = f.marker
      /\ screen' \in [buffer : 0..2, marker : Nat]
      /\ screen' = [buffer |-> screen'.buffer, marker |-> screen'.marker]
  BY <1>1, <1>3 DEF Flips, Typed
<1> HIDE DEF f, n
<1>7. Typed'
  BY <1>1, <1>3, <1>6 DEF Typed
<1>8. (Showing' <=> Showing) /\ Last' = Last /\ Into' = Into
  BY <1>1 DEF Showing, Last, Into
<1>9. Counts'
  BY <1>1, <1>8 DEF Counts
<1>10. Ledger' /\ NeverTakenForVariable'
  BY <1>1 DEF Ledger, NeverTakenForVariable
<1>11. ASSUME ~uncounted' PROVE Flight'
  <2>1. Flight
    BY <1>1, <1>11 DEF FlightInv
  <2>2. Last \in Nat /\ Into \in {0, 1} /\ screen.marker \in Nat
    BY LastNat DEF Typed
  <2>3. Last # 0
    BY <1>1, <2>1 DEF Flight
  <2>4. screen \in [buffer : 0..2, marker : Nat]
    BY DEF Typed
  <2> HIDE DEF Showing
  <2>5. CASE Queued /\ n = 1
    <3>1. f = [buffer |-> Into, marker |-> Last, immediate |-> pr.immediate] /\ gpu = <<>>
      BY <1>3, <2>1, <2>5 DEF Flight, Queued, n
    <3>2. Done' /\ ~Queued'
      BY <1>1, <1>6, <1>8, <3>1 DEF Done, Queued
    <3>3. screen'.marker <= Last /\ gpu' = <<>>
      BY <1>1, <1>6, <2>1, <2>2, <3>1 DEF Flight
    <3>4. Repeated' = 0
      <4>1. Repeated' = Len(flips') - 0
        BY <3>2 DEF Repeated
      <4>2. Len(flips') = 0
        BY <1>3, <2>5
      <4> QED
        BY <4>1, <4>2
    <3>5. \A i \in 1..Repeated' : flips'[i] = Again'
      BY <3>4
    <3> QED
      BY <1>1, <1>8, <2>1, <2>3, <3>2, <3>3, <3>5 DEF Flight
  <2>6. CASE ~(Queued /\ n = 1)
    <3>1. 1 \in 1..Repeated
      <4>1. CASE Queued
        <5>1. n # 1
          BY <2>6, <4>1
        <5>2. Repeated = n - 1
          BY <4>1 DEF Repeated, n
        <5> QED
          BY <1>2, <1>5, <5>1, <5>2
      <4>2. CASE ~Queued
        BY <1>2, <1>5, <4>2 DEF Repeated, n
      <4> QED
        BY <4>1, <4>2
    <3>2. f = Again
      BY <1>3, <2>1, <3>1 DEF Flight
    <3>3. screen' = screen
      <4>1. screen'.buffer = screen.buffer /\ screen'.marker = screen.marker
        BY <1>6, <3>2 DEF Again
      <4>2. screen = [buffer |-> screen.buffer, marker |-> screen.marker]
        BY <2>4
      <4> QED
        BY <1>6, <4>1, <4>2
    <3>4. (Done' <=> Done) /\ (Queued' <=> Queued) /\ Again' = Again
      BY <1>1, <1>8, <3>3 DEF Done, Queued, Again
    <3>5. Repeated \in Int /\ Repeated' = Repeated - 1 /\ Repeated <= n
      BY <1>2, <1>3, <3>4 DEF Repeated, n
    <3>6. \A i \in 1..Repeated' : flips'[i] = Again'
      <4> SUFFICES ASSUME NEW i \in 1..Repeated' PROVE flips'[i] = Again'
        OBVIOUS
      <4>1. i + 1 \in 1..Repeated /\ i \in 1..(n - 1)
        BY <1>2, <3>5
      <4>2. flips[i + 1] = Again
        BY <2>1, <4>1 DEF Flight
      <4> QED
        BY <1>4, <3>4, <4>1, <4>2
    <3>7. Queued => /\ flips' # <<>>
                    /\ flips'[Len(flips')] = [buffer |-> Into, marker |-> Last,
                                              immediate |-> pr.immediate]
      <4> SUFFICES ASSUME Queued
                   PROVE  /\ flips' # <<>>
                          /\ flips'[Len(flips')] = [buffer |-> Into, marker |-> Last,
                                                    immediate |-> pr.immediate]
        OBVIOUS
      <4>1. n >= 2
        BY <1>2, <1>5, <2>6
      <4>2. n - 1 \in 1..(n - 1) /\ n - 1 + 1 = n
        BY <1>2, <4>1
      <4>3. flips'[n - 1] = flips[n]
        BY <1>4, <4>2
      <4>4. flips[n] = [buffer |-> Into, marker |-> Last, immediate |-> pr.immediate]
        BY <2>1 DEF Flight, n
      <4> QED
        BY <1>3, <4>2, <4>3, <4>4, EmptySeq
    <3> QED
      BY <1>1, <1>8, <2>1, <2>3, <3>3, <3>4, <3>6, <3>7 DEF Flight
  <2> QED
    BY <2>5, <2>6
<1> QED
  BY <1>7, <1>9, <1>10, <1>11 DEF FlightInv

-----------------------------------------------------------------------------

LEMMA AgcInit == ASSUME Init PROVE AgcInv
<1>1. user \in Users /\ user.at = "off" /\ user.waits = FALSE
  <2>1. PICK f \in BOOLEAN : f = FALSE
    OBVIOUS
  <2>2. 0 \in 0..FailureLimit /\ {} \in SUBSET (1..MaxSent)
    BY PresenterAssumption
  <2>3. user = [at |-> "off", sessions |-> 0, waits |-> f, keeps |-> {}, failures |-> 0,
                shown |-> f]
    BY <2>1 DEF Init
  <2> QED
    BY <2>1, <2>2, <2>3 DEF Users
<1>2. asks \in [vrr : BOOLEAN, vsync : BOOLEAN, mode : Modes]
  <2>1. PICK f \in BOOLEAN : f = FALSE
    OBVIOUS
  <2>2. asks = [vrr |-> f, vsync |-> f, mode |-> "sdr60"]
    BY <2>1 DEF Init
  <2> QED
    BY <2>2 DEF Modes
<1>3. output \in Outputs /\ output.active = FALSE
  BY DEF Init, Outputs
<1>4. gpu \in Seq(Submissions) /\ flips \in Seq(Flips) /\ sent \in 0..MaxSent
  BY PresenterAssumption DEF Init
<1>5. /\ pr = NoPresenter /\ held = {} /\ rejected = FALSE /\ screen = Black
      /\ image = NoImages /\ uncounted = FALSE /\ gpu = <<>> /\ flips = <<>> /\ sent = 0
  BY DEF Init
<1>6. Typed
  BY <1>1, <1>2, <1>3, <1>4, <1>5, RecordTypes DEF Typed
<1>7. ~Showing /\ Last = 0 /\ pr.frame = 0 /\ pr.marker = 0 /\ pr.ready = FALSE
  BY <1>1, <1>5 DEF Showing, Last, NoPresenter
<1>8. Counts /\ Ledger /\ NeverTakenForVariable
  <2>1. Counts
    BY <1>1, <1>5, <1>7 DEF Counts
  <2>2. Ledger
    BY <1>1, <1>5, <1>7 DEF Ledger
  <2> QED
    BY <1>3, <2>1, <2>2 DEF NeverTakenForVariable
<1>9. Done /\ ~Queued
  BY <1>5, <1>7 DEF Done, Queued
<1>10. Repeated = 0
  BY <1>5, <1>9, EmptySeq DEF Repeated
<1>11. screen.marker = 0 /\ \A b \in {0, 1} : image[b] <= sent
  BY <1>5 DEF Black, NoImages
<1>12. \A i \in 1..Repeated : flips[i] = Again
  BY <1>10
<1>13. Flight
  BY <1>5, <1>7, <1>9, <1>11, <1>12 DEF Flight
<1> QED
  BY <1>6, <1>8, <1>13 DEF AgcInv, FlightInv

LEMMA AgcStep == AgcInv /\ [Next]_agcVars => AgcInv'
<1> SUFFICES ASSUME AgcInv, [Next]_agcVars PROVE AgcInv'
  OBVIOUS
<1>1. CASE UNCHANGED agcVars
  <2>1. (Showing' <=> Showing) /\ Last' = Last /\ Into' = Into
    BY <1>1 DEF agcVars, Showing, Last, Into
  <2>2. (Done' <=> Done) /\ (Queued' <=> Queued) /\ Again' = Again /\ Repeated' = Repeated
    BY <1>1, <2>1 DEF agcVars, Done, Queued, Again, Repeated
  <2>3. Typed' /\ Ledger' /\ NeverTakenForVariable'
    BY <1>1 DEF agcVars, AgcInv, Typed, Ledger, NeverTakenForVariable
  <2>4. Counts'
    BY <1>1, <2>1 DEF agcVars, AgcInv, Counts
  <2> HIDE DEF Showing
  <2>5. FlightInv'
    BY <1>1, <2>1, <2>2 DEF agcVars, AgcInv, FlightInv, Flight
  <2> QED
    BY <2>3, <2>4, <2>5 DEF AgcInv
<1> QED
  BY <1>1, BeginStep, ShowStep, ShowReturnsStep, ShowFailsStep, ShowLateStep, UndoStep,
     FirstPictureStep, PictureStep, PictureFailsStep, CompleteStep, RepeatStep, EndStep,
     EndFinishStep, EndShutdownStep, GpuFinishesStep, DisplayShowsStep DEF Next

\* A picture on its way is the only one, and its buffer neither shown nor queued.
LEMMA FlightSafe ==
  ASSUME AgcInv, Flight
  PROVE  Untorn /\ Exclusive /\ Forward
<1> USE DEF AgcInv
<1>1. Last \in Nat /\ Into \in {0, 1} /\ screen.marker \in Nat /\ sent \in Nat
  BY LastNat DEF Typed
<1> DEFINE n == Len(flips)
<1>2. n \in Nat /\ \A i \in 1..n : flips[i] \in Flips
  BY LenProperties, ElementOfSeq DEF Typed
<1>3. gpu # <<>> => ~Done /\ ~Queued
  BY DEF Done, Queued
<1>4. \A i \in 1..n : flips[i].buffer = screen.buffer \/ (Queued /\ i = n /\ flips[i].buffer = Into)
  <2> SUFFICES ASSUME NEW i \in 1..n
               PROVE  flips[i].buffer = screen.buffer
                        \/ (Queued /\ i = n /\ flips[i].buffer = Into)
    OBVIOUS
  <2>1. CASE i \in 1..Repeated
    BY <2>1 DEF Flight, Again
  <2>2. CASE i \notin 1..Repeated
    <3>1. Queued /\ i = n
      BY <1>2, <2>2 DEF Repeated
    <3> QED
      BY <3>1 DEF Flight
  <2> QED
    BY <2>1, <2>2
<1>5. CASE gpu = <<>>
  <2>1. Len(gpu) = 0
    BY <1>5, EmptySeq
  <2>2. Untorn /\ Exclusive
    BY <2>1 DEF Untorn, Exclusive
  <2>3. Shown(screen.buffer) <= sent
    BY <1>1 DEF Shown, Flight
  <2>4. ASSUME NEW i \in 1..n
        PROVE  Shown(flips[i].buffer) = Shown(screen.buffer) \/ (i = n /\ Shown(flips[i].buffer) = sent)
    BY <1>1, <1>4 DEF Shown, Flight
  <2>5. Shown(screen.buffer) \in Nat
    BY DEF Shown, Typed
  <2> HIDE DEF n, Shown
  <2>6. ASSUME NEW i \in 1..n
        PROVE  /\ Shown(screen.buffer) <= Shown(flips[i].buffer)
               /\ \A j \in 1..i : Shown(flips[j].buffer) <= Shown(flips[i].buffer)
    <3>1. Shown(screen.buffer) <= Shown(flips[i].buffer)
      BY <1>1, <2>3, <2>4, <2>5
    <3>2. ASSUME NEW j \in 1..i
          PROVE  Shown(flips[j].buffer) <= Shown(flips[i].buffer)
      <4>1. j \in 1..n /\ (j = n => j = i)
        BY <1>2
      <4> QED
        BY <1>1, <2>3, <2>4, <2>5, <3>1, <4>1
    <3> QED
      BY <3>1, <3>2
  <2> QED
    BY <2>2, <2>6 DEF Forward, n
<1>6. CASE gpu # <<>>
  <2>1. /\ gpu = <<[buffer |-> Into, marker |-> Last, immediate |-> pr.immediate,
                    picture |-> sent]>>
        /\ pr.marker = Last /\ screen.marker < Last /\ screen.buffer # Into
        /\ sent \in user.keeps /\ ~Queued
    BY <1>3, <1>6 DEF Flight
  <2>2. Len(gpu) = 1 /\ gpu[1].buffer = Into /\ gpu[1].marker = pr.marker /\ gpu[1].picture = sent
    BY <2>1
  <2>3. \A i \in 1..n : flips[i].buffer = screen.buffer
    BY <1>4, <2>1
  <2>4. Untorn
    BY <2>1, <2>2, <2>3 DEF Untorn
  <2>5. pr.ready
    <3>1. pr.marker # 0
      BY <1>1, <2>1
    <3> QED
      BY <3>1 DEF Counts
  <2>6. Exclusive
    <3>1. Acquired(7) \ {"flip queue"} \subseteq held
      BY <2>5 DEF Ledger
    <3>2. gpu[1].marker = pr.marker /\ gpu[1].picture \in user.keeps
      BY <2>1, <2>2
    <3>3. 1..Len(gpu) = {1} /\ Len(gpu) <= 1
      BY <2>2
    <3> QED
      BY <3>1, <3>2, <3>3 DEF Exclusive
  <2>7. Shown(screen.buffer) \in Nat
    BY DEF Shown, Typed
  <2> HIDE DEF Shown
  <2>8. Forward
    <3> SUFFICES ASSUME NEW i \in 1..n
                 PROVE  /\ Shown(screen.buffer) <= Shown(flips[i].buffer)
                        /\ \A j \in 1..i : Shown(flips[j].buffer) <= Shown(flips[i].buffer)
      BY DEF Forward
    <3>1. \A j \in 1..i : j \in 1..n
      BY <1>2
    <3> QED
      BY <2>3, <2>7, <3>1
  <2> QED
    BY <2>4, <2>6, <2>8
<1> QED
  BY <1>5, <1>6

(* PresenterSafe: for any number of submissions and sessions the presenter *)
(* leaves nothing behind and never drives a fixed output as a variable     *)
(* one; and until a call fails with its submission with the GPU, or an     *)
(* immediate flip is given up while it is out, one picture at a time is    *)
(* drawn, into the buffer neither shown nor queued, from memory that is    *)
(* kept, and the screen never goes back:                                   *)
(* native_agc_present.cpp and its callers in moonlight_stream.cpp.         *)
THEOREM PresenterSafe == Spec => []PresenterOK
<1>1. Init => AgcInv
  BY AgcInit
<1>2. AgcInv /\ [Next]_agcVars => AgcInv'
  BY AgcStep
<1>3. AgcInv => PresenterOK
  <2> SUFFICES ASSUME AgcInv PROVE PresenterOK
    OBVIOUS
  <2>1. TypeOK
    <3>1. pr.frame \in 0..MaxSent /\ pr.marker \in 0..MaxSent
      <4>1. pr.frame \in Nat /\ pr.marker \in Nat /\ sent \in Nat /\ sent <= MaxSent
        BY PresenterAssumption DEF AgcInv, Typed, Presenters
      <4>2. pr.frame <= Last
        BY <4>1 DEF Last
      <4>3. Last \in Nat
        BY LastNat DEF AgcInv
      <4> QED
        BY <4>1, <4>2, <4>3, PresenterAssumption DEF AgcInv, Counts
    <3>2. screen.buffer \in 0..2
      BY DEF AgcInv, Typed
    <3> QED
      BY <3>1, <3>2 DEF AgcInv, Typed, TypeOK, Users, Outputs
  <2>2. ~uncounted => Untorn /\ Exclusive /\ Forward
    BY FlightSafe DEF AgcInv, FlightInv
  <2> QED
    BY <2>1, <2>2 DEF AgcInv, PresenterOK
<1> QED
  BY <1>1, <1>2, <1>3, PTL DEF Spec

-----------------------------------------------------------------------------
(* The sound                                                               *)

\* What set-up has not yet made is not there.
SetUpInv ==
  /\ stage \in {"off", "decoder"} => ~decoder
  /\ stage \in {"off", "decoder", "port"} => ~port

SoundInv == SoundOK /\ SetUpInv

\* Places of the ring wrap around.
LEMMA Wraps ==
  ASSUME NEW x \in 0 .. 3 * Ring - 1
  PROVE  /\ x < Ring => x % Ring = x
         /\ x >= Ring /\ x < 2 * Ring => x % Ring = x - Ring
         /\ x >= 2 * Ring => x % Ring = x - 2 * Ring
         /\ x % Ring \in 0 .. Ring - 1
<1>1. Ring \in Nat /\ Ring > 0
  BY AudioAssumption
<1>2. CASE x < Ring
  BY <1>1, <1>2
<1>3. CASE x >= Ring /\ x < 2 * Ring
  BY <1>1, <1>3
<1>4. CASE x >= 2 * Ring
  BY <1>1, <1>4
<1> QED
  BY <1>1, <1>2, <1>3, <1>4

\* Going b places on from where a places from h lead.
LEMMA GoesOn ==
  ASSUME NEW h \in 0 .. Ring - 1, NEW a \in 0 .. Ring, NEW b \in 0 .. Ring
  PROVE  /\ (h + a) % Ring \in 0 .. Ring - 1
         /\ (((h + a) % Ring) + b) % Ring = (h + (a + b)) % Ring
<1> DEFINE x == h + a
           y == (x % Ring) + b
           z == h + (a + b)
<1>1. Ring \in Nat /\ Ring > 0
  BY AudioAssumption
<1>2. x \in 0 .. 3 * Ring - 1 /\ z \in 0 .. 3 * Ring - 1
  BY <1>1
<1>3. /\ x < Ring => x % Ring = x
      /\ x >= Ring => x % Ring = x - Ring
      /\ x % Ring \in 0 .. Ring - 1
  <2>1. x < 2 * Ring
    BY <1>1
  <2> HIDE DEF x
  <2> QED
    BY <1>2, <2>1, Wraps
<1> DEFINE m == x % Ring
<1> HIDE DEF m
<1>4. m \in 0 .. Ring - 1 /\ (x < Ring => m = x) /\ (x >= Ring => m = x - Ring)
  BY <1>3 DEF m
<1>5. y = m + b /\ y \in 0 .. 3 * Ring - 1 /\ y < 2 * Ring
  BY <1>1, <1>4 DEF m
<1>6. /\ y < Ring => y % Ring = y
      /\ y >= Ring => y % Ring = y - Ring
  <2> HIDE DEF y
  <2> QED
    BY <1>5, Wraps
<1>7. /\ z < Ring => z % Ring = z
      /\ z >= Ring /\ z < 2 * Ring => z % Ring = z - Ring
      /\ z >= 2 * Ring => z % Ring = z - 2 * Ring
  <2> HIDE DEF z
  <2> QED
    BY <1>2, Wraps
<1> DEFINE p == y % Ring
           q == z % Ring
<1> HIDE DEF p, q
<1>8. /\ y < Ring => p = y
      /\ y >= Ring => p = y - Ring
      /\ z < Ring => q = z
      /\ z >= Ring /\ z < 2 * Ring => q = z - Ring
      /\ z >= 2 * Ring => q = z - 2 * Ring
  BY <1>6, <1>7 DEF p, q
<1>9. z = x + b /\ x \in Nat
  BY <1>1
<1> HIDE DEF x, y, z
<1>10. p = q
  BY <1>1, <1>4, <1>5, <1>8, <1>9
<1> QED
  BY <1>3, <1>10 DEF p, q, x, y, z

\* How far a slot is behind the head is how far it is behind another one.
LEMMA Apart ==
  ASSUME NEW h \in 0 .. Ring - 1, NEW a \in 0 .. Ring - 1, NEW b \in 0 .. Ring
  PROVE  /\ a >= b => After((h + a) % Ring, (h + b) % Ring) = a - b
         /\ a < b => After((h + a) % Ring, (h + b) % Ring) = (a - b) + Ring
<1> DEFINE x == h + a
           y == h + b
           s == x % Ring
           f == y % Ring
           d == (s - f) + Ring
<1>1. Ring \in Nat /\ Ring > 0
  BY AudioAssumption
<1>2. /\ x \in 0 .. 3 * Ring - 1 /\ x < 2 * Ring
      /\ y \in 0 .. 3 * Ring - 1 /\ y < 2 * Ring
  BY <1>1
<1>3. s \in 0 .. Ring - 1 /\ (x < Ring => s = x) /\ (x >= Ring => s = x - Ring)
  <2> HIDE DEF x
  <2> QED
    BY <1>2, Wraps
<1>4. f \in 0 .. Ring - 1 /\ (y < Ring => f = y) /\ (y >= Ring => f = y - Ring)
  <2> HIDE DEF y
  <2> QED
    BY <1>2, Wraps
<1> HIDE DEF s, f
<1>5. d \in 0 .. 3 * Ring - 1 /\ d < 2 * Ring
  BY <1>1, <1>3, <1>4
<1>6. (d < Ring => d % Ring = d) /\ (d >= Ring => d % Ring = d - Ring)
  <2> HIDE DEF d
  <2> QED
    BY <1>5, Wraps
<1>7. After(s, f) = d % Ring
  BY DEF After
<1>8. /\ a >= b => After(s, f) = a - b
      /\ a < b => After(s, f) = (a - b) + Ring
  BY <1>1, <1>3, <1>4, <1>6, <1>7
<1> QED
  BY <1>8 DEF s, f

\* What is i places behind a slot.
LEMMA SlotOf ==
  ASSUME NEW h \in 0 .. Ring - 1, NEW i \in 0 .. Ring - 1
  PROVE  /\ (h + i) % Ring \in 0 .. Ring - 1
         /\ After((h + i) % Ring, h) = i
<1>1. Ring \in Nat /\ Ring > 0 /\ 0 \in 0 .. Ring
  BY AudioAssumption
<1>2. h + 0 \in 0 .. 3 * Ring - 1 /\ h + 0 = h /\ h < Ring
  BY <1>1
<1>3. (h + 0) % Ring = h
  BY <1>2, Wraps
<1>4. i >= 0 /\ i - 0 = i
  OBVIOUS
<1>5. i \in 0 .. Ring
  BY <1>1
<1>6. After((h + i) % Ring, (h + 0) % Ring) = i
  BY <1>1, <1>4, Apart
<1>7. (h + i) % Ring \in 0 .. Ring - 1
  BY <1>5, GoesOn
<1> QED
  BY <1>3, <1>6, <1>7

\* The distance between two slots is one of the ring.
LEMMA Distance ==
  ASSUME NEW s \in 0 .. Ring - 1, NEW h \in 0 .. Ring - 1
  PROVE  After(s, h) \in 0 .. Ring - 1
<1> DEFINE d == s - h + Ring
<1>1. d \in 0 .. 3 * Ring - 1 /\ After(s, h) = d % Ring
  BY AudioAssumption DEF After
<1> HIDE DEF d
<1> QED
  BY <1>1, Wraps

RingType ==
  /\ ring \in [0 .. Ring - 1 -> Free .. MaxDecoded - 1]
  /\ head \in 0 .. Ring - 1 /\ tail \in 0 .. Ring - 1 /\ count \in 0 .. Ring
  /\ decoded \in 0 .. MaxDecoded /\ heard \in 0 .. decoded

\* A burst longer than the ring leaves its end.
LEMMA PushLong ==
  ASSUME SoundOK, NEW n \in 1 .. Longest, decoded + n <= MaxDecoded, n > Ring, Push(n)
  PROVE  RingType' /\ HoldsNewest'
<1>1. /\ n \in Nat /\ Ring \in Nat /\ Ring > 0 /\ MaxDecoded \in Nat
      /\ decoded + n <= MaxDecoded /\ n > Ring
  BY AudioAssumption
<1>2. /\ heard' = heard + (count + (n - Ring)) /\ decoded' = decoded + n
      /\ head' = 0 /\ tail' = Ring % Ring /\ count' = Ring
      /\ ring' = [i \in DOMAIN ring |->
                    IF After(i, 0) < Ring THEN decoded + (n - Ring) + After(i, 0)
                    ELSE IF After(i, head) < count + (n - Ring) THEN Free ELSE ring[i]]
  BY <1>1 DEF Push, PushAt
<1>3. tail' = 0 /\ (0 + Ring) % Ring = 0
  BY <1>1, <1>2, Wraps
<1>4. /\ heard \in Nat /\ count \in Nat /\ decoded \in Nat /\ heard = decoded - count
      /\ DOMAIN ring = 0 .. Ring - 1
  BY <1>1 DEF SoundOK, SoundTypeOK, HoldsNewest
<1>5. /\ heard' = decoded + (n - Ring) /\ heard' = decoded' - count'
      /\ decoded' \in 0 .. MaxDecoded /\ heard' \in 0 .. decoded'
  BY <1>1, <1>2, <1>4
<1>6. ring' = [i \in 0 .. Ring - 1 |-> decoded + (n - Ring) + i]
  <2>1. ASSUME NEW i \in 0 .. Ring - 1 PROVE After(i, 0) = i
    <3>1. 0 \in 0 .. Ring - 1 /\ (0 + i) % Ring = i
      BY <1>1, Wraps
    <3> QED
      BY <3>1, SlotOf
  <2> QED
    BY <1>1, <1>2, <1>4, <2>1
<1>7. ASSUME NEW i \in 0 .. Ring - 1 PROVE ring'[(0 + i) % Ring] = heard' + i
  <2>1. (0 + i) % Ring = i
    BY <1>1, Wraps
  <2> QED
    BY <1>5, <1>6, <2>1
<1>8. ring' \in [0 .. Ring - 1 -> Free .. MaxDecoded - 1]
  <2>1. \A i \in 0 .. Ring - 1 : decoded + (n - Ring) + i \in Free .. MaxDecoded - 1
    BY <1>1, <1>4 DEF Free
  <2> QED
    BY <1>6, <2>1
<1> QED
  BY <1>1, <1>2, <1>3, <1>5, <1>7, <1>8 DEF HoldsNewest, RingType

\* Any other packet follows the newest sample, and the oldest make room for it.
LEMMA PushShort ==
  ASSUME SoundOK, NEW n \in Nat, decoded + n <= MaxDecoded, n > 0, n <= Ring, Push(n)
  PROVE  RingType' /\ HoldsNewest'
<1> DEFINE gone == IF count + n > Ring THEN count + n - Ring ELSE 0
           left == count - gone
<1>1. /\ Ring \in Nat /\ Ring > 0 /\ n \in 0 .. Ring /\ MaxDecoded \in Nat
      /\ decoded + n <= MaxDecoded
  BY AudioAssumption
<1>2. RingType /\ HoldsNewest /\ DOMAIN ring = 0 .. Ring - 1
  BY DEF SoundOK, SoundTypeOK, RingType
<1>3. /\ head \in 0 .. Ring - 1 /\ tail \in 0 .. Ring - 1 /\ count \in 0 .. Ring
      /\ heard \in Nat /\ decoded \in Nat /\ decoded <= MaxDecoded
      /\ heard = decoded - count
  BY <1>1, <1>2 DEF RingType, HoldsNewest
<1>4. /\ gone \in 0 .. Ring /\ left \in 0 .. Ring /\ gone + left = count
      /\ left + n \in 0 .. Ring /\ n <= gone + (Ring - count)
  BY <1>1, <1>3
<1>5. /\ heard' = heard + gone /\ decoded' = decoded + n
      /\ head' = (head + gone) % Ring /\ tail' = (tail + n) % Ring /\ count' = left + n
      /\ ring' = [i \in DOMAIN ring |->
                    IF After(i, tail) < n THEN decoded + (n - n) + After(i, tail)
                    ELSE IF After(i, head) < gone THEN Free ELSE ring[i]]
  BY <1>1 DEF Push, PushAt
<1> HIDE DEF gone, left
<1>6. head' \in 0 .. Ring - 1 /\ tail' \in 0 .. Ring - 1
  BY <1>1, <1>3, <1>4, <1>5, GoesOn
<1>7. tail' = (head' + count') % Ring
  <2>1. (head' + count') % Ring = (head + (gone + (left + n))) % Ring
    BY <1>3, <1>4, <1>5, GoesOn
  <2>2. tail' = (head + (count + n)) % Ring
    BY <1>1, <1>2, <1>3, <1>5, GoesOn DEF HoldsNewest
  <2>3. gone + (left + n) = count + n
    BY <1>3, <1>4
  <2> QED
    BY <2>1, <2>2, <2>3
<1>8. /\ heard' = decoded' - count'
      /\ decoded' \in 0 .. MaxDecoded /\ heard' \in 0 .. decoded'
  BY <1>1, <1>3, <1>4, <1>5
<1>9. ASSUME NEW i \in 0 .. Ring - 1, i < left + n
      PROVE  ring'[(head' + i) % Ring] = heard' + i
  <2> DEFINE s == (head' + i) % Ring
  <2>1. i \in 0 .. Ring /\ s = (head + (gone + i)) % Ring /\ s \in DOMAIN ring
    <3>1. i \in 0 .. Ring
      BY <1>1
    <3>2. s = (head + (gone + i)) % Ring
      BY <1>3, <1>4, <1>5, <3>1, GoesOn
    <3>3. s \in 0 .. Ring - 1
      BY <1>6, <3>1, GoesOn
    <3> QED
      BY <1>2, <3>1, <3>2, <3>3
  <2> HIDE DEF s
  <2>2. CASE gone + i < count
    <3> DEFINE k == gone + i
    <3>1. /\ k \in 0 .. Ring - 1 /\ k \in 0 .. count - 1 /\ k < count
          /\ ~((k - count) + Ring < n) /\ ~(k < gone)
      BY <1>1, <1>3, <1>4, <2>2
    <3>2. (heard + gone) + i = heard + k
      BY <1>1, <1>3, <1>4
    <3> HIDE DEF k
    <3>3. s = (head + k) % Ring
      BY <2>1 DEF k
    <3>4. After(s, tail) = (k - count) + Ring
      BY <1>2, <1>3, <3>1, <3>3, Apart DEF HoldsNewest
    <3>5. After(s, head) = k
      BY <1>3, <3>1, <3>3, SlotOf
    <3>6. ring'[s] = ring[s]
      BY <1>5, <2>1, <3>1, <3>4, <3>5
    <3>7. ring[s] = heard + k
      BY <1>2, <3>1, <3>3 DEF HoldsNewest
    <3> QED
      BY <1>5, <3>2, <3>6, <3>7 DEF s
  <2>3. CASE ~(gone + i < count)
    <3> DEFINE k == (gone + i) - count
    <3>1. k \in 0 .. Ring - 1 /\ k \in 0 .. Ring /\ k < n /\ gone + i = count + k
      BY <1>1, <1>3, <1>4, <1>9, <2>3
    <3>2. (heard + gone) + i = decoded + (n - n) + k
      BY <1>1, <1>3, <1>4, <3>1
    <3> HIDE DEF k
    <3>3. s = (head + (count + k)) % Ring
      BY <2>1, <3>1
    <3>4. s = (tail + k) % Ring
      BY <1>2, <1>3, <3>1, <3>3, GoesOn DEF HoldsNewest
    <3>5. After(s, tail) = k
      BY <1>3, <3>1, <3>4, SlotOf
    <3>6. ring'[s] = decoded + (n - n) + k
      BY <1>5, <2>1, <3>1, <3>5
    <3> QED
      BY <1>5, <3>2, <3>6 DEF s
  <2> QED
    BY <2>2, <2>3
<1>10. RingType'
  <2>2. ASSUME NEW i \in 0 .. Ring - 1
        PROVE  /\ After(i, tail) < n =>
                    decoded + (n - n) + After(i, tail) \in Free .. MaxDecoded - 1
               /\ Free \in Free .. MaxDecoded - 1
    <3>1. After(i, tail) \in 0 .. Ring - 1
      BY <1>3, Distance
    <3> QED
      BY <1>1, <1>3, <3>1 DEF Free
  <2>3. ring' \in [0 .. Ring - 1 -> Free .. MaxDecoded - 1]
    BY <1>2, <1>5, <2>2 DEF RingType
  <2>4. count' \in 0 .. Ring
    BY <1>4, <1>5
  <2> QED
    BY <1>6, <1>8, <2>3, <2>4 DEF RingType
<1>11. \A i \in 0 .. count' - 1 : i \in 0 .. Ring - 1 /\ i < left + n
  <2>1. left + n \in 0 .. Ring /\ count' = left + n
    BY <1>4, <1>5
  <2>2. \A i \in 0 .. (left + n) - 1 : i \in 0 .. Ring - 1 /\ i < left + n
    BY <1>1, <2>1
  <2> QED
    BY <2>1, <2>2
<1> QED
  BY <1>7, <1>8, <1>9, <1>10, <1>11 DEF HoldsNewest

\* A grain goes to the console.
LEMMA PopsGrain ==
  ASSUME SoundOK, Output
  PROVE  RingType' /\ HoldsNewest'
<1> DEFINE left == count - Grain
<1>1. /\ Ring \in Nat /\ Ring > 0 /\ Grain \in Nat /\ Grain > 0 /\ Grain \in 0 .. Ring
      /\ MaxDecoded \in Nat
  BY AudioAssumption
<1>2. RingType /\ HoldsNewest /\ DOMAIN ring = 0 .. Ring - 1
  BY DEF SoundOK, SoundTypeOK, RingType
<1>3. /\ head \in 0 .. Ring - 1 /\ tail \in 0 .. Ring - 1 /\ count \in 0 .. Ring
      /\ heard \in Nat /\ decoded \in Nat /\ decoded <= MaxDecoded
      /\ heard = decoded - count
  BY <1>1, <1>2 DEF RingType, HoldsNewest
<1>4. /\ count >= Grain /\ head' = (head + Grain) % Ring /\ count' = left
      /\ heard' = heard + Grain /\ tail' = tail /\ decoded' = decoded
      /\ ring' = [i \in DOMAIN ring |-> IF After(i, head) < Grain THEN Free ELSE ring[i]]
  BY <1>2 DEF Output, Freed
<1>5. left \in 0 .. Ring /\ Grain + left = count
  BY <1>1, <1>3, <1>4
<1> HIDE DEF left
<1>6. head' \in 0 .. Ring - 1
  BY <1>1, <1>3, <1>4, GoesOn
<1>7. tail' = (head' + count') % Ring
  <2>1. (head' + count') % Ring = (head + (Grain + left)) % Ring
    BY <1>1, <1>3, <1>4, <1>5, GoesOn
  <2> QED
    BY <1>2, <1>4, <1>5, <2>1 DEF HoldsNewest
<1>8. heard' = decoded' - count' /\ heard' \in 0 .. decoded'
  BY <1>1, <1>3, <1>4, <1>5
<1>9. ASSUME NEW i \in 0 .. Ring - 1, i < left
      PROVE  ring'[(head' + i) % Ring] = heard' + i
  <2> DEFINE s == (head' + i) % Ring
             k == Grain + i
  <2>1. i \in 0 .. Ring /\ k \in 0 .. Ring - 1 /\ k \in 0 .. count - 1 /\ ~(k < Grain)
    BY <1>1, <1>3, <1>5, <1>9
  <2>2. s = (head + k) % Ring
    BY <1>1, <1>3, <1>4, <2>1, GoesOn
  <2>3. (heard + Grain) + i = heard + k
    BY <1>1, <1>3
  <2> HIDE DEF s, k
  <2>4. After(s, head) = k /\ s \in DOMAIN ring
    BY <1>2, <1>3, <2>1, <2>2, SlotOf
  <2>5. ring'[s] = ring[s]
    BY <1>4, <2>1, <2>4
  <2>6. ring[s] = heard + k
    BY <1>2, <2>1, <2>2 DEF HoldsNewest
  <2> QED
    BY <1>4, <2>3, <2>5, <2>6 DEF s
<1>10. RingType'
  <2>1. Free \in Free .. MaxDecoded - 1
    BY <1>1 DEF Free
  <2>2. ring' \in [0 .. Ring - 1 -> Free .. MaxDecoded - 1]
    BY <1>2, <1>4, <2>1 DEF RingType
  <2>3. count' \in 0 .. Ring
    BY <1>4, <1>5
  <2> QED
    BY <1>2, <1>4, <1>6, <1>8, <2>2, <2>3 DEF RingType
<1>11. \A i \in 0 .. count' - 1 : i \in 0 .. Ring - 1 /\ i < left
  <2>1. \A i \in 0 .. left - 1 : i \in 0 .. Ring - 1 /\ i < left
    BY <1>1, <1>5
  <2> QED
    BY <1>4, <2>1
<1> QED
  BY <1>7, <1>8, <1>9, <1>10, <1>11 DEF HoldsNewest

\* A ring set back is empty.
LEMMA Emptied ==
  ASSUME SoundOK, SoundBegin \/ CatchUp
  PROVE  RingType' /\ HoldsNewest'
<1>1. Ring \in Nat /\ Ring > 0 /\ MaxDecoded \in Nat /\ Longest \in Nat
  BY AudioAssumption
<1>2. RingType /\ DOMAIN ring = 0 .. Ring - 1
  BY DEF SoundOK, SoundTypeOK, RingType
<1>3. (0 + 0) % Ring = 0
  BY <1>1, Wraps
<1>4. /\ head' = 0 /\ tail' = 0 /\ count' = 0 /\ heard' = decoded' /\ decoded' \in 0 .. MaxDecoded
      /\ ring' = [i \in 0 .. Ring - 1 |-> Free]
  <2>1. CASE SoundBegin
    BY <1>1, <2>1 DEF SoundBegin
  <2>2. CASE CatchUp
    <3>1. /\ head' = 0 /\ tail' = 0 /\ count' = 0 /\ heard' = decoded'
          /\ ring' = [i \in 0 .. Ring - 1 |-> Free]
      BY <1>2, <2>2 DEF CatchUp, Freed
    <3>2. PICK n \in 1 .. Longest : decoded + n <= MaxDecoded /\ decoded' = decoded + n
      BY <2>2 DEF CatchUp
    <3>3. decoded \in Nat
      BY <1>1, <1>2 DEF RingType
    <3> QED
      BY <1>1, <3>1, <3>2, <3>3
  <2> QED
    BY <2>1, <2>2
<1>5. Free \in Free .. MaxDecoded - 1 /\ \A d \in 0 .. MaxDecoded : d = d - 0 /\ d \in 0 .. d
  BY <1>1 DEF Free
<1>6. ring' \in [0 .. Ring - 1 -> Free .. MaxDecoded - 1]
  BY <1>4, <1>5
<1>7. /\ heard' = decoded' - count' /\ heard' \in 0 .. decoded' /\ tail' = (head' + count') % Ring
      /\ head' \in 0 .. Ring - 1 /\ tail' \in 0 .. Ring - 1 /\ count' \in 0 .. Ring
  <2>1. 0 \in 0 .. Ring - 1 /\ 0 \in 0 .. Ring
    BY <1>1
  <2> QED
    BY <1>3, <1>4, <1>5, <2>1
<1>8. \A i \in 0 .. count' - 1 : FALSE
  BY <1>4
<1> QED
  BY <1>4, <1>6, <1>7, <1>8 DEF RingType, HoldsNewest

\* Every step of the audio thread, and of set-up.
LEMMA SoundStep ==
  ASSUME SoundInv, [SoundNext]_soundVars
  PROVE  SoundInv'
<1> USE DEF SoundInv, SoundOK, SetUpInv, NothingKept
<1>1. RingType /\ HoldsNewest /\ SoundTypeOK
  BY DEF SoundTypeOK, RingType
<1>2. RingType' /\ HoldsNewest'
  <2>1. CASE SoundBegin \/ CatchUp
    BY <2>1, Emptied
  <2>2. CASE Buffer
    <3>1. PICK n \in 1 .. Longest : decoded + n <= MaxDecoded /\ Push(n)
      BY <2>2 DEF Buffer
    <3>2. n \in Nat /\ n > 0 /\ (n > Ring \/ n <= Ring)
      BY AudioAssumption
    <3> QED
      BY <3>1, <3>2, PushLong, PushShort
  <2>3. CASE Output
    BY <2>3, PopsGrain
  <2>4. CASE CreateDecoder \/ OpenPort \/ Cleanup \/ Drained \/ UNCHANGED soundVars
    <3>1. UNCHANGED samples
      BY <2>4 DEF CreateDecoder, OpenPort, Cleanup, Drained, soundVars, samples
    <3> QED
      BY <1>1, <3>1 DEF RingType, HoldsNewest, samples
  <2> QED
    BY <2>1, <2>2, <2>3, <2>4 DEF SoundNext
<1>3. /\ stage' \in {"off", "decoder", "port", "ready", "drain"}
      /\ decoder' \in BOOLEAN /\ port' \in BOOLEAN
      /\ NothingKept' /\ SetUpInv'
  <2>1. CASE SoundBegin
    BY <1>1, <2>1 DEF SoundBegin, SoundTypeOK
  <2>2. CASE CreateDecoder
    <3>1. ~decoder /\ ~port /\ port' = port /\ stage' \in {"port", "off"}
      BY <2>2 DEF CreateDecoder
    <3>2. stage' = "off" => ~decoder'
      BY <2>2, <3>1, Zenon DEF CreateDecoder
    <3>3. decoder' \in BOOLEAN
      BY <1>1, <2>2, Zenon DEF CreateDecoder, SoundTypeOK
    <3> QED
      BY <1>1, <3>1, <3>2, <3>3 DEF SoundTypeOK
  <2>3. CASE OpenPort
    <3>1. ~port /\ stage' \in {"ready", "off"}
      BY <2>3 DEF OpenPort
    <3>2. stage' = "off" => ~port'
      BY <2>3, <3>1, Zenon DEF OpenPort
    <3>3. stage' = "off" => ~decoder'
      BY <2>3, Zenon DEF OpenPort
    <3>4. decoder' \in BOOLEAN /\ port' \in BOOLEAN
      BY <1>1, <2>3, Zenon DEF OpenPort, SoundTypeOK
    <3> QED
      BY <1>1, <3>1, <3>2, <3>3, <3>4 DEF SoundTypeOK
  <2>4. CASE Cleanup
    BY <1>1, <2>4 DEF Cleanup, SoundTypeOK
  <2>5. CASE Buffer \/ CatchUp \/ Output \/ Drained
    BY <1>1, <2>5 DEF Buffer, CatchUp, Output, Drained, SoundTypeOK
  <2>6. CASE UNCHANGED soundVars
    BY <1>1, <2>6 DEF soundVars, SoundTypeOK
  <2> QED
    BY <2>1, <2>2, <2>3, <2>4, <2>5, <2>6 DEF SoundNext
<1>4. SoundTypeOK'
  BY <1>2, <1>3 DEF SoundTypeOK, RingType
<1> QED
  BY <1>2, <1>3, <1>4

LEMMA SoundStart ==
  ASSUME SoundInit
  PROVE  SoundInv
<1>1. Ring \in Nat /\ Ring > 0 /\ MaxDecoded \in Nat
  BY AudioAssumption
<1>2. (0 + 0) % Ring = 0
  BY <1>1, Wraps
<1>3. Free \in Free .. MaxDecoded - 1 /\ 0 = 0 - 0 /\ 0 \in 0 .. MaxDecoded /\ 0 \in 0 .. 0
  BY <1>1 DEF Free
<1>4. ring \in [0 .. Ring - 1 -> Free .. MaxDecoded - 1]
  BY <1>3 DEF SoundInit
<1>5. SoundTypeOK /\ NothingKept /\ SetUpInv
  <2>1. decoder \in BOOLEAN /\ port \in BOOLEAN /\ ~decoder /\ ~port
    BY Zenon DEF SoundInit
  <2> QED
    BY <1>1, <1>3, <1>4, <2>1 DEF SoundInit, SoundTypeOK, NothingKept, SetUpInv
<1>6. HoldsNewest
  BY <1>1, <1>2, <1>3 DEF SoundInit, HoldsNewest
<1> QED
  BY <1>5, <1>6 DEF SoundInv, SoundOK

\* The console gets whole grains of samples, in their order and none twice, and
\* the ring holds exactly the newest, whatever bursts, drops, catch-ups and
\* failed outputs come, for a ring, a grain and packets of any length and any
\* number of samples; set-up leaves nothing behind (moonlight_stream.cpp:2770).
THEOREM SoundKept == SoundSpec => []SoundOK
<1>1. SoundInv => SoundOK
  BY DEF SoundInv
<1> QED
  BY <1>1, SoundStart, SoundStep, PTL DEF SoundSpec

-----------------------------------------------------------------------------
(* What may be held back                                                   *)

\* The reserve the arrivals taught: there are no more late pictures in the window
\* than since the last break, the newest of it are those readied in time in a
\* row, and once none is late the reserve goes down with every picture.
ArrivalsInv ==
  /\ ~begun => window = <<>> /\ arrivals = 0
  /\ lates < 3 => LateOnes(window) <= lates
  /\ arrivals > 0 => lates >= 2
  /\ \A i \in DOMAIN window : i > Len(window) - punctual => window[i] = 0
  /\ Len(window) < Samples /\ Len(window) < punctual => arrivals = 0
  /\ punctual > Samples => arrivals = 0 \/ arrivals + 50 * (punctual - Samples) <= Cap

\* The reserve the display taught.
SpacingInv ==
  /\ ~follows => misses = 0 /\ spacing = 0
  /\ misses <= shownLate
  /\ spacing > 0 => shownLate >= 3
  /\ punctual > 0 => spacing = 0 \/ spacing + 40 * punctual <= Cap

ReserveInv == ReserveTypeOK /\ ArrivalsInv /\ SpacingInv

Amounts == {0, Lateness}
LateOf(w) == {i \in DOMAIN w : w[i] > 0}

LEMMA LateType ==
  ASSUME NEW w \in Seq(Amounts)
  PROVE  /\ IsFiniteSet(LateOf(w)) /\ LateOnes(w) = Cardinality(LateOf(w))
         /\ LateOnes(w) \in Nat /\ LateOnes(w) <= Len(w)
         /\ (\A i \in DOMAIN w : w[i] = 0) => LateOnes(w) = 0
<1>1. Len(w) \in Nat /\ DOMAIN w = 1 .. Len(w) /\ 1 \in Int /\ Len(w) \in Int
  BY LenProperties
<1>2. /\ IsFiniteSet(1 .. Len(w))
      /\ Cardinality(1 .. Len(w)) = IF 1 > Len(w) THEN 0 ELSE Len(w) - 1 + 1
  BY <1>1, FS_Interval
<1>3. Cardinality(1 .. Len(w)) = Len(w)
  BY <1>1, <1>2
<1>4. LateOf(w) \in SUBSET (1 .. Len(w))
  BY <1>1 DEF LateOf
<1>5. IsFiniteSet(LateOf(w)) /\ Cardinality(LateOf(w)) <= Len(w)
  BY <1>2, <1>3, <1>4, FS_Subset
<1>6. LateOnes(w) = Cardinality(LateOf(w))
  BY DEF LateOnes, LateOf
<1>7. ASSUME \A i \in DOMAIN w : w[i] = 0 PROVE LateOnes(w) = 0
  <2>1. LateOf(w) = {}
    BY <1>7 DEF LateOf
  <2> QED
    BY <1>6, <2>1, FS_EmptySet
<1> QED
  BY <1>5, <1>6, <1>7, FS_CardinalityType

\* The window with one more picture.
Slides(w, r) ==
  /\ w \in Seq(Amounts) /\ Len(w) \in 1 .. Samples
  /\ Len(w) = Len(window) + 1 \/ (Len(w) = Len(window) /\ Len(w) = Samples)
  /\ w[Len(w)] = r
  /\ \A i \in 1 .. Len(w) - 1 :
        /\ i + ((Len(window) - Len(w)) + 1) \in 1 .. Len(window)
        /\ w[i] = window[i + ((Len(window) - Len(w)) + 1)]

Slid(w, r) ==
  w = IF Len(window) < Samples THEN Append(window, r) ELSE Append(Tail(window), r)

LEMMA WindowSlides ==
  ASSUME ReserveTypeOK, NEW r \in Amounts, NEW w, Slid(w, r)
  PROVE  Slides(w, r)
<1>1. /\ window \in Seq(Amounts) /\ Len(window) \in Nat /\ Len(window) <= Samples
      /\ Samples \in Nat /\ Samples > 0
  BY PlayoutAssumption, LenProperties DEF ReserveTypeOK, Amounts
<1>2. CASE Len(window) < Samples
  <2>1. w = Append(window, r)
    BY <1>2 DEF Slid
  <2>2. /\ w \in Seq(Amounts) /\ Len(w) = Len(window) + 1
        /\ \A i \in 1 .. Len(window) : w[i] = window[i]
        /\ w[Len(window) + 1] = r
    BY <1>1, <2>1, AppendProperties
  <2>3. /\ Len(w) \in 1 .. Samples /\ Len(w) - 1 = Len(window)
        /\ \A i \in 1 .. Len(w) - 1 : i + ((Len(window) - Len(w)) + 1) = i
    BY <1>1, <1>2, <2>2
  <2>4. ASSUME NEW i \in 1 .. Len(w) - 1
        PROVE  /\ i + ((Len(window) - Len(w)) + 1) \in 1 .. Len(window)
               /\ w[i] = window[i + ((Len(window) - Len(w)) + 1)]
    <3>1. i + ((Len(window) - Len(w)) + 1) = i
      BY <2>3
    <3>2. i \in 1 .. Len(window) /\ w[i] = window[i]
      BY <2>2, <2>3
    <3> QED
      BY <3>1, <3>2
  <2>5. w[Len(w)] = r
    BY <2>2
  <2>6. /\ w \in Seq(Amounts) /\ Len(w) \in 1 .. Samples
        /\ Len(w) = Len(window) + 1 \/ (Len(w) = Len(window) /\ Len(w) = Samples)
    BY <2>2, <2>3, Zenon
  <2> QED
    BY <2>4, <2>5, <2>6, Zenon DEF Slides
<1>3. CASE ~(Len(window) < Samples)
  <2>1. w = Append(Tail(window), r) /\ Len(window) = Samples
    BY <1>1, <1>3 DEF Slid
  <2>2. window # <<>>
    BY <1>1, <2>1, EmptySeq
  <2>3. /\ Tail(window) \in Seq(Amounts) /\ Len(Tail(window)) = Len(window) - 1
        /\ \A i \in 1 .. Len(Tail(window)) : Tail(window)[i] = window[i + 1]
    BY <1>1, <2>2, HeadTailProperties
  <2>4. PICK v : v = Tail(window)
    OBVIOUS
  <2>5. /\ v \in Seq(Amounts) /\ Len(v) = Len(window) - 1 /\ w = Append(v, r)
        /\ \A i \in 1 .. Len(v) : v[i] = window[i + 1]
    BY <2>1, <2>3, <2>4
  <2>6. /\ w \in Seq(Amounts) /\ Len(w) = Len(v) + 1
        /\ \A i \in 1 .. Len(v) : w[i] = v[i]
        /\ w[Len(v) + 1] = r
    <3>1. v \in Seq(Amounts) /\ w = Append(v, r)
      BY <2>5
    <3> QED
      BY <3>1, AppendProperties
  <2>7. Len(w) = Len(window) /\ (Len(window) - Len(w)) + 1 = 1 /\ Len(v) = Len(w) - 1
    BY <1>1, <2>5, <2>6
  <2>8. ASSUME NEW i \in 1 .. Len(w) - 1
        PROVE  /\ i + ((Len(window) - Len(w)) + 1) \in 1 .. Len(window)
               /\ w[i] = window[i + ((Len(window) - Len(w)) + 1)]
    <3>1. i + ((Len(window) - Len(w)) + 1) = i + 1 /\ i + 1 \in 1 .. Len(window)
      BY <1>1, <2>7
    <3>2. i \in 1 .. Len(v)
      BY <2>7
    <3>3. w[i] = v[i] /\ v[i] = window[i + 1]
      BY <2>5, <2>6, <3>2
    <3> QED
      BY <3>1, <3>3
  <2>9. Len(w) \in 1 .. Samples
    BY <1>1, <2>1, <2>7
  <2>10. w[Len(w)] = r
    BY <1>1, <2>6
  <2>11. w \in Seq(Amounts) /\ Len(w) = Len(window) /\ Len(w) = Samples
    BY <2>1, <2>6, <2>7
  <2> QED
    BY <2>8, <2>9, <2>10, <2>11, Zenon DEF Slides
<1> QED
  BY <1>2, <1>3

\* No more pictures of the window are late than were, but for the new one.
LEMMA LateSlides ==
  ASSUME window \in Seq(Amounts), NEW r, NEW w, Slides(w, r)
  PROVE  LateOnes(w) <= LateOnes(window) + (IF r > 0 THEN 1 ELSE 0)
<1> DEFINE d == (Len(window) - Len(w)) + 1
           S == LateOf(w) \ {Len(w)}
           T == LateOf(window)
           f == [i \in S |-> i + d]
<1>1. Len(w) \in Nat /\ Len(window) \in Nat /\ w \in Seq(Amounts) /\ Len(w) >= 1
  BY LenProperties DEF Slides
<1>2. S = {i \in 1 .. Len(w) - 1 : w[i] > 0} /\ T = {i \in 1 .. Len(window) : window[i] > 0}
  <2>1. DOMAIN w = 1 .. Len(w) /\ DOMAIN window = 1 .. Len(window)
    BY <1>1, LenProperties
  <2> QED
    BY <1>1, <2>1 DEF LateOf
<1>3. d \in Int
  BY <1>1
<1>4. \A i \in S : i \in Int /\ i + d \in T
  BY <1>1, <1>2 DEF Slides
<1>5. IsFiniteSet(T) /\ IsFiniteSet(LateOf(w))
  BY <1>1, LateType
<1>6. Cardinality(S) <= Cardinality(T)
  <2> HIDE DEF S, T, d
  <2>1. f \in [S -> T] /\ \A i, j \in S : f[i] = f[j] => i = j
    BY <1>3, <1>4
  <2>2. f \in Injection(S, T)
    BY <2>1 DEF Injection, IsInjective
  <2> HIDE DEF f
  <2> QED
    BY <1>5, <2>2, FS_Injection
<1>7. Cardinality(S) = IF Len(w) \in LateOf(w) THEN Cardinality(LateOf(w)) - 1
                       ELSE Cardinality(LateOf(w))
  BY <1>5, FS_RemoveElement
<1>8. Len(w) \in LateOf(w) <=> r > 0
  <2>1. DOMAIN w = 1 .. Len(w)
    BY <1>1, LenProperties
  <2>2. Len(w) \in DOMAIN w
    BY <1>1, <2>1
  <2>3. w[Len(w)] = r
    BY DEF Slides
  <2> QED
    BY <2>2, <2>3 DEF LateOf
<1>9. /\ LateOnes(w) = Cardinality(LateOf(w)) /\ LateOnes(w) \in Nat
      /\ LateOnes(window) = Cardinality(T) /\ LateOnes(window) \in Nat
  BY <1>1, LateType
<1>10. CASE r > 0
  BY <1>6, <1>7, <1>8, <1>9, <1>10
<1>11. CASE ~(r > 0)
  BY <1>6, <1>7, <1>8, <1>9, <1>11
<1> QED
  BY <1>10, <1>11

\* What the window asks for, and what is learnt of it.
LEMMA TargetFacts ==
  ASSUME NEW w \in Seq(Amounts), Len(w) >= 2
  PROVE  /\ Target(w) \in 0 .. Cap
         /\ Target(w) > 0 => LateOnes(w) >= 2
         /\ (\A i \in DOMAIN w : w[i] = 0) => Target(w) = 0
<1> DEFINE rank == ((Len(w) - 1) * Percentile) \div 100
<1>1. Cap \in Nat /\ Len(w) \in Nat
  BY PlayoutAssumption, LenProperties
<1>2. /\ LateOnes(w) \in Nat /\ LateOnes(w) <= Len(w)
      /\ (\A i \in DOMAIN w : w[i] = 0) => LateOnes(w) = 0
  BY LateType
<1>3. Target(w) = IF Len(w) - LateOnes(w) <= rank THEN Least(Cap, 2500) ELSE 0
  BY DEF Target, Lateness
<1>4. rank \in Int /\ 100 * rank <= 95 * (Len(w) - 1)
  <2>1. Percentile \in {90, 95}
    BY PlayoutAssumption
  <2>2. CASE Percentile = 90
    <3>1. rank = ((Len(w) - 1) * 90) \div 100
      BY <2>2
    <3> QED
      BY <1>1, <3>1
  <2>3. CASE Percentile = 95
    <3>1. rank = ((Len(w) - 1) * 95) \div 100
      BY <2>3
    <3> QED
      BY <1>1, <3>1
  <2> QED
    BY <2>1, <2>2, <2>3
<1> HIDE DEF rank
<1>5. Least(Cap, 2500) \in 0 .. Cap
  BY <1>1 DEF Least
<1>6. Len(w) - LateOnes(w) <= rank => LateOnes(w) >= 2
  BY <1>1, <1>2, <1>4
<1> QED
  BY <1>1, <1>2, <1>3, <1>5, <1>6

LEMMA LearnFacts ==
  ASSUME NEW w \in Seq(Amounts), arrivals \in 0 .. Cap
  PROVE  /\ Learn(w) \in 0 .. Cap
         /\ Learn(w) > 0 => arrivals > 0 \/ LateOnes(w) >= 2
         /\ (\A i \in DOMAIN w : w[i] = 0) =>
              /\ arrivals = 0 => Learn(w) = 0
              /\ Learn(w) <= arrivals
              /\ Len(w) >= Enough => Learn(w) = 0 \/ Learn(w) + 50 <= arrivals
<1>1. Cap \in Nat /\ Enough \in Nat /\ Enough >= 2 /\ Len(w) \in Nat /\ arrivals \in Nat /\ arrivals <= Cap
  BY PlayoutAssumption, LenProperties
<1>2. CASE Len(w) < Enough
  <2>1. Learn(w) = arrivals
    BY <1>2 DEF Learn
  <2> QED
    BY <1>1, <1>2, <2>1
<1>3. CASE ~(Len(w) < Enough)
  <2>1. /\ Target(w) \in 0 .. Cap
        /\ Target(w) > 0 => LateOnes(w) >= 2
        /\ (\A i \in DOMAIN w : w[i] = 0) => Target(w) = 0
    BY <1>1, <1>3, TargetFacts
  <2>2. CASE Target(w) > arrivals
    <3>1. Learn(w) = Least(Target(w), arrivals + 250)
      BY <1>3, <2>2 DEF Learn
    <3> QED
      BY <1>1, <2>1, <2>2, <3>1 DEF Least
  <2>3. CASE ~(Target(w) > arrivals)
    <3>1. Learn(w) = arrivals - Least(arrivals - Target(w), 50)
      BY <1>3, <2>3 DEF Learn
    <3>2. /\ Learn(w) \in 0 .. Cap /\ Learn(w) <= arrivals /\ Learn(w) >= Target(w)
          /\ Learn(w) = Target(w) \/ Learn(w) + 50 <= arrivals
      BY <1>1, <2>1, <2>3, <3>1 DEF Least
    <3> QED
      BY <1>1, <2>1, <3>2
  <2> QED
    BY <2>2, <2>3
<1> QED
  BY <1>2, <1>3

\* What goes down with each of p pictures, goes down with one more.
LEMMA GoesDown ==
  ASSUME NEW a \in Nat, NEW b \in Nat, NEW p \in Nat, a <= Cap
  PROVE  /\ /\ b = 0 \/ b + 50 <= a
            /\ p > 0 => a = 0 \/ a + 50 * p <= Cap
            => b = 0 \/ b + 50 * (p + 1) <= Cap
         /\ /\ b = 0 \/ b + 40 <= a
            /\ p > 0 => a = 0 \/ a + 40 * p <= Cap
            => b = 0 \/ b + 40 * (p + 1) <= Cap
<1>1. Cap \in Nat
  BY PlayoutAssumption
<1>2. CASE p = 0
  BY <1>1, <1>2
<1>3. CASE p > 0
  BY <1>1, <1>3
<1> QED
  BY <1>2, <1>3

\* A picture teaches the arrivals.
LEMMA Arrives ==
  ASSUME ReserveInv, NEW q \in Pictures, ReservePicture(q)
  PROVE  /\ begun' \in BOOLEAN /\ window' \in Seq(Amounts) /\ Len(window') <= Samples
         /\ arrivals' \in 0 .. Cap /\ lates' \in 0 .. 3 /\ punctual' \in 0 .. Forgotten
         /\ ArrivalsInv'
<1>1. /\ window \in Seq(Amounts) /\ Len(window) \in Nat /\ Len(window) <= Samples
      /\ Samples \in Nat /\ Enough \in Nat /\ Enough >= 2 /\ Enough <= Samples
      /\ Cap \in Nat /\ arrivals \in Nat /\ arrivals <= Cap /\ arrivals \in 0 .. Cap
      /\ lates \in Nat /\ lates <= 3 /\ punctual \in Nat /\ punctual <= Forgotten
      /\ Forgotten \in Nat /\ Forgotten > Samples /\ 40 * (Forgotten - Samples) > Cap
      /\ DOMAIN window = 1 .. Len(window) /\ LateOnes(window) \in Nat
  <2>1. window \in Seq(Amounts)
    BY DEF ReserveInv, ReserveTypeOK, Amounts
  <2>2. Len(window) \in Nat /\ DOMAIN window = 1 .. Len(window) /\ LateOnes(window) \in Nat
    BY <2>1, LenProperties, LateType
  <2>3. /\ Samples \in Nat /\ Enough \in Nat /\ Enough >= 2 /\ Enough <= Samples /\ Cap \in Nat
        /\ Forgotten \in Nat /\ Forgotten > Samples /\ 40 * (Forgotten - Samples) > Cap
    BY PlayoutAssumption DEF Forgotten
  <2> QED
    BY <2>1, <2>2, <2>3 DEF ReserveInv, ReserveTypeOK
<1>2. /\ q.ready \in Amounts /\ (q.ready > 0 <=> q.ready # 0)
      /\ punctual' = IF q.ready > 0 THEN 0 ELSE Least(punctual + 1, Forgotten)
  BY DEF Pictures, Amounts, Lateness, ReservePicture
<1>3. /\ punctual' \in Nat /\ punctual' <= Forgotten /\ punctual' <= punctual + 1
      /\ q.ready > 0 => punctual' = 0
      /\ ~(q.ready > 0) => \/ punctual' = punctual + 1
                           \/ punctual = Forgotten /\ punctual' = Forgotten
  BY <1>1, <1>2 DEF Least
<1>4. /\ ~begun => window = <<>> /\ arrivals = 0
      /\ lates < 3 => LateOnes(window) <= lates
      /\ arrivals > 0 => lates >= 2
      /\ \A i \in DOMAIN window : i > Len(window) - punctual => window[i] = 0
      /\ Len(window) < Samples /\ Len(window) < punctual => arrivals = 0
      /\ punctual > Samples => arrivals = 0 \/ arrivals + 50 * (punctual - Samples) <= Cap
  BY DEF ReserveInv, ArrivalsInv
<1>5. begun' = TRUE
  BY DEF ReservePicture, Arrive
<1>6. CASE window' = <<>> /\ arrivals' = 0 /\ lates' \in 0 .. 3 /\ lates' >= 0
  <2>1. window' \in Seq(Amounts) /\ Len(window') = 0 /\ DOMAIN window' = {}
    BY <1>6, EmptySeq
  <2>2. LateOnes(window') = 0
    BY <2>1, LateType
  <2>3. ArrivalsInv'
    BY <1>1, <1>3, <1>5, <1>6, <2>1, <2>2 DEF ArrivalsInv
  <2> QED
    BY <1>1, <1>3, <1>5, <1>6, <2>1, <2>3
<1>7. CASE begun /\ q.next /\ q.pace <= 50000
  <2> DEFINE W == IF Len(window) < Samples THEN Append(window, q.ready)
                  ELSE Append(Tail(window), q.ready)
  <2>1. /\ window' = W /\ arrivals' = Learn(W)
        /\ lates' = IF q.ready > 0 THEN Least(lates + 1, 3) ELSE lates
    BY <1>7 DEF ReservePicture, Arrive
  <2>2. Slid(W, q.ready)
    BY DEF Slid
  <2> HIDE DEF W
  <2>3. PICK w : /\ Slid(w, q.ready) /\ window' = w /\ arrivals' = Learn(w)
                 /\ lates' = IF q.ready > 0 THEN Least(lates + 1, 3) ELSE lates
    BY <2>1, <2>2
  <2>4. Slides(w, q.ready)
    BY <1>2, <2>3, WindowSlides DEF ReserveInv
  <2>5. w \in Seq(Amounts) /\ Len(w) \in Nat /\ DOMAIN w = 1 .. Len(w) /\ LateOnes(w) \in Nat
    BY <2>4, LenProperties, LateType DEF Slides
  <2>6. LateOnes(w) <= LateOnes(window) + (IF q.ready > 0 THEN 1 ELSE 0)
    BY <1>1, <2>4, LateSlides
  <2>7. /\ lates' \in Nat /\ lates' <= 3 /\ lates' >= lates
        /\ q.ready > 0 => lates' = lates + 1 \/ lates' = 3
    BY <1>1, <2>3 DEF Least
  <2>8. lates' < 3 => LateOnes(w) <= lates'
    BY <1>1, <1>4, <2>3, <2>5, <2>6, <2>7 DEF Least
  <2>9. /\ Learn(w) \in 0 .. Cap
        /\ Learn(w) > 0 => arrivals > 0 \/ LateOnes(w) >= 2
        /\ (\A i \in DOMAIN w : w[i] = 0) =>
              /\ arrivals = 0 => Learn(w) = 0
              /\ Learn(w) <= arrivals
              /\ Len(w) >= Enough => Learn(w) = 0 \/ Learn(w) + 50 <= arrivals
    BY <1>1, <2>5, LearnFacts
  <2>10. arrivals' > 0 => lates' >= 2
    BY <1>1, <1>4, <2>3, <2>5, <2>7, <2>8, <2>9
  <2>11. ASSUME NEW i \in 1 .. Len(w), i > Len(w) - punctual' PROVE w[i] = 0
    <3>1. punctual' > 0 /\ ~(q.ready > 0) /\ q.ready = 0
      BY <1>2, <1>3, <2>5, <2>11
    <3>2. CASE i = Len(w)
      BY <2>4, <3>1, <3>2 DEF Slides
    <3>3. CASE i # Len(w)
      <4> DEFINE j == i + ((Len(window) - Len(w)) + 1)
      <4>1. i \in 1 .. Len(w) - 1
        <5>1. i \in Nat /\ i >= 1 /\ i <= Len(w) /\ Len(w) \in Nat
          BY <2>5
        <5> QED
          BY <3>3, <5>1
      <4>2. j \in 1 .. Len(window) /\ w[i] = window[j]
        BY <2>4, <4>1 DEF Slides
      <4>3. j > Len(window) - punctual
        BY <1>1, <1>3, <2>5, <2>11
      <4> QED
        BY <1>1, <1>4, <4>2, <4>3
    <3> QED
      BY <3>2, <3>3
  <2>12. Len(w) <= punctual' => \A i \in DOMAIN w : w[i] = 0
    BY <1>3, <2>5, <2>11
  <2>13. Len(w) < Samples /\ Len(w) < punctual' => arrivals' = 0
    <3>1. ASSUME Len(w) < Samples, Len(w) < punctual' PROVE arrivals' = 0
      <4>1. Len(w) = Len(window) + 1
        BY <2>4, <3>1 DEF Slides
      <4>2. Len(window) < Samples /\ Len(window) < punctual
        BY <1>1, <1>3, <2>5, <3>1, <4>1
      <4> QED
        BY <1>3, <1>4, <2>3, <2>5, <2>9, <2>12, <3>1, <4>2
    <3> QED
      BY <3>1
  <2>14. punctual' > Samples => arrivals' = 0 \/ arrivals' + 50 * (punctual' - Samples) <= Cap
    <3>1. ASSUME punctual' > Samples PROVE arrivals' = 0 \/ arrivals' + 50 * (punctual' - Samples) <= Cap
      <4>1. ~(q.ready > 0) /\ punctual >= Samples
        BY <1>1, <1>3, <3>1
      <4>2. Len(w) <= Samples
        BY <1>1, <2>4 DEF Slides
      <4>3. /\ arrivals = 0 => arrivals' = 0
            /\ arrivals' <= arrivals
            /\ Len(w) >= Enough => arrivals' = 0 \/ arrivals' + 50 <= arrivals
        BY <1>1, <1>3, <2>3, <2>5, <2>9, <2>12, <3>1, <4>2
      <4>4. CASE Len(w) < Samples
        BY <1>1, <1>3, <2>5, <2>13, <3>1, <4>4
      <4>5. CASE Len(w) = Samples
        <5>1. arrivals' = 0 \/ arrivals' + 50 <= arrivals
          BY <1>1, <4>3, <4>5
        <5>2. arrivals' \in Nat
          BY <1>1, <2>3, <2>9
        <5>3. CASE punctual' = punctual + 1
          <6> DEFINE p == punctual - Samples
          <6>1. p \in Nat /\ p + 1 = punctual' - Samples
            BY <1>1, <4>1, <5>3
          <6>2. p > 0 => arrivals = 0 \/ arrivals + 50 * p <= Cap
            BY <1>1, <1>4
          <6> HIDE DEF p
          <6>3. arrivals' = 0 \/ arrivals' + 50 * (p + 1) <= Cap
            BY <1>1, <5>1, <5>2, <6>1, <6>2, GoesDown
          <6> QED
            BY <6>1, <6>3
        <5>4. CASE punctual = Forgotten /\ punctual' = Forgotten
          BY <1>1, <1>4, <4>3, <5>4
        <5> QED
          BY <1>3, <4>1, <5>3, <5>4
      <4>6. Len(w) < Samples \/ Len(w) = Samples
        <5>1. Len(w) \in Nat /\ Samples \in Nat
          BY <1>1, <2>5
        <5> QED
          BY <4>2, <5>1
      <4> QED
        BY <4>4, <4>5, <4>6, Zenon
    <3> QED
      BY <3>1
  <2>15. ArrivalsInv'
    BY <1>5, <2>3, <2>5, <2>8, <2>10, <2>11, <2>13, <2>14 DEF ArrivalsInv
  <2>16. Len(w) <= Samples
    BY <1>1, <2>4 DEF Slides
  <2> QED
    BY <1>1, <1>3, <1>5, <2>3, <2>5, <2>7, <2>9, <2>15, <2>16
<1>8. CASE ~begun
  <2>1. window' = window /\ arrivals' = arrivals /\ lates' = lates
    BY <1>8 DEF ReservePicture, Arrive
  <2> QED
    BY <1>1, <1>4, <1>6, <1>8, <2>1
<1>9. CASE begun /\ ~(q.next /\ q.pace <= 50000)
  <2>1. window' = <<>> /\ arrivals' = 0 /\ lates' = 0
    BY <1>9 DEF ReservePicture, Arrive, Broken
  <2> QED
    BY <1>6, <2>1
<1> QED
  BY <1>7, <1>8, <1>9 DEF ReserveInv, ReserveTypeOK

\* A picture teaches the display.
LEMMA Displays ==
  ASSUME ReserveInv, NEW q \in Pictures, ReservePicture(q)
  PROVE  /\ follows' \in BOOLEAN /\ misses' \in 0 .. 3 /\ spacing' \in 0 .. Cap
         /\ shownLate' \in 0 .. 3 /\ SpacingInv'
<1>1. /\ Cap \in Nat /\ spacing \in Nat /\ spacing <= Cap /\ follows \in BOOLEAN
      /\ misses \in Nat /\ misses <= 3 /\ shownLate \in Nat /\ shownLate <= 3
      /\ punctual \in Nat /\ punctual <= Forgotten
      /\ Forgotten \in Nat /\ 40 * Forgotten > Cap
  <2>1. Cap \in Nat /\ Forgotten \in Nat /\ 40 * Forgotten > Cap
    BY PlayoutAssumption DEF Forgotten
  <2> QED
    BY <2>1 DEF ReserveInv, ReserveTypeOK
<1>2. /\ q.ready \in {0, 3000}
      /\ punctual' = IF q.ready > 0 THEN 0 ELSE Least(punctual + 1, Forgotten)
  BY DEF Pictures, Lateness, ReservePicture
<1>3. /\ punctual' \in Nat /\ punctual' <= punctual + 1
      /\ q.ready > 0 => punctual' = 0
      /\ ~(q.ready > 0) => \/ punctual' = punctual + 1
                           \/ punctual = Forgotten /\ punctual' = Forgotten
  BY <1>1, <1>2 DEF Least
<1>4. /\ ~follows => misses = 0 /\ spacing = 0
      /\ misses <= shownLate
      /\ spacing > 0 => shownLate >= 3
      /\ punctual > 0 => spacing = 0 \/ spacing + 40 * punctual <= Cap
  BY DEF ReserveInv, SpacingInv
<1>5. CASE misses' = 0 /\ spacing' = 0 /\ shownLate' \in 0 .. 3 /\ follows' \in BOOLEAN
  BY <1>1, <1>5 DEF SpacingInv
<1>6. CASE follows /\ follows' = TRUE /\ ~Reset
  <2>1. shownLate' = IF q.ready > 0 THEN Least(shownLate + 1, 3) ELSE shownLate
    BY <1>6 DEF ReservePicture, Displayed
  <2>2. CASE Owed(q)
    <3>1. /\ misses' = Least(misses + 1, 3)
          /\ spacing' = IF misses + 1 >= 3 THEN Least(Cap, spacing + 250) ELSE spacing
      BY <1>6, <2>2 DEF ReservePicture, Displayed
    <3>2. q.ready > 0 /\ punctual' = 0
      BY <1>2, <2>2 DEF Owed
    <3> QED
      BY <1>1, <1>4, <1>6, <2>1, <3>1, <3>2 DEF SpacingInv, Least
  <2>3. CASE ~Owed(q)
    <3>1. misses' = 0 /\ spacing' = spacing - Least(spacing, 40)
      BY <1>6, <2>3 DEF ReservePicture, Displayed
    <3>2. /\ spacing' \in Nat /\ spacing' <= spacing
          /\ spacing' = 0 \/ spacing' + 40 <= spacing
      BY <1>1, <3>1 DEF Least
    <3>3. shownLate' \in Nat /\ shownLate' <= 3 /\ shownLate' >= shownLate
      BY <1>1, <2>1 DEF Least
    <3>4. punctual' > 0 => spacing' = 0 \/ spacing' + 40 * punctual' <= Cap
      <4>1. CASE punctual' = punctual + 1
        <5>1. spacing' = 0 \/ spacing' + 40 * (punctual + 1) <= Cap
          BY <1>1, <1>4, <3>2, GoesDown
        <5> QED
          BY <4>1, <5>1
      <4>2. CASE punctual = Forgotten /\ punctual' = Forgotten
        <5>1. spacing = 0
          BY <1>1, <1>4, <4>2
        <5> QED
          BY <3>2, <5>1, <1>1
      <4>3. CASE punctual' = 0
        BY <4>3
      <4> QED
        BY <1>2, <1>3, <4>1, <4>2, <4>3
    <3> QED
      BY <1>1, <1>4, <1>6, <3>1, <3>2, <3>3, <3>4 DEF SpacingInv
  <2> QED
    BY <2>2, <2>3
<1>7. CASE ~q.variable \/ Cap = 0
  <2>1. follows' = FALSE
    BY <1>7 DEF ReservePicture, Displayed
  <2>2. follows' \in BOOLEAN
    BY <2>1, Zenon
  <2>3. CASE follows
    <3>1. Reset
      BY <1>7, <2>3 DEF ReservePicture, Displayed
    <3> QED
      BY <1>5, <2>2, <3>1 DEF Reset
  <2>4. CASE ~follows
    <3>1. misses' = misses /\ spacing' = spacing /\ shownLate' = shownLate
      BY <1>7, <2>4 DEF ReservePicture, Displayed
    <3> QED
      BY <1>1, <1>4, <1>5, <2>4, <2>2, <3>1
  <2> QED
    BY <2>3, <2>4
<1>8. CASE ~(~q.variable \/ Cap = 0)
  <2>1. follows' = TRUE
    BY <1>8 DEF ReservePicture, Displayed
  <2>2. CASE ~follows
    <3>1. misses' = misses /\ spacing' = spacing /\ shownLate' = shownLate
      BY <1>8, <2>2 DEF ReservePicture, Displayed
    <3> QED
      BY <1>1, <1>4, <1>5, <2>1, <2>2, <3>1
  <2>3. CASE Reset
    BY <1>5, <2>1, <2>3 DEF Reset
  <2>4. CASE follows /\ ~Reset
    BY <1>6, <2>1, <2>4
  <2> QED
    BY <2>2, <2>3, <2>4
<1> QED
  BY <1>7, <1>8

LEMMA ReserveStep ==
  ASSUME ReserveInv, [ReserveNext]_reserveVars
  PROVE  ReserveInv'
<1>1. CASE \E q \in Pictures : ReservePicture(q)
  <2>1. PICK q \in Pictures : ReservePicture(q)
    BY <1>1
  <2> QED
    BY <2>1, Arrives, Displays DEF ReserveInv, ReserveTypeOK, Amounts
<1>2. CASE Overtaken
  <2>1. Cap \in Nat
    BY PlayoutAssumption
  <2>2. /\ misses' = 0 /\ spacing' = 0 /\ shownLate' = 0 /\ follows' = FALSE
        /\ UNCHANGED <<begun, window, arrivals, lates, punctual>>
    BY <1>2 DEF Overtaken, Reset
  <2>3. ReserveTypeOK'
    <3>1. follows' \in BOOLEAN /\ begun' \in BOOLEAN
      BY <2>2, Zenon DEF ReserveInv, ReserveTypeOK
    <3> QED
      BY <2>1, <2>2, <3>1 DEF ReserveInv, ReserveTypeOK, Forgotten
  <2>4. ArrivalsInv'
    BY <2>2 DEF ReserveInv, ArrivalsInv
  <2>5. SpacingInv'
    BY <2>2 DEF SpacingInv
  <2> QED
    BY <2>3, <2>4, <2>5 DEF ReserveInv
<1>3. CASE UNCHANGED reserveVars
  BY <1>3 DEF reserveVars, ReserveInv, ReserveTypeOK, ArrivalsInv, SpacingInv
<1> QED
  BY <1>1, <1>2, <1>3 DEF ReserveNext

LEMMA ReserveStart ==
  ASSUME ReserveInit
  PROVE  ReserveInv
<1>1. Cap \in Nat /\ Samples \in Nat /\ Forgotten \in Nat
  BY PlayoutAssumption DEF Forgotten
<1>2. window \in Seq(Amounts) /\ Len(window) = 0 /\ DOMAIN window = {}
  BY EmptySeq DEF ReserveInit
<1>3. LateOnes(window) = 0
  BY <1>2, LateType
<1>4. ReserveTypeOK
  <2>1. begun \in BOOLEAN /\ follows \in BOOLEAN
    BY Zenon DEF ReserveInit
  <2> QED
    BY <1>1, <1>2, <2>1 DEF ReserveInit, ReserveTypeOK, Amounts
<1>5. ArrivalsInv
  BY <1>1, <1>2, <1>3 DEF ReserveInit, ArrivalsInv
<1>6. SpacingInv
  BY DEF ReserveInit, SpacingInv
<1> QED
  BY <1>4, <1>5, <1>6 DEF ReserveInv

\* What pictures are held back for was earned by more than one picture readied
\* late since the last break, and is forgotten once they are readied in time,
\* for every window, threshold, most that may be taught and either percentile.
THEOREM ReserveEarned == ReserveSpec => []ReserveOK
<1>1. ReserveInv => ReserveOK
  <2>1. ASSUME ReserveInv PROVE Earned
    BY <2>1 DEF ReserveInv, ArrivalsInv, SpacingInv, Earned
  <2>2. ASSUME ReserveInv, punctual = Forgotten PROVE HeldBack = 0
    <3>1. /\ Forgotten \in Nat /\ Forgotten > Samples /\ Samples \in Nat /\ Cap \in Nat
          /\ 40 * (Forgotten - Samples) > Cap
      BY PlayoutAssumption DEF Forgotten
    <3>2. arrivals \in Nat /\ spacing \in Nat
      BY <2>2, <3>1 DEF ReserveInv, ReserveTypeOK
    <3>3. arrivals = 0
      BY <2>2, <3>1, <3>2 DEF ReserveInv, ArrivalsInv
    <3>4. spacing = 0
      BY <2>2, <3>1, <3>2 DEF ReserveInv, SpacingInv
    <3> QED
      BY <3>3, <3>4 DEF HeldBack, Most
  <2> QED
    BY <2>1, <2>2 DEF ReserveOK, Forgets, ReserveInv
<1> QED
  BY <1>1, ReserveStart, ReserveStep, PTL DEF ReserveSpec

-----------------------------------------------------------------------------
(* The cadence                                                               *)

\* The time from the beginning of the pattern to a place of it.
PatternTime == <<0, 8333, 16666>>

\* A window of pictures of a PC that keeps its rate, up to this place of the
\* pattern: of one with a coarse clock it began at another place of it.
Rated(n, sum, place) ==
    /\ host = "steady" => sum = 16666 * n
    /\ host = "quantized" =>
         \E from \in 0..2, rounds \in Int :
            /\ n = 3 * rounds + place - from
            /\ sum = 33332 * rounds + PatternTime[place + 1] - PatternTime[from + 1]

\* The time a slowdown was confirmed over is not more than the time for which
\* the PC was not at its rate.
Waited == steadyFor >= Confirmation \/ slow.time + win.sum <= steadyFor

CadenceTyped ==
    /\ host \in Hosts /\ at \in 0..2 /\ fast \in 0..3
    /\ period \in Nat /\ 8333 <= period /\ period <= 250000
    /\ win.n \in Nat /\ win.sum \in Nat /\ slow.time \in Nat /\ steadyFor \in Nat

CadenceInv ==
    /\ CadenceTyped /\ Waited /\ Rated(win.n, win.sum, at)
    /\ Cadence!NeverFaster /\ Cadence!KeepsItsRate /\ Cadence!SlowsOnlyConfirmed
    /\ Cadence!MovesAtPeriod

\* Of what there is in a set of numbers, one is the least.
LEMMA LeastElement ==
    ASSUME NEW T, T \subseteq Nat, T # {}
    PROVE  \E x \in T : \A y \in T : x <= y
<1>1. IsWellFoundedOn(OpToRel(<, Nat), Nat)
  BY NatLessThanWellFounded
<1>2. PICK x \in T : \A y \in T : ~(<<y, x>> \in OpToRel(<, Nat))
  BY <1>1, WFMin
<1>3. ASSUME NEW y \in T PROVE x <= y
  <2>1. x \in Nat /\ y \in Nat
    OBVIOUS
  <2>2. ~(y < x)
    BY <1>2, <2>1 DEF OpToRel
  <2> QED
    BY <2>1, <2>2
<1> QED
  BY <1>3

LEMMA HostIs ==
    ASSUME host \in Hosts
    PROVE  host \in {"steady", "quantized", "changing"}
BY RatesAssumption DEF Cadence!CadenceAssumption

LEMMA NominalIs ==
    ASSUME host \in Hosts
    PROVE  /\ Cadence!Nominal \in {11111, 16666}
           /\ host = "steady" => Cadence!Nominal = 16666
           /\ host = "quantized" => Cadence!Nominal = 11111
BY SMT DEF Cadence!Nominal

LEMMA FittedFits ==
    ASSUME host \in Hosts, NEW sum \in Nat, NEW n \in Nat \ {0}
    PROVE  Cadence!Fitted(sum, n) \in Cadence!Nominal..250000
<1> DEFINE measured == sum \div n
<1>1. measured \in Nat
  BY SMT
<1> HIDE DEF measured
<1>2. Cadence!Stable(measured) \in Nat /\ Cadence!Stable(measured) >= Cadence!Nominal
  BY SMT, <1>1, NominalIs DEF Cadence!Stable
<1>3. Cadence!Fitted(sum, n) = Cadence!Clamp(Cadence!Stable(measured), 8333, 250000)
  BY SMT DEF Cadence!Fitted, measured
<1> QED
  BY SMT, <1>2, <1>3, NominalIs DEF Cadence!Clamp, Cadence!Least, Cadence!Most

\* Of a PC that keeps its rate a whole window has that rate.
LEMMA RateFits ==
    ASSUME host \in Hosts, host # "changing", NEW sum \in Nat, NEW n \in Nat, n >= 8,
           NEW place \in 0..2, Rated(n, sum, place)
    PROVE  Cadence!Fitted(sum, n) = Cadence!Nominal
<1> DEFINE measured == sum \div n
<1>1. measured \in Nat /\ measured * n <= sum
  BY SMT
<1>2. measured <= Cadence!Nominal \/ (measured - Cadence!Nominal) * 100 <= Cadence!Nominal * 5
  <2>1. CASE host = "steady"
    <3>1. sum = 16666 * n
      BY SMT, <2>1 DEF Rated
    <3>2. measured <= 16666
      <4>1. SUFFICES ASSUME measured >= 16667 PROVE FALSE
        BY SMT, <1>1
      <4>2. measured * n >= 16667 * n
        BY SMT, <1>1, <4>1
      <4> QED
        BY SMT, <1>1, <3>1, <4>2
    <3> QED
      BY SMT, <2>1, <3>2, NominalIs
  <2>2. CASE host = "quantized"
    <3>1. PICK from \in 0..2, rounds \in Int :
            /\ n = 3 * rounds + place - from
            /\ sum = 33332 * rounds + PatternTime[place + 1] - PatternTime[from + 1]
      BY SMT, <2>2 DEF Rated
    <3>2. PatternTime[1] = 0 /\ PatternTime[2] = 8333 /\ PatternTime[3] = 16666
      BY SMT DEF PatternTime
    <3>3. sum < 11667 * n
      BY SMT, <3>1, <3>2
    <3>4. measured <= 11666
      <4>1. SUFFICES ASSUME measured >= 11667 PROVE FALSE
        BY SMT, <1>1
      <4>2. measured * n >= 11667 * n
        BY SMT, <1>1, <4>1
      <4> QED
        BY SMT, <1>1, <3>3, <4>2
    <3> QED
      BY SMT, <1>1, <2>2, <3>4, NominalIs
  <2>3. host = "steady" \/ host = "quantized"
    BY HostIs
  <2> QED
    BY <2>1, <2>2, <2>3
<1> HIDE DEF measured
<1>3. Cadence!Stable(measured) = Cadence!Nominal
  BY SMT, <1>1, <1>2, NominalIs DEF Cadence!Stable
<1> QED
  BY SMT, <1>3, NominalIs DEF Cadence!Fitted, Cadence!Clamp, Cadence!Least, Cadence!Most, measured

\* What a picture is counted into: the window, or a new one.
LEMMA JoinedIs ==
    ASSUME NEW old, NEW delta, NEW time, NEW frames,
           NEW w, w = Cadence!Joined(old, delta, time, frames)
    PROVE  \/ w.n = old.n + frames /\ w.sum = old.sum + time
           \/ w.n = 0 + frames /\ w.sum = 0 + time
BY SMT DEF Cadence!Joined, Cadence!Sent

LEMMA ConfirmedFor ==
    ASSUME NEW fit, NEW p, NEW w, w.sum \in Nat, slow.time \in Nat, Cadence!Modest(fit, p)
    PROVE  /\ Cadence!Trying(fit, p, w).time \in Nat
           /\ Cadence!Trying(fit, p, w).time <= slow.time + w.sum
BY SMT DEF Cadence!Trying, Cadence!Confirming

\* What observing a picture does, its intermediate values by their names.
Observed(time, frames, more, p, old, w, fit, trying, found) ==
    /\ more = 0 \/ more = Cadence!Least(fast + 1, 3)
    /\ (p = Cadence!Nominal \/ p = period) /\ (fast' = 0 \/ fast' = more)
    /\ old = Cadence!NoWindow \/ old = win
    /\ w = Cadence!Joined(old, time \div Cadence!Sent(frames), time, frames)
    /\ fit = Cadence!Fitted(w.sum, w.n) /\ trying = Cadence!Trying(fit, p, w)
    /\ IF Cadence!Modest(fit, p) /\ trying.time < Confirmation THEN found = p ELSE found = fit
    /\ win' = IF Cadence!Complete(w) THEN Cadence!NoWindow ELSE w
    /\ slow' = IF Cadence!Complete(w) THEN trying ELSE slow
    /\ period' = IF Cadence!Complete(w) THEN found ELSE p
    /\ \/ Cadence!Complete(w) /\ ~Cadence!Low(found) /\ moving' = found
       \/ Cadence!Complete(w) /\ Cadence!Low(found) /\ moving' \in {p, moving}
       \/ ~Cadence!Complete(w) /\ moving' = p
       \/ ~Cadence!Complete(w) /\ moving' = moving /\ p = period
    /\ slowed' = (Cadence!Complete(w) /\ Cadence!Modest(fit, p) /\ found # p)
    /\ steadyFor' = IF Cadence!Complete(w) /\ fit = Cadence!Nominal THEN 0
                    ELSE Cadence!Least(steadyFor + time, Confirmation)

LEMMA ObserveIs ==
    ASSUME NEW time, NEW frames, Cadence!Observe(time, frames)
    PROVE  \E more, p, old, w, fit, trying, found :
             Observed(time, frames, more, p, old, w, fit, trying, found)
<1> DEFINE delta == time \div Cadence!Sent(frames)
           more == IF Cadence!FastEnough(delta) THEN Cadence!Least(fast + 1, 3) ELSE 0
           recovers == Cadence!Recovers(more)
           p == IF recovers THEN Cadence!Nominal ELSE period
           old == IF recovers THEN Cadence!NoWindow ELSE win
           w == Cadence!Joined(old, delta, time, frames)
           fit == Cadence!Fitted(w.sum, w.n)
           trying == Cadence!Trying(fit, p, w)
           found == IF Cadence!Modest(fit, p) /\ trying.time < Confirmation THEN p ELSE fit
           now == IF Cadence!Complete(w) THEN found ELSE p
<1>1. /\ period' = now
      /\ moving' = IF Cadence!Complete(w) /\ ~Cadence!Low(now) THEN now
                   ELSE IF recovers THEN p ELSE moving
      /\ fast' = IF recovers THEN 0 ELSE more
      /\ win' = IF Cadence!Complete(w) THEN Cadence!NoWindow ELSE w
      /\ slow' = IF Cadence!Complete(w) THEN trying ELSE slow
      /\ slowed' = (Cadence!Complete(w) /\ Cadence!Modest(fit, p) /\ now # p)
      /\ steadyFor' = IF Cadence!Complete(w) /\ fit = Cadence!Nominal THEN 0
                      ELSE Cadence!Least(steadyFor + time, Confirmation)
  BY Zenon DEF Cadence!Observe
<1>2. w = Cadence!Joined(old, delta, time, frames) /\ fit = Cadence!Fitted(w.sum, w.n)
  BY Zenon
<1>3. more = 0 \/ more = Cadence!Least(fast + 1, 3)
  BY Zenon
<1>4. (p = Cadence!Nominal \/ p = period) /\ (fast' = 0 \/ fast' = more)
  <2>1. p = Cadence!Nominal \/ p = period
    BY Zenon
  <2> HIDE DEF recovers, more
  <2>2. fast' = 0 \/ fast' = more
    BY <1>1, Zenon
  <2> QED
    BY <2>1, <2>2, Zenon
<1>5. old = Cadence!NoWindow \/ old = win
  BY Zenon
<1>6. trying = Cadence!Trying(fit, p, w)
  BY Zenon
<1>7. IF Cadence!Modest(fit, p) /\ trying.time < Confirmation THEN found = p ELSE found = fit
  BY Zenon
<1>8. period' = IF Cadence!Complete(w) THEN found ELSE p
  BY <1>1, Zenon
<1>9. slowed' = (Cadence!Complete(w) /\ Cadence!Modest(fit, p) /\ found # p)
  BY <1>1, Zenon
<1>10. \/ Cadence!Complete(w) /\ ~Cadence!Low(found) /\ moving' = found
       \/ Cadence!Complete(w) /\ Cadence!Low(found) /\ moving' \in {p, moving}
       \/ ~Cadence!Complete(w) /\ moving' = p
       \/ ~Cadence!Complete(w) /\ moving' = moving /\ p = period
  BY <1>1, Zenon
<1> HIDE DEF more, recovers, p, old, w, fit, trying, found, now
<1>11. Observed(time, frames, more, p, old, w, fit, trying, found)
  BY <1>1, <1>2, <1>3, <1>4, <1>5, <1>6, <1>7, <1>8, <1>9, <1>10, Zenon DEF Observed
<1> QED
  BY <1>11, Zenon

LEMMA ObserveFits ==
    ASSUME CadenceInv, NEW place \in 0..2, host' = host, at' = place,
           NEW time \in Nat, NEW frames \in 1..3,
           NEW more, NEW p, NEW old, NEW w, NEW fit, NEW trying, NEW found,
           Observed(time, frames, more, p, old, w, fit, trying, found),
           Rated(win.n + frames, win.sum + time, place), Rated(0 + frames, 0 + time, place)
    PROVE  CadenceInv'
<1>1. w = Cadence!Joined(old, time \div Cadence!Sent(frames), time, frames)
  BY Zenon DEF Observed
<1>2. fit = Cadence!Fitted(w.sum, w.n)
  BY Zenon DEF Observed
<1>3. trying = Cadence!Trying(fit, p, w)
  BY Zenon DEF Observed
<1>4. more = 0 \/ more = Cadence!Least(fast + 1, 3)
  BY Zenon DEF Observed
<1>5. (p = Cadence!Nominal \/ p = period) /\ (fast' = 0 \/ fast' = more)
  BY Zenon DEF Observed
<1>6. old = Cadence!NoWindow \/ old = win
  BY Zenon DEF Observed
<1>7. IF Cadence!Modest(fit, p) /\ trying.time < Confirmation THEN found = p ELSE found = fit
  BY Zenon DEF Observed
<1>8. CadenceTyped /\ Waited /\ Rated(win.n, win.sum, at) /\ Confirmation \in Nat
  BY SMT, RatesAssumption DEF CadenceInv, Cadence!CadenceAssumption
<1>9. more \in 0..3
  BY SMT, <1>4, <1>8 DEF CadenceTyped, Cadence!Least
<1>10. p \in Cadence!Nominal..250000 /\ 8333 <= p
  BY SMT, <1>5, <1>8, NominalIs DEF CadenceTyped, CadenceInv, Cadence!NeverFaster
<1>11. /\ old.n \in Nat /\ old.sum \in Nat /\ old.sum <= win.sum
       /\ old = win \/ (old.n = 0 /\ old.sum = 0)
  BY SMT, <1>6, <1>8 DEF CadenceTyped, Cadence!NoWindow
<1>12. /\ w.n \in Nat \ {0} /\ w.sum \in Nat /\ w.sum <= win.sum + time
       /\ Rated(w.n, w.sum, place)
  <2>1. \/ w.n = old.n + frames /\ w.sum = old.sum + time
        \/ w.n = 0 + frames /\ w.sum = 0 + time
    BY SMT, <1>1, JoinedIs
  <2>2. \/ w.n = win.n + frames /\ w.sum = win.sum + time
        \/ w.n = 0 + frames /\ w.sum = 0 + time
    BY SMT, <1>11, <2>1
  <2>3. Rated(w.n, w.sum, place)
    BY Zenon, <2>2
  <2> QED
    BY SMT, <1>8, <2>2, <2>3 DEF CadenceTyped
<1>13. fit \in Cadence!Nominal..250000
  BY SMT, <1>2, <1>8, <1>12, FittedFits DEF CadenceTyped
<1>14. Cadence!Complete(w) => w.n >= 8
  BY SMT DEF Cadence!Complete
<1>15. host # "changing" /\ Cadence!Complete(w) => fit = Cadence!Nominal
  BY SMT, <1>2, <1>8, <1>12, <1>14, RateFits DEF CadenceTyped
<1>16. Cadence!Modest(fit, p) => trying.time \in Nat /\ trying.time <= slow.time + w.sum
  BY SMT, <1>3, <1>8, <1>12, ConfirmedFor DEF CadenceTyped
<1>17. ~Cadence!Modest(fit, p) => trying.time = 0
  BY SMT, <1>3 DEF Cadence!Trying, Cadence!NoSlow
<1>18. Cadence!Modest(fit, p) => fit # Cadence!Nominal
  BY SMT, <1>8, NominalIs DEF Cadence!Modest, Cadence!Percent, CadenceTyped
<1>19. found \in Cadence!Nominal..250000
  BY SMT, <1>10, <1>13, <1>7
<1>20. /\ win' = IF Cadence!Complete(w) THEN Cadence!NoWindow ELSE w
       /\ slow' = IF Cadence!Complete(w) THEN trying ELSE slow
       /\ period' = IF Cadence!Complete(w) THEN found ELSE p
       /\ slowed' = (Cadence!Complete(w) /\ Cadence!Modest(fit, p) /\ found # p)
       /\ steadyFor' = IF Cadence!Complete(w) /\ fit = Cadence!Nominal THEN 0
                       ELSE Cadence!Least(steadyFor + time, Confirmation)
  BY Zenon DEF Observed
<1>21. \/ Cadence!Complete(w) /\ ~Cadence!Low(found) /\ moving' = found
       \/ Cadence!Complete(w) /\ Cadence!Low(found) /\ moving' \in {p, moving}
       \/ ~Cadence!Complete(w) /\ moving' = p
       \/ ~Cadence!Complete(w) /\ moving' = moving /\ p = period
  BY Zenon DEF Observed
<1>22. Cadence!Nominal' = Cadence!Nominal
  BY SMT DEF Cadence!Nominal
<1>23. host # "changing" => found = Cadence!Nominal \/ ~Cadence!Complete(w)
  BY Zenon, <1>15, <1>18, <1>7
<1>24. host # "changing" => p = Cadence!Nominal
  BY Zenon, <1>5 DEF CadenceInv, Cadence!KeepsItsRate
<1>25. CadenceTyped'
  BY SMT, <1>8, <1>9, <1>10, <1>12, <1>13, <1>16, <1>17, <1>19, <1>20, <1>5, NominalIs
     DEF CadenceTyped, Cadence!NoWindow, Cadence!Least
<1>26. /\ slow.time \in Nat /\ win.sum \in Nat /\ steadyFor \in Nat
       /\ steadyFor >= Confirmation \/ slow.time + win.sum <= steadyFor
  BY SMT, <1>8 DEF CadenceTyped, Waited
<1>27. Waited'
  <2>1. CASE ~Cadence!Complete(w)
    <3>1. /\ win' = w /\ slow' = slow
          /\ steadyFor' = Cadence!Least(steadyFor + time, Confirmation)
      BY Zenon, <1>20, <2>1
    <3> QED
      BY SMT, <1>8, <1>12, <1>26, <3>1 DEF Waited, Cadence!Least
  <2>2. CASE Cadence!Complete(w) /\ Cadence!Modest(fit, p)
    <3>1. /\ win'.sum = 0 /\ slow' = trying
          /\ steadyFor' = Cadence!Least(steadyFor + time, Confirmation)
      BY Zenon, <1>18, <1>20, <2>2 DEF Cadence!NoWindow
    <3> QED
      BY SMT, <1>8, <1>12, <1>16, <1>26, <2>2, <3>1 DEF Waited, Cadence!Least
  <2>3. CASE Cadence!Complete(w) /\ ~Cadence!Modest(fit, p)
    <3>1. win'.sum = 0 /\ slow'.time = 0 /\ steadyFor' \in Nat
      BY SMT, <1>8, <1>17, <1>20, <1>25, <2>3 DEF CadenceTyped, Cadence!NoWindow
    <3> QED
      BY SMT, <1>8, <3>1 DEF Waited
  <2> QED
    BY Zenon, <2>1, <2>2, <2>3
<1>28. Rated(win.n, win.sum, at)'
  <2>1. CASE Cadence!Complete(w)
    <3>1. win'.n = 0 /\ win'.sum = 0
      BY SMT, <1>20, <2>1 DEF Cadence!NoWindow
    <3>2. PatternTime[place + 1] \in Nat
      BY SMT DEF PatternTime
    <3>3. Rated(0, 0, place)
      <4>1. \E from \in 0..2, rounds \in Int :
              /\ 0 = 3 * rounds + place - from
              /\ 0 = 33332 * rounds + PatternTime[place + 1] - PatternTime[from + 1]
        <5> WITNESS place \in 0..2, 0 \in Int
        <5> QED
          BY SMT, <3>2
      <4> QED
        BY SMT, <4>1 DEF Rated
    <3> QED
      BY SMT, <3>1, <3>3 DEF Rated
  <2>2. CASE ~Cadence!Complete(w)
    <3>1. win' = w
      BY Zenon, <1>20, <2>2
    <3> QED
      BY SMT, <1>12, <3>1 DEF Rated
  <2> QED
    BY Zenon, <2>1, <2>2
<1>29. Cadence!NeverFaster'
  BY SMT, <1>8, <1>10, <1>19, <1>20, <1>22, NominalIs DEF Cadence!NeverFaster, CadenceTyped
<1>30. Cadence!KeepsItsRate'
  BY Zenon, <1>20, <1>21, <1>22, <1>23, <1>24 DEF CadenceInv, Cadence!KeepsItsRate
<1>31. Cadence!SlowsOnlyConfirmed'
  <2> SUFFICES ASSUME Cadence!Complete(w), Cadence!Modest(fit, p), found # p
               PROVE  steadyFor' >= Confirmation
    BY Zenon, <1>20 DEF Cadence!SlowsOnlyConfirmed
  <2>1. trying.time \in Nat /\ trying.time <= slow.time + w.sum /\ ~(trying.time < Confirmation)
    BY Zenon, <1>16, <1>7
  <2>2. steadyFor' = Cadence!Least(steadyFor + time, Confirmation)
    BY Zenon, <1>18, <1>20
  <2> QED
    BY SMT, <1>8, <1>26, <1>12, <2>1, <2>2 DEF Cadence!Least
<1>32. Cadence!MovesAtPeriod'
  BY SMT, <1>20, <1>21 DEF CadenceInv, Cadence!MovesAtPeriod
<1> QED
  BY <1>25, <1>28, <1>27, <1>29, <1>30, <1>31, <1>32, Zenon DEF CadenceInv
LEMMA DivAtLeast ==
    ASSUME NEW a \in Nat, NEW n \in Nat \ {0}, NEW q \in Nat, n * q <= a
    PROVE  a \div n >= q
<1> DEFINE e == a \div n
<1>1. e \in Nat /\ a < (e + 1) * n
  BY SMT
<1> HIDE DEF e
<1>2. e + 1 <= q => (e + 1) * n <= q * n
  BY SMT, <1>1
<1> QED
  BY SMT, <1>1, <1>2 DEF e

\* A period that may be fitted.
IsPeriod(p) == p \in Nat /\ p <= 250000

\* One that takes more than a scanout.
Doubled(p) == p > 16833

\* From how many copies on, which are enough, and which the fewest of those.
FewestTried(p) == (p + 16833 - 1) \div 16833
EnoughCopies(p, n) == n = 32 \/ p \div n <= 13500 \/ p \div (n + 1) < 8342
FirstEnough(p, n) == EnoughCopies(p, n) /\ \A k \in FewestTried(p)..n - 1 : ~EnoughCopies(p, k)

\* Twice to 29 times a picture, not faster than the display goes nor slower than
\* 74 Hz, and the picture lasts as long but for the rounding.
LEMMA CopiesAre ==
    ASSUME NEW p, IsPeriod(p), Doubled(p)
    PROVE  /\ Cadence!Copies(p) \in 2..29 /\ Cadence!Interval(p) \in Nat /\ 8342 <= Cadence!Interval(p) /\ Cadence!Interval(p) <= 13500
           /\ Cadence!Copies(p) * Cadence!Interval(p) <= p
           /\ p < Cadence!Copies(p) * Cadence!Interval(p) + Cadence!Copies(p)
<1> DEFINE least == FewestTried(p)
<1>1. /\ least \in Nat /\ least <= 15
      /\ p <= 16833 * least /\ 16833 * least <= p + 16832
  BY SMT DEF IsPeriod, FewestTried
<1>2. Cadence!Copies(p) = IF least <= 1 THEN 1 ELSE CHOOSE n \in least..Cadence!Most(least, 32) : FirstEnough(p, n)
  BY SMT DEF FirstEnough, EnoughCopies, FewestTried, Cadence!Copies, Cadence!SingleScanout, Cadence!MostCopies, Cadence!Floor
<1> HIDE DEF least
<1>3. least > 1
  BY SMT, <1>1 DEF IsPeriod, Doubled
<1>4. Cadence!Most(least, 32) = 32
  BY SMT, <1>1 DEF Cadence!Most
<1>5. PICK n \in {k \in least..32 : EnoughCopies(p, k)} : \A k \in {i \in least..32 : EnoughCopies(p, i)} : n <= k
  <2>1. EnoughCopies(p, 32) /\ 32 \in least..32
    BY SMT, <1>1 DEF EnoughCopies
  <2> DEFINE T == {k \in least..32 : EnoughCopies(p, k)}
  <2>2. T \subseteq Nat /\ T # {}
    BY SMT, <1>1, <2>1
  <2> HIDE DEF T
  <2>3. \E n \in T : \A k \in T : n <= k
    BY <2>2, LeastElement, Zenon
  <2> QED
    BY <2>3, SMT DEF T
<1>6. n \in least..32 /\ FirstEnough(p, n)
  BY SMT, <1>1, <1>5 DEF FirstEnough, least
<1>7. Cadence!Copies(p) \in least..32 /\ FirstEnough(p, Cadence!Copies(p))
  <2>1. ~(least <= 1)
    BY SMT, <1>1, <1>3
  <2>2. Cadence!Copies(p) = CHOOSE i \in least..32 : FirstEnough(p, i)
    BY Zenon, <1>2, <1>4, <2>1
  <2>3. \E i \in least..32 : FirstEnough(p, i)
    BY Zenon, <1>6
  <2>4. (CHOOSE i \in least..32 : FirstEnough(p, i)) \in least..32
        /\ FirstEnough(p, CHOOSE i \in least..32 : FirstEnough(p, i))
    BY Zenon, <2>3
  <2> QED
    BY Zenon, <2>2, <2>4
<1> DEFINE copies == Cadence!Copies(p)
           each == p \div copies
<1>8. copies \in Nat \ {0} /\ copies >= least /\ copies <= 32 /\ copies >= 2
  BY SMT, <1>1, <1>3, <1>4, <1>7
<1>9. each \in Nat /\ copies * each <= p /\ p < copies * each + copies
  BY SMT, <1>8 DEF IsPeriod
<1>10. each >= 8342
  <2>1. CASE copies = least
    <3>1. copies * 8342 <= p
      BY SMT, <1>1, <1>8, <2>1 DEF IsPeriod
    <3> HIDE DEF copies
    <3> QED
      BY SMT, <1>8, <3>1, DivAtLeast DEF IsPeriod
  <2>2. CASE copies > least
    <3>1. copies - 1 \in least..copies - 1
      BY SMT, <1>1, <1>8, <2>2
    <3>2. ~EnoughCopies(p, copies - 1)
      BY SMT, <1>7, <3>1 DEF FirstEnough, least
    <3> QED
      BY SMT, <1>8, <3>2 DEF IsPeriod, EnoughCopies
  <2> QED
    BY SMT, <1>1, <1>8, <2>1, <2>2
<1> HIDE DEF copies, each
<1>11. copies * each >= copies * 8342
  BY SMT, <1>8, <1>9, <1>10
<1>12. copies <= 29
  BY SMT, <1>8, <1>9, <1>11 DEF IsPeriod
<1>13. each <= 13500
  <2>1. EnoughCopies(p, copies)
    BY <1>7 DEF FirstEnough, copies
  <2>2. each > 13500 => copies * each >= copies * 13501
    BY SMT, <1>8, <1>9
  <2>3. each > 13500 => (copies + 1) * 8342 <= p
    BY SMT, <1>8, <1>9, <2>2 DEF IsPeriod
  <2>4. each > 13500 => p \div (copies + 1) >= 8342
    BY SMT, <1>8, <2>3, DivAtLeast DEF IsPeriod
  <2>5. each > 13500 => p \div (copies + 1) \in Nat
    BY SMT, <1>8 DEF IsPeriod
  <2> QED
    BY SMT, <1>9, <1>12, <1>8, <2>1, <2>4, <2>5 DEF EnoughCopies, each
<1>14. Cadence!Interval(p) = each
  BY SMT, <1>8, <1>9, <1>10, <1>13 DEF Cadence!Interval, Cadence!Clamp, Cadence!Least, Cadence!Most,
     Cadence!Floor, Cadence!Slowest, Cadence!Low, each, copies
<1> QED
  BY SMT, <1>1, <1>3, <1>8, <1>9, <1>10, <1>12, <1>13, <1>14 DEF copies, IsPeriod

\* Repeats begin with the second scanout of a picture.
LEMMA LowIs ==
    ASSUME NEW p, IsPeriod(p)
    PROVE  Cadence!Low(p) <=> Doubled(p)
<1>1. CASE Doubled(p)
  BY SMT, <1>1, CopiesAre DEF Cadence!Low
<1>2. CASE ~Doubled(p)
  <2>1. FewestTried(p) <= 1
    BY SMT, <1>2 DEF Doubled, IsPeriod, FewestTried
  <2> QED
    BY SMT, <1>2, <2>1 DEF Doubled, IsPeriod, FewestTried, Cadence!Low, Cadence!Copies, Cadence!SingleScanout
<1> QED
  BY <1>1, <1>2

LEMMA CopiesFit ==
    ASSUME NEW p, IsPeriod(p), Cadence!Low(p)
    PROVE  Cadence!Copies(p) * Cadence!Interval(p) <= p
BY SMT, LowIs, CopiesAre

\* A picture of this PC, which leaves it at this place of its pattern.
LEMMA PictureFits ==
    ASSUME CadenceInv, NEW place \in 0..2, host' = host, at' = place,
           NEW time \in Nat, NEW frames \in 1..3, Cadence!Observe(time, frames),
           Rated(win.n + frames, win.sum + time, place), Rated(0 + frames, 0 + time, place)
    PROVE  CadenceInv'
<1>1. PICK more, p, old, w, fit, trying, found :
         Observed(time, frames, more, p, old, w, fit, trying, found)
  BY ObserveIs, Zenon
<1> QED
  BY <1>1, ObserveFits, Zenon

LEMMA SteadyFits == ASSUME CadenceInv, Cadence!Steady PROVE CadenceInv'
<1>1. PICK frames \in 1..3 : Cadence!Observe(frames * Cadence!Nominal, frames)
  BY Zenon DEF Cadence!Steady
<1>2. host = "steady" /\ host' = host /\ at' = at
  BY Zenon DEF Cadence!Steady
<1>3. at \in 0..2 /\ Rated(win.n, win.sum, at) /\ win.n \in Nat /\ win.sum \in Nat
  BY SMT DEF CadenceInv, CadenceTyped
<1>4. Cadence!Nominal = 16666
  BY SMT, <1>2, NominalIs DEF CadenceInv, CadenceTyped
<1>5. frames * Cadence!Nominal \in Nat
  BY SMT, <1>4
<1>6. /\ Rated(win.n + frames, win.sum + frames * Cadence!Nominal, at)
      /\ Rated(0 + frames, 0 + frames * Cadence!Nominal, at)
  BY SMT, <1>2, <1>3, <1>4 DEF Rated
<1> QED
  BY <1>1, <1>2, <1>3, <1>5, <1>6, PictureFits, Zenon

LEMMA ChangingFits == ASSUME CadenceInv, Cadence!Changing PROVE CadenceInv'
<1>1. PICK pace \in Paces, frames \in 1..2 : Cadence!Observe(frames * pace, frames)
  BY Zenon DEF Cadence!Changing
<1>2. host = "changing" /\ host' = host /\ at' = at
  BY Zenon DEF Cadence!Changing
<1>3. at \in 0..2 /\ frames * pace \in Nat /\ frames \in 1..3
  BY SMT, RatesAssumption DEF CadenceInv, CadenceTyped, Cadence!CadenceAssumption
<1>4. Rated(win.n + frames, win.sum + frames * pace, at) /\ Rated(0 + frames, 0 + frames * pace, at)
  BY SMT, <1>2 DEF Rated
<1> QED
  BY <1>1, <1>2, <1>3, <1>4, PictureFits, Zenon

\* One or two pictures further in the pattern.
LEMMA PatternGoesOn ==
    ASSUME NEW place \in 0..2, NEW frames \in 1..2,
           NEW after, after = (place + frames) % 3
    PROVE  /\ after \in 0..2 /\ Cadence!Sum(place, frames) \in Nat
           /\ \E turns \in {0, 1} :
                /\ place + frames = after + 3 * turns
                /\ PatternTime[place + 1] + Cadence!Sum(place, frames)
                     = PatternTime[after + 1] + 33332 * turns
<1>1. /\ Cadence!Pattern[1] = 8333 /\ Cadence!Pattern[2] = 8333 /\ Cadence!Pattern[3] = 16666
      /\ PatternTime[1] = 0 /\ PatternTime[2] = 8333 /\ PatternTime[3] = 16666
  BY SMT DEF Cadence!Pattern, PatternTime
<1>2. (place = 0 \/ place = 1 \/ place = 2) /\ (frames = 1 \/ frames = 2)
  BY SMT
<1> QED
  BY SMT, <1>1, <1>2 DEF Cadence!Sum

LEMMA QuantizedFits == ASSUME CadenceInv, Cadence!Quantized PROVE CadenceInv'
<1>1. PICK frames \in 1..2 :
         Cadence!Observe(Cadence!Sum(at, frames), frames) /\ at' = (at + frames) % 3
  BY Zenon DEF Cadence!Quantized
<1>2. host = "quantized" /\ host' = host
  BY Zenon DEF Cadence!Quantized
<1>3. at \in 0..2 /\ Rated(win.n, win.sum, at) /\ win.n \in Nat /\ win.sum \in Nat
  BY SMT DEF CadenceInv, CadenceTyped
<1>4. PICK after : after = (at + frames) % 3
  OBVIOUS
<1>5. after \in 0..2 /\ Cadence!Sum(at, frames) \in Nat
  BY SMT, <1>3, <1>4, PatternGoesOn
<1>6. PICK turns \in {0, 1} :
        /\ at + frames = after + 3 * turns
        /\ PatternTime[at + 1] + Cadence!Sum(at, frames) = PatternTime[after + 1] + 33332 * turns
  BY SMT, <1>3, <1>4, PatternGoesOn
<1>7. \A i \in 0..2 : PatternTime[i + 1] \in Nat
  BY SMT DEF PatternTime
<1>8. Rated(win.n + frames, win.sum + Cadence!Sum(at, frames), after)
  <2>1. PICK from \in 0..2, rounds \in Int :
          /\ win.n = 3 * rounds + at - from
          /\ win.sum = 33332 * rounds + PatternTime[at + 1] - PatternTime[from + 1]
    BY SMT, <1>2, <1>3 DEF Rated
  <2>2. PICK total \in Int : total = rounds + turns
    BY SMT, <1>6, <2>1
  <2>3. \E start \in 0..2, whole \in Int :
          /\ win.n + frames = 3 * whole + after - start
          /\ win.sum + Cadence!Sum(at, frames)
               = 33332 * whole + PatternTime[after + 1] - PatternTime[start + 1]
    <3>1. win.n + frames = 3 * total + after - from
      BY SMT, <1>3, <1>5, <1>6, <2>1, <2>2
    <3>2. PatternTime[at + 1] \in Nat /\ PatternTime[after + 1] \in Nat /\ PatternTime[from + 1] \in Nat
      BY SMT, <1>3, <1>5, <1>7
    <3>3. win.sum + Cadence!Sum(at, frames)
            = 33332 * total + PatternTime[after + 1] - PatternTime[from + 1]
      BY SMT, <1>3, <1>5, <1>6, <2>1, <2>2, <3>2
    <3> WITNESS from \in 0..2, total \in Int
    <3> QED
      BY SMT, <3>1, <3>3
  <2> QED
    BY SMT, <1>2, <2>3 DEF Rated
<1>9. Rated(0 + frames, 0 + Cadence!Sum(at, frames), after)
  <2>1. /\ frames = 3 * turns + after - at
        /\ Cadence!Sum(at, frames) = 33332 * turns + PatternTime[after + 1] - PatternTime[at + 1]
    BY SMT, <1>3, <1>5, <1>6, <1>7
  <2> QED
    BY SMT, <1>2, <1>3, <1>5, <2>1 DEF Rated
<1>10. frames \in 1..3 /\ at' = after
  BY SMT, <1>1, <1>4
<1> QED
  BY <1>1, <1>2, <1>5, <1>8, <1>9, <1>10, PictureFits, Zenon

LEMMA NoWindowRated == ASSUME NEW place \in 0..2 PROVE Rated(0, 0, place)
<1>1. PatternTime[place + 1] \in Nat
  BY SMT DEF PatternTime
<1>2. \E from \in 0..2, rounds \in Int :
        /\ 0 = 3 * rounds + place - from
        /\ 0 = 33332 * rounds + PatternTime[place + 1] - PatternTime[from + 1]
  <2> WITNESS place \in 0..2, 0 \in Int
  <2> QED
    BY SMT, <1>1
<1> QED
  BY SMT, <1>2 DEF Rated

LEMMA DiscontinuityFits == ASSUME CadenceInv, Cadence!Discontinuity PROVE CadenceInv'
<1>1. /\ fast' = 0 /\ win'.n = 0 /\ win'.sum = 0 /\ slow'.time = 0 /\ steadyFor' = 0 /\ slowed' = FALSE
      /\ host' = host /\ at' = at /\ period' = period /\ moving' = moving
  BY SMT DEF Cadence!Discontinuity, Cadence!NoWindow, Cadence!NoSlow
<1>2. CadenceTyped' /\ Waited'
  BY SMT, <1>1 DEF CadenceInv, CadenceTyped, Waited
<1>3. at \in 0..2
  BY SMT DEF CadenceInv, CadenceTyped
<1>4. Rated(0, 0, at)
  BY Zenon, <1>3, NoWindowRated
<1>5. Rated(win.n, win.sum, at)'
  BY SMT, <1>1, <1>4 DEF Rated
<1>6. Cadence!NeverFaster' /\ Cadence!KeepsItsRate' /\ Cadence!MovesAtPeriod'
  BY SMT, <1>1 DEF CadenceInv, Cadence!NeverFaster, Cadence!KeepsItsRate, Cadence!MovesAtPeriod,
                   Cadence!Nominal
<1>7. Cadence!SlowsOnlyConfirmed'
  BY SMT, <1>1 DEF Cadence!SlowsOnlyConfirmed
<1> QED
  BY <1>2, <1>5, <1>6, <1>7, Zenon DEF CadenceInv

LEMMA CadenceStep == ASSUME CadenceInv, Cadence!Next \/ UNCHANGED cadence PROVE CadenceInv'
<1>1. CASE UNCHANGED cadence
  BY SMT, <1>1 DEF cadence, CadenceInv, CadenceTyped, Waited, Rated, Cadence!NeverFaster,
     Cadence!KeepsItsRate, Cadence!MovesAtPeriod, Cadence!SlowsOnlyConfirmed, Cadence!Nominal
<1> QED
  BY <1>1, SteadyFits, QuantizedFits, ChangingFits, DiscontinuityFits, Zenon DEF Cadence!Next

LEMMA CadenceStart == ASSUME Cadence!Init PROVE CadenceInv
<1>1. /\ host \in Hosts /\ at = 0 /\ period = Cadence!Nominal /\ moving = Cadence!Nominal
      /\ fast = 0 /\ win.n = 0 /\ win.sum = 0 /\ slow.time = 0 /\ steadyFor = 0 /\ slowed = FALSE
  BY SMT DEF Cadence!Init, Cadence!NoWindow, Cadence!NoSlow
<1>2. CadenceTyped /\ Waited
  BY SMT, <1>1, NominalIs DEF CadenceTyped, Waited
<1>3. Rated(win.n, win.sum, at)
  BY SMT, <1>1, NoWindowRated
<1>4. Cadence!NeverFaster /\ Cadence!KeepsItsRate /\ Cadence!MovesAtPeriod /\ Cadence!SlowsOnlyConfirmed
  BY SMT, <1>1, NominalIs DEF Cadence!NeverFaster, Cadence!KeepsItsRate, Cadence!MovesAtPeriod,
                   Cadence!SlowsOnlyConfirmed
<1> QED
  BY <1>2, <1>3, <1>4, Zenon DEF CadenceInv

LEMMA CadenceFits == ASSUME CadenceInv PROVE Cadence!CadenceOK
<1>1. Cadence!TypeOK
  BY SMT DEF CadenceInv, CadenceTyped, Cadence!TypeOK
<1>2. Cadence!FitsThePeriod
  <2>1. IsPeriod(period)
    BY SMT DEF CadenceInv, CadenceTyped, IsPeriod
  <2> QED
    BY <2>1, CopiesFit, Zenon DEF Cadence!FitsThePeriod
<1> QED
  BY <1>1, <1>2, Zenon DEF CadenceInv, Cadence!CadenceOK

-----------------------------------------------------------------------------
(* The timeline                                                              *)

LEMMA TimelineNumbers ==
    /\ Timeline!FarAway = 100000 /\ Timeline!Patience = 300
    /\ Timeline!Following = 8 /\ Timeline!Near = 20000 /\ Timeline!Kept = 2000
BY SMT DEF Timeline!FarAway, Timeline!Patience, Timeline!Following, Timeline!Near, Timeline!Kept

\* From so many pictures on this is within low, or has fallen from high at this
\* speed.
Falls(k, x, from, high, low, speed) ==
    k >= from => x <= low \/ x <= high - speed * (k - from)

\* How far, after so many pictures, the anchor may be above an early picture,
\* and below a late one.
Descends(k, x) ==
    /\ Falls(k, x, 0, 20008, 800, 100) /\ Falls(k, x, 193, 800, 400, 50)
    /\ Falls(k, x, 201, 400, 200, 25) /\ Falls(k, x, 209, 200, 100, 12)
    /\ Falls(k, x, 218, 100, 48, 6) /\ Falls(k, x, 227, 48, 24, 3)
    /\ Falls(k, x, 235, 24, 16, 2) /\ Falls(k, x, 239, 16, 8, 1)

Ascends(k, x) ==
    /\ x <= 20016
    /\ Falls(k, x, 7, 20016, 1584, 100) /\ Falls(k, x, 192, 1584, 800, 51)
    /\ Falls(k, x, 208, 800, 400, 26) /\ Falls(k, x, 224, 400, 200, 13)
    /\ Falls(k, x, 240, 200, 96, 7) /\ Falls(k, x, 255, 96, 48, 4)
    /\ Falls(k, x, 267, 48, 16, 2)

LEMMA Descent ==
    ASSUME NEW k \in Nat, NEW x \in Int, NEW after \in Int, Descends(k, x),
           x > 0 => after = x - Timeline!Least(100, Timeline!Most(1, x \div 8)),
           x <= 0 => after <= 8
    PROVE  Descends(k + 1, after)
<1>1. CASE x <= 0
  BY SMT, <1>1 DEF Descends, Falls
<1>2. CASE x > 0
  BY SMT, <1>2 DEF Descends, Falls, Timeline!Least, Timeline!Most
<1> QED
  BY SMT, <1>1, <1>2

LEMMA Ascent ==
    ASSUME NEW k \in Nat, NEW x \in Int, NEW after \in Int, Ascends(k, x),
           x > 0 /\ k >= 6 => after = x - Timeline!Least(100, x \div 16 + 1),
           x > 0 => after <= x, x <= 0 => after <= 16
    PROVE  Ascends(k + 1, after)
<1>1. CASE x <= 0
  BY SMT, <1>1 DEF Ascends, Falls
<1>2. CASE x > 0
  BY SMT, <1>2 DEF Ascends, Falls, Timeline!Least
<1> QED
  BY SMT, <1>1, <1>2

LEMMA StaysDown ==
    ASSUME NEW k \in Nat, NEW x \in Int, NEW after \in Int, after <= x \/ after <= 8
    PROVE  /\ Descends(k, x) => Descends(k, after)
           /\ Ascends(k, x) => Ascends(k, after)
BY SMT DEF Descends, Ascends, Falls

LEMMA Settles ==
    ASSUME NEW x \in Int
    PROVE  (Descends(300, x) => x <= 8) /\ (Ascends(300, x) => x <= 16)
BY SMT DEF Descends, Ascends, Falls

LEMMA NetworkNumbers ==
    /\ Reserve \in Nat /\ Jitter \subseteq Nat /\ Spikes \subseteq Nat /\ Shifts \subseteq Nat
    /\ \A a, b \in Jitter : a - b <= 100000 /\ (Reserve > 0 => a - b <= Reserve)
    /\ \A a \in Jitter, s \in Spikes : a <= s /\ s - a <= 100000
    /\ \A d, e \in Shifts : Timeline!Distance(d, e) <= 20000 \/ Timeline!Distance(d, e) > 104000
<1>1. Timeline!TimelineAssumption
  BY DelaysAssumption, Zenon
<1> QED
  BY SMT, <1>1, TimelineNumbers DEF Timeline!TimelineAssumption

TimelineTyped ==
    /\ network \in {"steady", "changing"} /\ delay \in Nat /\ anchored \in BOOLEAN
    /\ phase \in Int /\ late \in Nat /\ run \in 0..8
    /\ kept \in Nat /\ shown \in Nat /\ ahead \in Int /\ moved \in Int
    /\ pictures \in Nat /\ pictures <= 300
    /\ network = "changing" => delay \in Shifts

\* On a steady network the anchor stays within the jitter, and what was shown
\* last is as far behind the PC's time as the reserve puts it, unless it was
\* ready too long before its place.
SteadyInv ==
    network = "steady" =>
      /\ pictures = 0
      /\ anchored => \E a, b \in Jitter : a <= phase /\ phase <= b
      /\ anchored /\ Reserve > 0 /\ ahead <= 2000 => shown = phase + Reserve
      /\ Reserve > 0 => -100 <= moved /\ moved <= 100

\* After a change of the delay the anchor is on its way to the new one.
ChangingInv ==
    network = "changing" =>
      /\ ~anchored => pictures = 0
      /\ anchored =>
           /\ Descends(pictures, phase - delay - 600)
           /\ Ascends(pictures, delay - phase - 3500)
           /\ delay - phase - 3500 > 0 => run >= Timeline!Least(pictures + 1, 8)

TimelineInv == TimelineTyped /\ SteadyInv /\ ChangingInv

\* The place of a picture on the timeline, and whether it is where it is
\* expected.
Placed(ready) ==
    \E p, n : /\ n = Timeline!LateRun(ready) /\ p = Timeline!Towards(ready, n)
             /\ IF ~anchored \/ Timeline!Distance(ready, p) > 100000
                THEN phase' = ready /\ run' = 0 ELSE phase' = p /\ run' = n

LEMMA Expected ==
    ASSUME NEW ready \in Nat, NEW rebase \in BOOLEAN, NEW n, n = Timeline!LateRun(ready),
           NEW p, p = Timeline!Towards(ready, n),
           rebase <=> ~anchored \/ Timeline!Distance(ready, p) > Timeline!FarAway,
           phase' = IF rebase THEN ready ELSE p,
           run' = IF rebase THEN 0 ELSE n
    PROVE  Placed(ready)
<1>1. IF ~anchored \/ Timeline!Distance(ready, p) > 100000
      THEN phase' = ready /\ run' = 0 ELSE phase' = p /\ run' = n
  BY SMT, TimelineNumbers
<1> QED
  BY SMT, <1>1 DEF Placed

LEMMA ObserveMeans ==
    ASSUME NEW ready \in Nat, Timeline!Observe(ready, FALSE)
    PROVE  anchored' = TRUE /\ late' = ready /\ kept' = Timeline!Held(phase', ready) /\ Placed(ready)
<1> DEFINE n == Timeline!LateRun(ready)
           p == Timeline!Towards(ready, n)
           rebase == ~anchored \/ Timeline!Distance(ready, p) > Timeline!FarAway
<1>1. /\ anchored' = TRUE /\ late' = ready /\ kept' = Timeline!Held(phase', ready)
      /\ phase' = IF rebase THEN ready ELSE p
      /\ run' = IF rebase THEN 0 ELSE n
  BY Zenon DEF Timeline!Observe
<1>2. n = Timeline!LateRun(ready) /\ p = Timeline!Towards(ready, n) /\ rebase \in BOOLEAN
  BY Zenon
<1>3. rebase <=> ~anchored \/ Timeline!Distance(ready, p) > Timeline!FarAway
  BY Zenon
<1> HIDE DEF n, p, rebase
<1>4. Placed(ready)
  BY Zenon, <1>1, <1>2, <1>3, Expected
<1> QED
  BY Zenon, <1>1, <1>4

LEMMA JumpMeans ==
    ASSUME NEW ready \in Nat, NEW jump \in BOOLEAN, jump, Timeline!Observe(ready, jump)
    PROVE  /\ anchored' = TRUE /\ late' = ready /\ kept' = Timeline!Held(phase', ready)
           /\ phase' = ready /\ run' = 0
BY Zenon DEF Timeline!Observe

LEMMA LateRunIs ==
    ASSUME TimelineTyped, NEW ready \in Nat, NEW n, n = Timeline!LateRun(ready)
    PROVE  /\ n \in 0..8
           /\ ready > phase + 3500 => n = Timeline!Least(run + 1, 8)
           /\ ready <= phase + 3500 => n = 0
BY SMT, TimelineNumbers DEF TimelineTyped, Timeline!LateRun, Timeline!Least

LEMMA TowardsIs ==
    ASSUME TimelineTyped, NEW ready \in Nat, NEW n \in 0..8, NEW p, p = Timeline!Towards(ready, n)
    PROVE  /\ p \in Int
           /\ ready + 600 < phase =>
                p = phase - Timeline!Least(100, Timeline!Most(1, (phase - ready - 600) \div 8))
           /\ ready > phase + 3500 /\ n = 8 =>
                p = phase + Timeline!Least(100, (ready - phase - 3500) \div 16 + 1)
           /\ ready > phase + 3500 /\ n # 8 => p = phase
           /\ phase <= ready + 600 /\ ready <= phase + 3500 => p = phase
           \* It comes nearer and does not go past.
           /\ ready + 600 < phase => p < phase /\ p >= phase - 100 /\ p >= ready + 600
           /\ ready > phase + 3500 => p >= phase /\ p <= phase + 100 /\ p <= ready - 3500
<1>1. phase \in Int /\ Timeline!Following = 8
  BY SMT, TimelineNumbers DEF TimelineTyped
<1>2. CASE ready + 600 < phase
  BY SMT, <1>1, <1>2 DEF Timeline!Towards, Timeline!Least, Timeline!Most
<1>3. CASE ready > phase + 3500
  BY SMT, <1>1, <1>3 DEF Timeline!Towards, Timeline!Least, Timeline!Most
<1>4. CASE ~(ready + 600 < phase) /\ ~(ready > phase + 3500)
  BY SMT, <1>1, <1>4 DEF Timeline!Towards
<1> QED
  BY SMT, <1>1, <1>2, <1>3, <1>4

\* That it comes nearer and does not go past, by itself.
LEMMA TowardsNears ==
    ASSUME TimelineTyped, NEW ready \in Nat, NEW n \in 0..8, NEW p, p = Timeline!Towards(ready, n)
    PROVE  /\ p \in Int
           /\ ready + 600 < phase => p < phase /\ p >= phase - 100 /\ p >= ready + 600
           /\ ready > phase + 3500 => p >= phase /\ p <= phase + 100 /\ p <= ready - 3500
           /\ phase <= ready + 600 /\ ready <= phase + 3500 => p = phase
<1>1. phase \in Int /\ Timeline!Following = 8
  BY SMT, TimelineNumbers DEF TimelineTyped
<1>2. CASE ready + 600 < phase
  BY SMT, <1>1, <1>2 DEF Timeline!Towards, Timeline!Least, Timeline!Most
<1>3. CASE ready > phase + 3500
  BY SMT, <1>1, <1>3 DEF Timeline!Towards, Timeline!Least, Timeline!Most
<1>4. CASE ~(ready + 600 < phase) /\ ~(ready > phase + 3500)
  BY SMT, <1>1, <1>4 DEF Timeline!Towards
<1> QED
  BY SMT, <1>1, <1>2, <1>3, <1>4

LEMMA HeldIs ==
    ASSUME NEW p \in Int, NEW ready \in Nat
    PROVE  /\ Timeline!Held(p, ready) \in Nat
           /\ Reserve > 0 /\ p - ready <= 2000 /\ p - ready >= -Reserve =>
                ready + Timeline!Held(p, ready) = p + Reserve
BY SMT, NetworkNumbers, TimelineNumbers DEF Timeline!Held, Timeline!Least, Timeline!Most

LEMMA LaterIs == ASSUME NEW ready \in Nat, NEW h \in Nat PROVE ready + h \in Nat
BY SMT

LEMMA SteadyPictureFits == ASSUME TimelineInv, Timeline!SteadyPicture PROVE TimelineInv'
<1>1. PICK ready \in Jitter : /\ Timeline!Observe(ready, FALSE)
                              /\ shown' = ready + kept'
                              /\ ahead' = phase' - ready
  BY Zenon DEF Timeline!SteadyPicture
<1>2. /\ network = "steady" /\ network' = network /\ delay' = delay /\ pictures' = pictures
      /\ moved' = IF anchored /\ ahead <= Timeline!Kept /\ ahead' <= Timeline!Kept
                  THEN shown' - shown ELSE 0
  BY Zenon DEF Timeline!SteadyPicture
<1>3. ready \in Nat /\ TimelineTyped /\ SteadyInv
  BY SMT, NetworkNumbers DEF TimelineInv
<1>4. anchored' = TRUE /\ late' = ready /\ kept' = Timeline!Held(phase', ready) /\ Placed(ready)
  BY Zenon, <1>1, <1>3, ObserveMeans
<1>5. PICK p, n : /\ n = Timeline!LateRun(ready) /\ p = Timeline!Towards(ready, n)
                  /\ IF ~anchored \/ Timeline!Distance(ready, p) > 100000
                     THEN phase' = ready /\ run' = 0 ELSE phase' = p /\ run' = n
  BY SMT, <1>4 DEF Placed
<1>6. anchored' = TRUE /\ late' = ready /\ kept' = Timeline!Held(phase', ready)
  BY Zenon, <1>4
<1>7. n \in 0..8
  BY SMT, <1>3, <1>5, LateRunIs
<1>8. /\ p \in Int
      /\ ready + 600 < phase => p < phase /\ p >= phase - 100 /\ p >= ready + 600
      /\ ready > phase + 3500 => p >= phase /\ p <= phase + 100 /\ p <= ready - 3500
      /\ phase <= ready + 600 /\ ready <= phase + 3500 => p = phase
  <2>1. p = Timeline!Towards(ready, n)
    BY <1>5
  <2> QED
    BY <1>3, <1>7, <2>1, TowardsNears
<1>9. phase \in Int /\ shown \in Int /\ ahead \in Int /\ Reserve \in Nat
  BY SMT, <1>3, NetworkNumbers DEF TimelineTyped
<1>10. CASE anchored
  <2>1. PICK a \in Jitter, b \in Jitter : a <= phase /\ phase <= b
    BY SMT, <1>2, <1>3, <1>10 DEF SteadyInv
  <2>2. a \in Nat /\ b \in Nat
    BY SMT, NetworkNumbers
  <2>3. p >= phase - 100 /\ p <= phase + 100
    BY SMT, <1>3, <1>8, <1>9
  <2>4. PICK c \in Jitter, d \in Jitter : c <= p /\ p <= d
    <3>1. CASE p = phase
      BY SMT, <2>1, <3>1
    <3>2. CASE ready + 600 < phase
      <4>1. ready <= p /\ p <= b
        BY SMT, <1>3, <1>8, <1>9, <2>1, <2>2, <3>2
      <4> QED
        BY <4>1
    <3>3. CASE ready > phase + 3500
      <4>1. a <= p /\ p <= ready
        BY SMT, <1>3, <1>8, <1>9, <2>1, <2>2, <3>3
      <4> QED
        BY <4>1
    <3> QED
      BY SMT, <1>3, <1>8, <1>9, <3>1, <3>2, <3>3
  <2>5. /\ c \in Nat /\ d \in Nat /\ ready - c <= 100000 /\ d - ready <= 100000
        /\ Reserve > 0 => ready - c <= Reserve
    BY SMT, NetworkNumbers
  <2>6. phase' = p /\ run' = n
    <3>1. ~(Timeline!Distance(ready, p) > 100000)
      BY SMT, <1>3, <1>8, <2>4, <2>5 DEF Timeline!Distance
    <3> QED
      BY <1>5, <1>10, <3>1
  <2>7. ahead' = p - ready
    BY Zenon, <1>1, <2>6
  <2>8. kept' \in Nat /\ (Reserve > 0 /\ ahead' <= 2000 => shown' = p + Reserve)
    <3>1. Reserve > 0 => p - ready >= -Reserve
      BY SMT, <1>3, <1>8, <1>9, <2>4, <2>5
    <3>2. kept' = Timeline!Held(p, ready)
      BY Zenon, <1>6, <2>6
    <3> QED
      BY SMT, <1>1, <1>3, <1>8, <2>7, <3>1, <3>2, HeldIs
  <2>9. moved' \in Int /\ (Reserve > 0 => -100 <= moved' /\ moved' <= 100)
    <3>1. CASE ahead <= Timeline!Kept /\ ahead' <= Timeline!Kept
      <4>1. moved' = shown' - shown
        BY Zenon, <1>2, <1>10, <3>1
      <4>2. shown' \in Int /\ shown \in Int
        BY SMT, <1>1, <1>3, <1>9, <2>8
      <4>3. Reserve > 0 => shown = phase + Reserve
        BY SMT, <1>2, <1>3, <1>9, <1>10, <3>1, TimelineNumbers DEF SteadyInv
      <4>4. Reserve > 0 => shown' = p + Reserve
        BY SMT, <1>3, <1>8, <2>7, <2>8, <3>1, TimelineNumbers
      <4>5. p \in Int /\ phase \in Int /\ Reserve \in Int
        BY SMT, <1>8, <1>9
      <4> HIDE <1>1, <1>2, <1>3, <1>8, <1>9, <2>7, <2>8
      <4>6. Reserve > 0 => shown' - shown = p - phase
        BY SMT, <4>3, <4>4, <4>5
      <4>7. moved' \in Int
        BY SMT, <4>1, <4>2
      <4> QED
        BY SMT, <2>3, <4>1, <4>5, <4>6, <4>7
    <3>2. CASE ~(ahead <= Timeline!Kept /\ ahead' <= Timeline!Kept)
      <4>1. moved' = 0
        BY Zenon, <1>2, <3>2
      <4> QED
        BY SMT, <4>1
    <3> QED
      BY Zenon, <3>1, <3>2
  <2>10. shown' \in Nat
    <3>1. ready + kept' \in Nat
      BY Zenon, <1>3, <2>8, LaterIs
    <3> QED
      BY Zenon, <1>1, <3>1
  <2>11. TimelineTyped'
    BY SMT, <1>2, <1>3, <1>6, <1>7, <1>8, <2>6, <2>7, <2>8, <2>9, <2>10 DEF TimelineTyped
  <2>12. SteadyInv'
    BY SMT, <1>2, <1>3, <2>4, <2>6, <2>8, <2>9 DEF SteadyInv
  <2> QED
    BY SMT, <1>2, <2>11, <2>12 DEF TimelineInv, ChangingInv
<1>11. CASE ~anchored
  <2>1. phase' = ready /\ run' = 0 /\ moved' = 0
    BY SMT, <1>2, <1>5, <1>11
  <2>2. kept' \in Nat /\ (Reserve > 0 => shown' = ready + Reserve)
    BY SMT, <1>1, <1>3, <1>6, <1>9, <2>1, HeldIs
  <2>3. TimelineTyped'
    BY SMT, <1>1, <1>2, <1>3, <1>6, <2>1, <2>2 DEF TimelineTyped
  <2>4. SteadyInv'
    BY SMT, <1>1, <1>2, <1>3, <2>1, <2>2 DEF SteadyInv
  <2> QED
    BY SMT, <1>2, <2>3, <2>4 DEF TimelineInv, ChangingInv
<1> QED
  BY <1>10, <1>11, Zenon

LEMMA SpikeFits == ASSUME TimelineInv, Timeline!Spike PROVE TimelineInv'
<1>1. PICK ready \in Spikes : Timeline!Observe(ready, FALSE)
  BY Zenon DEF Timeline!Spike
<1>2. /\ network = "steady" /\ anchored /\ run < Timeline!Following - 1
      /\ network' = network /\ delay' = delay /\ pictures' = pictures
      /\ shown' = shown /\ ahead' = ahead /\ moved' = moved
  BY Zenon DEF Timeline!Spike
<1>3. ready \in Nat /\ TimelineTyped /\ SteadyInv
  BY SMT, NetworkNumbers DEF TimelineInv
<1>4. anchored' = TRUE /\ late' = ready /\ kept' = Timeline!Held(phase', ready) /\ Placed(ready)
  BY Zenon, <1>1, <1>3, ObserveMeans
<1>5. PICK p, n : /\ n = Timeline!LateRun(ready) /\ p = Timeline!Towards(ready, n)
                  /\ IF ~anchored \/ Timeline!Distance(ready, p) > 100000
                     THEN phase' = ready /\ run' = 0 ELSE phase' = p /\ run' = n
  BY SMT, <1>4 DEF Placed
<1>6. anchored' = TRUE /\ late' = ready /\ kept' = Timeline!Held(phase', ready)
  BY Zenon, <1>4
<1>7. n \in 0..8 /\ n # 8
  BY SMT, <1>2, <1>3, <1>5, LateRunIs, TimelineNumbers DEF TimelineTyped, Timeline!Least
<1>8. PICK a \in Jitter, b \in Jitter : a <= phase /\ phase <= b
  BY SMT, <1>2, <1>3 DEF SteadyInv
<1>9. phase \in Int /\ a \in Nat /\ b \in Nat /\ b <= ready /\ ready - a <= 100000
  BY SMT, <1>3, NetworkNumbers DEF TimelineTyped
<1>10. p = phase
  BY SMT, <1>3, <1>5, <1>7, <1>8, <1>9, TowardsIs
<1>11. phase' = phase /\ run' = n
  BY SMT, <1>2, <1>3, <1>5, <1>8, <1>9, <1>10 DEF Timeline!Distance
<1>12. TimelineTyped'
  <2>1. kept' \in Nat
    BY SMT, <1>3, <1>6, <1>9, <1>11, HeldIs
  <2> QED
    BY SMT, <1>2, <1>3, <1>6, <1>7, <1>11, <2>1 DEF TimelineTyped
<1>13. SteadyInv'
  BY SMT, <1>2, <1>3, <1>6, <1>11 DEF SteadyInv
<1> QED
  BY SMT, <1>2, <1>12, <1>13 DEF TimelineInv, ChangingInv

LEMMA NowhereFar ==
    ASSUME NEW k \in Nat, k <= 300
    PROVE  Descends(k, -600) /\ Ascends(k, -3500)
BY SMT DEF Descends, Ascends, Falls

LEMMA PictureKeeps == ASSUME TimelineInv, Timeline!Picture PROVE TimelineInv'
<1>1. Timeline!Observe(delay, FALSE)
  BY Zenon DEF Timeline!Picture
<1>2. /\ network = "changing" /\ pictures' = Timeline!Least(pictures + 1, 300)
      /\ network' = network /\ delay' = delay
      /\ shown' = shown /\ ahead' = ahead /\ moved' = moved
  BY SMT, TimelineNumbers DEF Timeline!Picture
<1>3. delay \in Nat /\ TimelineTyped /\ ChangingInv
  BY SMT DEF TimelineInv, TimelineTyped
<1>4. anchored' = TRUE /\ late' = delay /\ kept' = Timeline!Held(phase', delay) /\ Placed(delay)
  BY Zenon, <1>1, <1>3, ObserveMeans
<1>5. PICK p, n : /\ n = Timeline!LateRun(delay) /\ p = Timeline!Towards(delay, n)
                  /\ IF ~anchored \/ Timeline!Distance(delay, p) > 100000
                     THEN phase' = delay /\ run' = 0 ELSE phase' = p /\ run' = n
  BY SMT, <1>4 DEF Placed
<1>6. anchored' = TRUE /\ late' = delay /\ kept' = Timeline!Held(phase', delay)
  BY Zenon, <1>4
<1>7. /\ n \in 0..8
      /\ delay > phase + 3500 => n = Timeline!Least(run + 1, 8)
  BY SMT, <1>3, <1>5, LateRunIs
<1>8. p \in Int /\ phase \in Int /\ pictures \in Nat /\ pictures <= 300 /\ run \in 0..8
  BY SMT, <1>3, <1>5, <1>7, TowardsIs DEF TimelineTyped
<1>9. TimelineTyped'
  <2>1. phase' \in Int /\ run' \in 0..8
    BY SMT, <1>3, <1>5, <1>7, <1>8
  <2>2. kept' \in Nat
    BY SMT, <1>3, <1>6, <2>1, HeldIs
  <2> QED
    BY SMT, <1>2, <1>3, <1>6, <2>1, <2>2 DEF TimelineTyped, Timeline!Least
<1>10. ChangingInv'
  <2>1. CASE phase' = delay
    <3>1. pictures' \in Nat /\ pictures' <= 300
      BY SMT, <1>2, <1>8 DEF Timeline!Least
    <3>2. phase' - delay' - 600 = -600 /\ delay' - phase' - 3500 = -3500
      BY SMT, <1>2, <1>3, <2>1
    <3> QED
      BY SMT, <1>2, <1>6, <3>1, <3>2, NowhereFar DEF ChangingInv
  <2>2. CASE anchored /\ phase' = p /\ run' = n
    <3> DEFINE x == phase - delay - 600
               y == delay - phase - 3500
               x1 == p - delay - 600
               y1 == delay - p - 3500
    <3>1. x \in Int /\ y \in Int /\ x1 \in Int /\ y1 \in Int
      BY SMT, <1>3, <1>8
    <3>2. Descends(pictures, x) /\ Ascends(pictures, y) /\ (y > 0 => run >= Timeline!Least(pictures + 1, 8))
      BY SMT, <1>2, <1>3, <2>2 DEF ChangingInv
    <3>3. /\ delay + 600 < phase =>
               p = phase - Timeline!Least(100, Timeline!Most(1, (phase - delay - 600) \div 8))
          /\ delay > phase + 3500 /\ n = 8 =>
               p = phase + Timeline!Least(100, (delay - phase - 3500) \div 16 + 1)
          /\ phase <= delay + 600 /\ delay <= phase + 3500 => p = phase
          /\ delay + 600 < phase => p < phase /\ p >= delay + 600
          /\ delay > phase + 3500 => p >= phase /\ p <= delay - 3500
      BY SMT, <1>3, <1>5, <1>7, TowardsIs
    <3>4. /\ x > 0 => x1 = x - Timeline!Least(100, Timeline!Most(1, x \div 8)) /\ x1 >= 0 /\ x1 <= x
          /\ x <= 0 => x1 <= 0
      BY SMT, <1>3, <1>8, <3>3 DEF Timeline!Least, Timeline!Most
    <3>5. /\ y > 0 /\ n = 8 => y1 = y - Timeline!Least(100, y \div 16 + 1)
          /\ y > 0 => y1 <= y
          /\ y <= 0 => y1 <= 0
      BY SMT, <1>3, <1>8, <3>3 DEF Timeline!Least
    <3>6. y > 0 /\ pictures >= 6 => n = 8
      BY SMT, <1>3, <1>7, <1>8, <3>2 DEF Timeline!Least
    <3>7. y1 > 0 => n >= Timeline!Least(pictures + 2, 8)
      BY SMT, <1>3, <1>7, <1>8, <3>2, <3>5 DEF Timeline!Least
    <3>8. /\ phase' - delay' - 600 = x1 /\ delay' - phase' - 3500 = y1
      BY SMT, <1>2, <2>2
    <3> HIDE DEF x, y, x1, y1
    <3>9. CASE pictures < 300
      <4>1. pictures' = pictures + 1
        BY SMT, <1>2, <1>8, <3>9 DEF Timeline!Least
      <4>2. Descends(pictures + 1, x1)
        BY SMT, <1>8, <3>1, <3>2, <3>4, Descent
      <4>3. Ascends(pictures + 1, y1)
        BY SMT, <1>8, <3>1, <3>2, <3>5, <3>6, Ascent
      <4> QED
        BY SMT, <1>2, <1>6, <1>8, <2>2, <3>7, <3>8, <4>1, <4>2, <4>3 DEF ChangingInv, Timeline!Least
    <3>10. CASE pictures = 300
      <4>1. pictures' = pictures
        BY SMT, <1>2, <1>8, <3>10 DEF Timeline!Least
      <4>2. Descends(pictures, x1) /\ Ascends(pictures, y1)
        BY SMT, <1>8, <3>1, <3>2, <3>4, <3>5, StaysDown
      <4> QED
        BY SMT, <1>2, <1>6, <1>8, <2>2, <3>7, <3>8, <3>10, <4>1, <4>2 DEF ChangingInv, Timeline!Least
    <3> QED
      BY SMT, <1>8, <3>9, <3>10
  <2> QED
    BY SMT, <1>5, <2>1, <2>2
<1> QED
  BY SMT, <1>2, <1>9, <1>10 DEF TimelineInv, SteadyInv

LEMMA ChangeKeeps == ASSUME TimelineInv, Timeline!Change PROVE TimelineInv'
<1>1. PICK d \in Shifts \ {delay}, jump \in BOOLEAN : delay' = d /\ Timeline!Observe(d, jump)
  BY Zenon DEF Timeline!Change
<1>2. /\ network = "changing" /\ pictures = 300 /\ pictures' = 0
      /\ network' = network /\ shown' = shown /\ ahead' = ahead /\ moved' = moved
  BY SMT, TimelineNumbers DEF Timeline!Change
<1>3. /\ TimelineTyped /\ delay \in Nat /\ delay \in Shifts /\ phase \in Int /\ run \in 0..8
      /\ d \in Nat
  BY SMT, <1>2, NetworkNumbers DEF TimelineInv, TimelineTyped
<1>4. anchored /\ -3516 <= phase - delay /\ phase - delay <= 608
  <2>1. anchored /\ Descends(300, phase - delay - 600) /\ Ascends(300, delay - phase - 3500)
    BY SMT, <1>2, <1>3 DEF TimelineInv, ChangingInv, TimelineTyped
  <2>2. phase - delay - 600 <= 8 /\ delay - phase - 3500 <= 16
    BY SMT, <1>3, <2>1, Settles
  <2> QED
    BY SMT, <1>3, <2>1, <2>2
<1>5. /\ anchored' = TRUE /\ late' = d /\ kept' = Timeline!Held(phase', d)
      /\ (phase' = d /\ run' = 0) \/ Placed(d)
  <2>1. CASE jump
    BY Zenon, <1>1, <1>3, <2>1, JumpMeans
  <2>2. CASE ~jump
    <3>1. Timeline!Observe(d, FALSE)
      BY Zenon, <1>1, <2>2
    <3> QED
      BY Zenon, <1>3, <3>1, ObserveMeans
  <2> QED
    BY Zenon, <2>1, <2>2
<1>6. CASE phase' = d /\ run' = 0
  <2>1. kept' \in Nat
    BY SMT, <1>3, <1>5, <1>6, HeldIs
  <2>2. TimelineTyped'
    BY SMT, <1>1, <1>2, <1>3, <1>5, <1>6, <2>1 DEF TimelineTyped
  <2>3. phase' - delay' - 600 = -600 /\ delay' - phase' - 3500 = -3500
    BY SMT, <1>1, <1>3, <1>6
  <2>4. ChangingInv'
    BY SMT, <1>2, <1>5, <2>3, NowhereFar DEF ChangingInv
  <2> QED
    BY SMT, <1>2, <2>2, <2>4 DEF TimelineInv, SteadyInv
<1>7. CASE ~(phase' = d /\ run' = 0)
  <2>1. PICK p, n : /\ n = Timeline!LateRun(d) /\ p = Timeline!Towards(d, n)
                    /\ IF ~anchored \/ Timeline!Distance(d, p) > 100000
                       THEN phase' = d /\ run' = 0 ELSE phase' = p /\ run' = n
    BY SMT, <1>5, <1>7 DEF Placed
  <2>2. n \in 0..8 /\ (d > phase + 3500 => n = Timeline!Least(run + 1, 8))
    BY SMT, <1>3, <2>1, LateRunIs
  <2>3. /\ p \in Int
        /\ d + 600 < phase => p < phase /\ p >= phase - 100 /\ p >= d + 600
        /\ d > phase + 3500 => p >= phase /\ p <= phase + 100 /\ p <= d - 3500
        /\ phase <= d + 600 /\ d <= phase + 3500 => p = phase
    BY SMT, <1>3, <2>1, <2>2, TowardsIs
  <2>4. Timeline!Distance(d, p) <= 100000 /\ phase' = p /\ run' = n
    BY SMT, <1>3, <1>4, <1>7, <2>1, <2>3 DEF Timeline!Distance
  <2>5. d - delay <= 20000 /\ delay - d <= 20000
    <3>1. Timeline!Distance(d, delay) <= 20000 \/ Timeline!Distance(d, delay) > 104000
      BY SMT, <1>3, NetworkNumbers
    <3> QED
      BY SMT, <1>3, <1>4, <2>4, <2>3, <3>1 DEF Timeline!Distance
  <2>6. p - d - 600 <= 20008 /\ d - p - 3500 <= 20016
    BY SMT, <1>3, <1>4, <2>3, <2>5
  <2>7. d - p - 3500 > 0 => n >= Timeline!Least(1, 8)
    BY SMT, <1>3, <2>2, <2>3 DEF Timeline!Least
  <2>8. Descends(0, p - d - 600) /\ Ascends(0, d - p - 3500)
    BY SMT, <1>3, <2>3, <2>6 DEF Descends, Ascends, Falls
  <2>9. kept' \in Nat
    BY SMT, <1>3, <1>5, <2>4, <2>3, HeldIs
  <2>10. TimelineTyped'
    BY SMT, <1>1, <1>2, <1>3, <1>5, <2>4, <2>2, <2>3, <2>9 DEF TimelineTyped
  <2>11. ChangingInv'
    BY SMT, <1>1, <1>2, <1>5, <2>4, <2>7, <2>8 DEF ChangingInv
  <2> QED
    BY SMT, <1>2, <2>10, <2>11 DEF TimelineInv, SteadyInv
<1> QED
  BY Zenon, <1>6, <1>7

LEMMA TimelineStep == ASSUME TimelineInv, Timeline!Next \/ UNCHANGED timeline PROVE TimelineInv'
<1>1. CASE UNCHANGED timeline
  BY SMT, <1>1 DEF timeline, TimelineInv, TimelineTyped, SteadyInv, ChangingInv
<1> QED
  BY <1>1, SteadyPictureFits, SpikeFits, PictureKeeps, ChangeKeeps, Zenon DEF Timeline!Next

LEMMA TimelineStart == ASSUME Timeline!Init PROVE TimelineInv
<1>1. /\ network \in {"steady", "changing"}
      /\ network = "steady" => delay \in {0}
      /\ network # "steady" => delay \in Shifts
      /\ anchored = FALSE /\ phase = 0 /\ late = 0 /\ run = 0
      /\ kept = 0 /\ shown = 0 /\ ahead = 0 /\ moved = 0 /\ pictures = 0
  BY Zenon DEF Timeline!Init
<1>2. delay \in Nat /\ (network = "changing" => delay \in Shifts)
  <2>1. Shifts \subseteq Nat
    BY SMT, NetworkNumbers
  <2>2. CASE network = "steady"
    BY <1>1, <2>2
  <2>3. CASE network = "changing"
    BY <1>1, <2>1, <2>3
  <2> QED
    BY <1>1, <2>2, <2>3
<1>3. TimelineTyped
  <2>1. anchored \in BOOLEAN
    BY Zenon, <1>1
  <2>2. phase \in Int /\ late \in Nat /\ run \in 0..8 /\ kept \in Nat /\ shown \in Nat
        /\ ahead \in Int /\ moved \in Int
    BY SMT, <1>1
  <2>3. pictures \in Nat /\ pictures <= 300
    BY SMT, <1>1
  <2> QED
    BY SMT, <1>1, <1>2, <2>1, <2>2, <2>3 DEF TimelineTyped
<1>4. SteadyInv
  BY SMT, <1>1 DEF SteadyInv
<1>5. ChangingInv
  BY SMT, <1>1 DEF ChangingInv
<1> QED
  BY <1>3, <1>4, <1>5, Zenon DEF TimelineInv

LEMMA TimelineFits == ASSUME TimelineInv PROVE Timeline!TimelineOK
<1>1. TimelineTyped /\ moved \in Int /\ phase \in Int /\ delay \in Nat
  BY SMT DEF TimelineInv, TimelineTyped
<1>2. Timeline!TypeOK
  BY SMT, <1>1, TimelineNumbers DEF TimelineTyped, Timeline!TypeOK
<1>3. Timeline!Even
  BY SMT, <1>1 DEF TimelineInv, SteadyInv, Timeline!Even, Timeline!Distance
<1>4. Timeline!Follows
  <2>1. CASE pictures = 300
    <3>1. network = "changing" /\ anchored
      BY SMT, <2>1, <1>1 DEF TimelineInv, TimelineTyped, SteadyInv, ChangingInv
    <3>2. Descends(300, phase - delay - 600) /\ Ascends(300, delay - phase - 3500)
      BY SMT, <2>1, <3>1 DEF TimelineInv, ChangingInv
    <3>3. phase - delay - 600 <= 8 /\ delay - phase - 3500 <= 16
      BY SMT, <1>1, <3>2, Settles
    <3> QED
      BY SMT, <1>1, <3>3 DEF Timeline!Follows
  <2> QED
    BY SMT, <2>1, TimelineNumbers DEF Timeline!Follows
<1> QED
  BY <1>2, <1>3, <1>4, Zenon DEF Timeline!TimelineOK

-----------------------------------------------------------------------------
(* The grid                                                                 *)

\* The numbers of the code, and what is assumed of the constants.
LEMMA GridNumbers ==
    /\ Grid!Floor = 8342 /\ Grid!Slowest = 16000 /\ Grid!SingleScanout = 16833
    /\ Periods \subseteq Grid!Fittable /\ Cadences \subseteq Grid!Fittable
    /\ Grace \in Nat /\ 750 <= Grace /\ Grace <= 2500 /\ Reserve \in Nat /\ Arrivals \subseteq Nat
    /\ Jitters # {} /\ \A j \in Jitters : j \in Nat /\ j <= 1750 /\ j <= Grace
    /\ Tardy \subseteq Nat /\ Punctual # {} /\ Punctual \subseteq Nat
    /\ \A p \in Periods, d \in Punctual : Grid!HasRoom(p, d)
    /\ SubmittedAfter["steady"] = Punctual /\ SubmittedAfter["any"] = Tardy
<1>1. SubmittedAfter["steady"] = Punctual /\ SubmittedAfter["any"] = Tardy
  BY DEF SubmittedAfter
<1>2. /\ Periods \subseteq Grid!Fittable /\ Cadences \subseteq Grid!Fittable
      /\ Grace \in Nat /\ 750 <= Grace /\ Grace <= 2500 /\ Reserve \in Nat /\ Arrivals \subseteq Nat
      /\ Jitters # {} /\ Jitters \subseteq 0..Grid!Least(Grace, 1750)
  BY GridsAssumption DEF Grid!GridAssumption
<1>3. /\ SubmittedAfter["any"] \subseteq Nat
      /\ SubmittedAfter["steady"] # {} /\ SubmittedAfter["steady"] \subseteq Nat
      /\ \A p \in Periods, d \in SubmittedAfter["steady"] : Grid!HasRoom(p, d)
  BY GridsAssumption DEF Grid!GridAssumption
<1>4. /\ Tardy \subseteq Nat /\ Punctual # {} /\ Punctual \subseteq Nat
      /\ \A p \in Periods, d \in Punctual : Grid!HasRoom(p, d)
  BY <1>1, <1>3
<1>5. ASSUME NEW j \in Jitters PROVE j \in Nat /\ j <= 1750 /\ j <= Grace
  <2>1. j \in 0..Grid!Least(Grace, 1750) /\ Grace \in Nat
    BY <1>2
  <2> QED
    BY SMT, <2>1 DEF Grid!Least
<1>6. Grid!Floor = 8342 /\ Grid!Slowest = 16000 /\ Grid!SingleScanout = 16833
  BY SMT DEF Grid!Floor, Grid!Slowest, Grid!SingleScanout
<1> QED
  BY <1>1, <1>2, <1>4, <1>5, <1>6

\* Division in Nat.
LEMMA Quotient ==
    ASSUME NEW a \in Nat, NEW b \in Nat, b > 0
    PROVE  a \div b \in Nat /\ (a \div b) * b <= a /\ a < (a \div b) * b + b
BY SMT

\* The grid has the rates of the cadence.
LEMMA GridRates ==
    ASSUME NEW p \in Grid!Fittable
    PROVE  /\ Grid!Low(p) <=> p > 16833
           /\ ~Grid!Low(p) => Grid!Interval(p) = 16000
           /\ Grid!Low(p) => /\ Grid!Copies(p) \in 2..29 /\ Grid!Interval(p) \in Nat /\ 8342 <= Grid!Interval(p) /\ Grid!Interval(p) <= 13500
                             /\ Grid!Copies(p) * Grid!Interval(p) <= p
                             /\ p < Grid!Copies(p) * Grid!Interval(p) + Grid!Copies(p)
           /\ Grid!Interval(p) \in Nat /\ 8342 <= Grid!Interval(p) /\ Grid!Interval(p) <= 16000
<1>1. p \in Nat /\ IsPeriod(p)
  BY SMT DEF Grid!Fittable, IsPeriod
<1>2. Grid!Copies(p) = Cadence!Copies(p)
  BY DEF Grid!Copies, Cadence!Copies, Grid!SingleScanout, Cadence!SingleScanout,
     Grid!MostCopies, Cadence!MostCopies, Grid!Floor, Cadence!Floor, Grid!Most, Cadence!Most
<1>3. (Grid!Low(p) <=> Cadence!Low(p)) /\ Grid!Interval(p) = Cadence!Interval(p)
  BY <1>2 DEF Grid!Low, Cadence!Low, Grid!Interval, Cadence!Interval, Grid!Clamp, Cadence!Clamp,
     Grid!Least, Cadence!Least, Grid!Most, Cadence!Most, Grid!Floor, Cadence!Floor,
     Grid!Slowest, Cadence!Slowest
<1>4. Cadence!Low(p) <=> p > 16833
  BY <1>1, LowIs DEF Doubled
<1>5. ~Grid!Low(p) => Grid!Interval(p) = 16000
  BY DEF Grid!Interval, Grid!Slowest
<1>6. p > 16833 => /\ Grid!Copies(p) \in 2..29 /\ Grid!Interval(p) \in Nat /\ 8342 <= Grid!Interval(p) /\ Grid!Interval(p) <= 13500
                   /\ Grid!Copies(p) * Grid!Interval(p) <= p
                   /\ p < Grid!Copies(p) * Grid!Interval(p) + Grid!Copies(p)
  BY SMT, <1>1, <1>2, <1>3, CopiesAre DEF Doubled
<1> QED
  BY SMT, <1>3, <1>4, <1>5, <1>6

\* Its intervals are those of 62 Hz to 120 Hz.
LEMMA IntervalFits ==
    ASSUME NEW p \in Grid!Fittable
    PROVE  Grid!Interval(p) \in Nat /\ Grid!Interval(p) >= 8342 /\ Grid!Interval(p) <= 16000
<1>1. PICK i : i = Grid!Interval(p)
  OBVIOUS
<1>2. i \in Nat /\ 8342 <= i /\ i <= 16000
  BY <1>1, GridRates
<1>3. i \in Nat /\ i >= 8342 /\ i <= 16000
  BY SMT, <1>2
<1> QED
  BY <1>1, <1>3

\* Only below 59 Hz it has repeats.
LEMMA LowRates ==
    ASSUME NEW p \in Grid!Fittable
    PROVE  p \in Nat /\ (Grid!Low(p) <=> p > 16833)
<1>1. Grid!Low(p) <=> p > 16833
  BY GridRates
<1> QED
  BY SMT, <1>1 DEF Grid!Fittable

\* How long a slot is ahead, how old the last picture, how long one waited.
Soon(m) == m \in Int /\ m <= 16000 /\ m >= 7924
Recent(m) == m \in Int /\ Grid!LongAgo <= m /\ m <= 0
Delayed(m) == m \in Nat /\ m <= 16496

\* The next slot is on the grid, and never at once.
LEMMA SlotAfter ==
    ASSUME NEW onGrid \in BOOLEAN, NEW p \in Grid!Fittable, NEW now \in Nat,
           next \in Int, next <= 16000
    PROVE  LET s == Grid!NextSlot(onGrid, p, now) - now
           IN  /\ Soon(s)
               /\ ~onGrid => s = Grid!Interval(p)
<1>1. PICK i : i = Grid!Interval(p)
  OBVIOUS
<1>2. PICK q : q = (now - next) \div i
  OBVIOUS
<1>3. i \in Nat /\ 8342 <= i /\ i <= 16000
  <2>1. i \in Nat /\ 8342 <= i /\ i <= 16000
    BY <1>1, GridRates
  <2> QED
    BY SMT, <2>1
<1>4. PICK slot : slot = IF next <= now THEN next + (q + 1) * i ELSE next
  OBVIOUS
<1>5. slot \in Int /\ slot <= now + 16000
  <2>1. CASE next <= now
    <3>1. PICK a \in Nat : a = now - next
      BY SMT, <2>1
    <3>2. q \in Nat /\ q * i <= a /\ a < q * i + i
      BY <1>2, <1>3, <3>1, Quotient
    <3>3. (q + 1) * i = q * i + i /\ q * i \in Nat
      BY SMT, <1>3, <3>2
    <3>4. slot = next + (q + 1) * i
      BY <1>4, <2>1
    <3> QED
      BY SMT, <1>3, <3>1, <3>2, <3>3, <3>4
  <2>2. CASE ~(next <= now)
    BY SMT, <1>4, <2>2
  <2> QED
    BY <2>1, <2>2
<1>6. Grid!NextSlot(onGrid, p, now) =
        IF ~onGrid \/ slot < now + Grid!Percent(i, 95) THEN now + i ELSE slot
  BY <1>1, <1>2, <1>4 DEF Grid!NextSlot
<1>7. Grid!Percent(i, 95) \in Nat /\ Grid!Percent(i, 95) <= i /\ Grid!Percent(i, 95) >= 7924
  BY SMT, <1>3 DEF Grid!Percent
<1> QED
  BY SMT, <1>1, <1>3, <1>5, <1>6, <1>7 DEF Soon

\* Not later than one interval after a slot, the next slot is an interval after it,
\* or after the submission when there is too little between.
LEMMA SlotGoesOn ==
    ASSUME NEW p \in Grid!Fittable, NEW now \in Nat, next \in Int, next <= now,
           now - next < Grid!Interval(p)
    PROVE  Grid!NextSlot(TRUE, p, now) =
             IF next + Grid!Interval(p) < now + Grid!Percent(Grid!Interval(p), 95)
             THEN now + Grid!Interval(p) ELSE next + Grid!Interval(p)
<1>1. PICK i : i = Grid!Interval(p)
  OBVIOUS
<1>2. i \in Nat /\ 8342 <= i
  <2>1. i \in Nat /\ 8342 <= i /\ i <= 16000
    BY <1>1, GridRates
  <2> QED
    BY SMT, <2>1
<1>3. PICK q : q = (now - next) \div i
  OBVIOUS
<1>4. next + (q + 1) * i = next + i
  <2>1. PICK a \in Nat : a = now - next /\ a < i
    BY SMT, <1>1
  <2>2. q \in Nat /\ q * i <= a
    BY <1>2, <1>3, <2>1, Quotient
  <2>3. q >= 1 => q * i >= i
    BY SMT, <1>2, <2>2
  <2>4. q = 0
    BY SMT, <1>2, <2>1, <2>2, <2>3
  <2> QED
    BY SMT, <1>2, <2>4
<1> QED
  BY <1>1, <1>3, <1>4 DEF Grid!NextSlot

\* The ranges of the grid's state.
GridTyped ==
    /\ pc \in {"any", "steady"} /\ grid \in Grid!Fittable
    /\ Soon(next) /\ Recent(picture) /\ isPicture \in BOOLEAN /\ gap \in BOOLEAN
    /\ isPicture => picture = 0
    /\ failures \in 0..7 /\ retry \in Nat /\ due \in Int /\ Delayed(behind)

\* A repeat waits for 16 ms at most, or for the picture that is due.
LEMMA IdleFits ==
    ASSUME GridTyped
    PROVE  /\ Grid!Idle \in Int /\ Grid!RepeatAt \in Nat
           /\ Grid!Idle <= IF isPicture THEN 16833 + Grace ELSE 16000
<1>1. /\ grid \in Nat /\ next \in Int /\ next <= 16000 /\ next >= 0 /\ picture \in Int /\ retry \in Nat
      /\ (isPicture => picture = 0) /\ Grace \in Nat
  BY SMT, GridNumbers DEF GridTyped, Soon, Recent, Delayed, Grid!Fittable, Grid!LongAgo
<1>2. ~Grid!Low(grid) => grid <= 16833
  BY SMT, GridRates DEF GridTyped, Soon, Recent, Delayed, Grid!Fittable
<1>3. Grid!Idle \in Int /\ Grid!Idle <= IF isPicture THEN 16833 + Grace ELSE 16000
  BY SMT, <1>1, <1>2, GridNumbers DEF Grid!Idle, Grid!Most, Grid!Least
<1>4. Grid!RepeatAt \in Nat
  BY SMT, <1>1, <1>3 DEF Grid!RepeatAt, Grid!Most
<1> QED
  BY <1>3, <1>4

\* A picture waits behind the last one, without repeats,
LEMMA SpacingFits ==
    ASSUME NEW p \in Grid!Fittable, p <= 16833, NEW age \in Nat
    PROVE  Grid!Spacing(p, age) \in Int /\ Grid!Spacing(p, age) <= 16496
<1>1. PICK u \in Nat : u = Grid!Most(Grid!Floor, Grid!Percent(p, 98)) /\ 8342 <= u /\ u <= 16496
  BY SMT, GridNumbers DEF Grid!Most, Grid!Percent, Grid!Fittable
<1>2. PICK e : e = Grid!Least(age - p, p)
  OBVIOUS
<1>3. PICK q : q = ((u - 8342) * e) \div p
  OBVIOUS
<1>4. age > p => q \in Nat
  <2>1. age > p => e \in Nat
    BY SMT, <1>2 DEF Grid!Least, Grid!Fittable
  <2>2. age > p => (u - 8342) * e \in Nat
    <3>1. u - 8342 \in Nat
      BY SMT, <1>1
    <3>2. \A x, y \in Nat : x * y \in Nat
      BY SMT
    <3> QED
      BY <2>1, <3>1, <3>2
  <2>3. p \in Nat /\ p > 0
    BY SMT DEF Grid!Fittable
  <2> QED
    BY <1>3, <2>2, <2>3, Quotient
<1>5. Grid!Spacing(p, age) = IF age > p THEN u - q ELSE u
  BY <1>1, <1>2, <1>3, GridNumbers DEF Grid!Spacing
<1> QED
  BY SMT, <1>1, <1>4, <1>5

\* or on the grid, for one interval at most.
LEMMA PlaceFits ==
    ASSUME GridTyped, NEW p \in Grid!Fittable, NEW repeating \in BOOLEAN, NEW age \in Nat
    PROVE  Grid!Slot(p, repeating, age) \in Int /\ Grid!Slot(p, repeating, age) <= 16496
<1>1. PICK i \in Nat : i = Grid!Interval(p) /\ i <= 16000
  <2>1. Grid!Interval(p) \in Nat /\ 8342 <= Grid!Interval(p) /\ Grid!Interval(p) <= 16000
    BY GridRates
  <2> QED
    BY SMT, <2>1
<1>2. Grid!Percent(i, 95) \in Nat /\ Grid!Percent(i, 95) <= 16000
  BY SMT, <1>1 DEF Grid!Percent
<1>3. CASE Grid!Low(p)
  <2>1. /\ Grid!Floor = 8342 /\ next \in Int /\ next <= 16000 /\ p \in Nat
        /\ Grid!Percent(Grid!Interval(p), 95) = Grid!Percent(i, 95)
    BY SMT, <1>1, GridNumbers DEF GridTyped, Soon, Recent, Delayed, Grid!Fittable
  <2> QED
    BY SMT, <1>2, <1>3, <2>1 DEF Grid!Slot, Grid!Most
<1>4. CASE ~Grid!Low(p)
  <2>1. p <= 16833
    BY SMT, <1>4, GridRates DEF Grid!Fittable
  <2> QED
    BY SMT, <1>4, <2>1, SpacingFits, GridNumbers DEF Grid!Slot
<1> QED
  BY <1>3, <1>4

\* A picture of any PC.
LEMMA ShowFits ==
    ASSUME GridTyped, NEW p \in Grid!Fittable, NEW repeating \in BOOLEAN, NEW now \in Nat,
           NEW back \in Nat, NEW age \in Nat, NEW after \in Nat,
           Grid!Show(p, repeating, now, back, age, after)
    PROVE  GridTyped'
<1>1. PICK slot : slot = Grid!Slot(p, repeating, age)
  OBVIOUS
<1>2. PICK target : target = Grid!Most(now + back, slot)
  OBVIOUS
<1>3. /\ slot \in Int /\ slot <= 16496 /\ target \in Nat /\ target >= now + back
      /\ target - (now + back) <= 16496
  <2>1. slot \in Int /\ slot <= 16496
    BY <1>1, PlaceFits
  <2> QED
    BY SMT, <1>2, <2>1 DEF Grid!Most
<1>4. PICK s \in Nat : s = target + after
  BY <1>3
<1>5. PICK onGrid \in BOOLEAN : onGrid = (Grid!Low(p) \/ repeating)
  OBVIOUS
<1>6. /\ next' = Grid!NextSlot(onGrid, p, s) - s
      /\ picture' = 0 /\ isPicture' = TRUE /\ grid' = p
      /\ gap' = (Grid!Low(p) /\ repeating) /\ failures' = 0 /\ retry' = 0
      /\ behind' = target - (now + back)
      /\ due' = IF pc = "steady" THEN due + p - s ELSE 0
      /\ pc' = pc
  BY <1>1, <1>2, <1>4, <1>5, Zenon DEF Grid!Show
<1>7. Soon(next')
  <2>1. next \in Int /\ next <= 16000
    BY SMT DEF GridTyped, Soon
  <2>2. Soon(Grid!NextSlot(onGrid, p, s) - s)
    BY <2>1, SlotAfter
  <2> QED
    BY <1>6, <2>2, Zenon
<1>8. due' \in Int /\ Delayed(behind')
  <2>1. due \in Int /\ p \in Nat
    BY SMT DEF GridTyped, Soon, Recent, Delayed, Grid!Fittable
  <2>2. due' \in Int
    BY SMT, <1>6, <2>1
  <2>3. Delayed(behind')
    BY SMT, <1>3, <1>6 DEF Delayed
  <2> QED
    BY <2>2, <2>3
<1>9. gap' \in BOOLEAN
  BY <1>6
<1>10. Recent(0) /\ 0 \in 0..7 /\ 0 \in Nat /\ TRUE \in BOOLEAN
  BY SMT DEF Recent, Grid!LongAgo
<1>11. pc \in {"any", "steady"}
  BY DEF GridTyped
<1> QED
  BY Zenon, <1>6, <1>7, <1>8, <1>9, <1>10, <1>11 DEF GridTyped

\* How far the PC, and the thread, are late at most.
MostLate == CHOOSE j \in Jitters : \A k \in Jitters : k <= j
MostTardy == CHOOSE d \in Punctual : \A e \in Punctual : e <= d

\* A bounded set of numbers has a greatest.
LEMMA GreatestElement ==
    ASSUME NEW T, NEW bound \in Nat, T # {}, \A x \in T : x \in Nat /\ x <= bound
    PROVE  LET m == CHOOSE x \in T : \A y \in T : y <= x
           IN  m \in T /\ \A y \in T : y <= m
<1> DEFINE U == {bound - x : x \in T}
<1>1. U \subseteq Nat /\ U # {}
  <2>1. \A x \in T : bound - x \in Nat
    BY SMT
  <2> QED
    BY <2>1
<1>2. PICK u \in U : \A v \in U : u <= v
  <2> HIDE DEF U
  <2> QED
    BY <1>1, LeastElement
<1>3. PICK x \in T : u = bound - x
  OBVIOUS
<1>4. ASSUME NEW y \in T PROVE y <= x
  <2>1. bound - y \in U
    OBVIOUS
  <2>2. bound - x <= bound - y
    BY <1>2, <1>3, <2>1
  <2> QED
    BY SMT, <2>2
<1> HIDE DEF U
<1> QED
  BY <1>4, Zenon

\* What a rate that leaves room has.
LEMMA RateHasRoom ==
    ASSUME NEW p \in Periods
    PROVE  /\ p \in Grid!Fittable /\ MostTardy \in Punctual /\ MostTardy \in Nat
           /\ MostLate \in Nat /\ MostLate <= 1750 /\ MostLate <= Grace
           /\ \A j \in Jitters : j \in Nat /\ j <= MostLate
           /\ \A d \in Punctual : d \in Nat /\ d <= MostTardy
           /\ Grid!HasRoom(p, MostTardy)
<1>1. p \in Grid!Fittable /\ p \in Nat
  <2>1. p \in Grid!Fittable
    BY GridNumbers
  <2> QED
    BY SMT, <2>1 DEF Grid!Fittable
<1>2. MostLate \in Jitters /\ \A j \in Jitters : j <= MostLate
  <2>1. \A j \in Jitters : j \in Nat /\ j <= 1750
    BY GridNumbers
  <2>2. LET m == CHOOSE x \in Jitters : \A y \in Jitters : y <= x
        IN  m \in Jitters /\ \A y \in Jitters : y <= m
    BY <2>1, GridNumbers, GreatestElement
  <2> QED
    BY <2>2 DEF MostLate
<1>3. ASSUME NEW d \in Punctual PROVE d \in Nat /\ d <= p
  <2>1. d \in Nat /\ Grid!HasRoom(p, d)
    BY GridNumbers
  <2>2. PICK i : i = Grid!Interval(p)
    OBVIOUS
  <2>3. CASE Grid!Low(p)
    <3>1. 8342 + d <= i
      BY <2>1, <2>2, <2>3, GridNumbers DEF Grid!HasRoom
    <3>2. i \in Nat /\ i <= 16000
      BY <1>1, <2>2, IntervalFits
    <3>3. p > 16833
      BY <1>1, <2>3, LowRates
    <3> QED
      BY SMT, <1>1, <2>1, <3>1, <3>2, <3>3
  <2>4. CASE ~Grid!Low(p)
    <3>1. Grid!Most(8342, Grid!Percent(p, 98)) + d <= p
      BY <2>1, <2>4, GridNumbers DEF Grid!HasRoom
    <3> QED
      BY SMT, <1>1, <2>1, <3>1 DEF Grid!Most, Grid!Percent
  <2> QED
    BY <2>3, <2>4
<1>4. MostTardy \in Punctual /\ \A d \in Punctual : d <= MostTardy
  <2>1. LET m == CHOOSE x \in Punctual : \A y \in Punctual : y <= x
        IN  m \in Punctual /\ \A y \in Punctual : y <= m
    <3>1. Punctual # {}
      BY GridNumbers
    <3> QED
      BY <1>1, <1>3, <3>1, GreatestElement
  <2> QED
    BY <2>1 DEF MostTardy
<1> QED
  BY <1>1, <1>2, <1>3, <1>4, GridNumbers

\* The rounding of the interval, and how far a slot may be moved before the grid is.
Rest == grid - Grid!Copies(grid) * Grid!Interval(grid)
Tolerance == Grid!Interval(grid) - Grid!Percent(Grid!Interval(grid), 95)

\* So many repeats come before the next picture, whose slot is not later than the
\* picture, but for the lateness of this one and the ones before, and not much
\* before the time at which it is expected.
Row(k) ==
    /\ next + k * Grid!Interval(grid) <= due + MostLate + MostTardy
    /\ picture + grid <= next + k * Grid!Interval(grid) + Tolerance + Rest
    /\ next <= Grid!Interval(grid)
    /\ k = 0 => next >= Grid!Interval(grid) - MostTardy

KeepsRate ==
    /\ grid \in Periods /\ retry = 0
    /\ behind <= MostLate + MostTardy
    /\ due <= picture + grid
    /\ ~Grid!Low(grid) => isPicture /\ ~gap /\ due >= grid - MostLate - 2 * MostTardy
    /\ Grid!Low(grid) => \E k \in Nat : k < Grid!Copies(grid) /\ Row(k)

GridInv == GridTyped /\ (pc = "steady" => KeepsRate)

\* The sizes that a low rate has.
LEMMA LowSizes ==
    ASSUME grid \in Periods, Grid!Low(grid)
    PROVE  /\ Grid!Interval(grid) \in Nat /\ Grid!Interval(grid) >= 8342
           /\ Grid!Interval(grid) <= 13500
           /\ Grid!Copies(grid) \in Nat /\ Grid!Copies(grid) >= 2
           /\ Grid!Copies(grid) * Grid!Interval(grid) + Rest = grid
           /\ Rest \in Nat /\ Rest <= 28
           /\ Tolerance \in Nat /\ Tolerance <= 676 /\ MostTardy <= Tolerance
           /\ 8342 + MostTardy <= Grid!Interval(grid)
           /\ Grid!Percent(Grid!Interval(grid), 95) + Tolerance = Grid!Interval(grid)
           /\ Grid!Percent(Grid!Interval(grid), 95) \in Nat
           /\ grid \in Nat /\ grid <= 250000
<1>1. grid \in Grid!Fittable /\ MostTardy \in Nat /\ Grid!HasRoom(grid, MostTardy)
  BY RateHasRoom
<1>2. PICK i : i = Grid!Interval(grid)
  OBVIOUS
<1>3. PICK n : n = Grid!Copies(grid)
  OBVIOUS
<1>4. PICK m : m = n * i
  OBVIOUS
<1>5. /\ n \in Nat /\ n >= 2 /\ n <= 29 /\ i \in Nat /\ i >= 8342 /\ i <= 13500
      /\ m <= grid /\ grid < m + n
  <2>1. n \in 2..29 /\ i \in Nat /\ 8342 <= i /\ i <= 13500 /\ m <= grid /\ grid < m + n
    BY <1>1, <1>2, <1>3, <1>4, GridRates
  <2> QED
    BY SMT, <2>1
<1>6. m \in Nat
  BY SMT, <1>4, <1>5
<1>7. grid \in Nat /\ grid <= 250000
  BY SMT, <1>1 DEF Grid!Fittable
<1>8. PICK t : t = Grid!Percent(i, 95)
  OBVIOUS
<1>9. t \in Nat /\ t <= i /\ i - t <= 676
  BY SMT, <1>5, <1>8 DEF Grid!Percent
<1>10. 8342 + MostTardy <= i /\ t + MostTardy <= i
  BY <1>1, <1>2, <1>8, GridNumbers DEF Grid!HasRoom
<1>11. Rest = grid - m /\ Tolerance = i - t
  BY <1>2, <1>3, <1>4, <1>8 DEF Rest, Tolerance
<1> QED
  BY SMT, <1>1, <1>2, <1>3, <1>4, <1>5, <1>6, <1>7, <1>8, <1>9, <1>10, <1>11

\* A repeat, or one that is refused.
LEMMA RepeatFits ==
    ASSUME GridTyped, Grid!Repeat
    PROVE  GridTyped'
<1>1. PICK d \in Nat :
        /\ next' = Grid!NextSlot(TRUE, grid, Grid!RepeatAt + d) - (Grid!RepeatAt + d)
        /\ picture' = Grid!Most(picture - (Grid!RepeatAt + d), Grid!LongAgo)
        /\ due' = IF pc = "steady" THEN due - (Grid!RepeatAt + d) ELSE 0
  <2>1. Grid!Submitted \subseteq Nat
    <3>1. pc \in {"any", "steady"}
      BY DEF GridTyped
    <3>2. /\ SubmittedAfter["steady"] \subseteq Nat
          /\ SubmittedAfter["any"] \subseteq Nat
      BY GridNumbers
    <3> QED
      BY <3>1, <3>2, Zenon DEF Grid!Submitted
  <2> QED
    BY <2>1, Zenon DEF Grid!Repeat
<1>2. PICK s \in Nat : s = Grid!RepeatAt + d
  <2>1. Grid!RepeatAt \in Nat
    BY IdleFits
  <2> QED
    BY <2>1
<1>3. Soon(next')
  <2>1. next \in Int /\ next <= 16000 /\ grid \in Grid!Fittable
    BY SMT DEF GridTyped, Soon
  <2>2. Soon(Grid!NextSlot(TRUE, grid, s) - s)
    <3>1. PICK onGrid \in BOOLEAN : onGrid = TRUE
      OBVIOUS
    <3>2. Soon(Grid!NextSlot(onGrid, grid, s) - s)
      BY <2>1, SlotAfter
    <3> QED
      BY <3>1, <3>2, Zenon
  <2>3. next' = Grid!NextSlot(TRUE, grid, s) - s
    BY Zenon, <1>1, <1>2
  <2> QED
    BY <2>2, <2>3, Zenon
<1>4. Recent(picture') /\ due' \in Int
  <2>1. Recent(picture) /\ due \in Int
    BY DEF GridTyped
  <2>2. picture' = Grid!Most(picture - s, Grid!LongAgo) /\ due' = IF pc = "steady" THEN due - s ELSE 0
    BY Zenon, <1>1, <1>2
  <2> QED
    BY SMT, <2>1, <2>2 DEF Recent, Grid!Most, Grid!LongAgo
<1>5. /\ gap' = TRUE /\ isPicture' = FALSE /\ failures' = 0 /\ retry' = 0
      /\ pc' = pc /\ grid' = grid /\ behind' = behind
  BY Zenon DEF Grid!Repeat
<1>6. 0 \in 0..7 /\ 0 \in Nat /\ FALSE \in BOOLEAN /\ TRUE \in BOOLEAN
  BY SMT
<1> QED
  BY Zenon, <1>3, <1>4, <1>5, <1>6 DEF GridTyped

LEMMA RefusalFits ==
    ASSUME GridTyped, Grid!RepeatRefused
    PROVE  GridTyped' /\ pc' = "any"
<1>1. /\ retry' = Grid!RepeatAt + Grid!Backoff[Grid!Least(failures, 6) + 1]
      /\ failures' = Grid!Least(failures + 1, 7)
      /\ pc = "any" /\ pc' = pc /\ grid' = grid /\ next' = next /\ picture' = picture
      /\ isPicture' = isPicture /\ gap' = gap /\ due' = due /\ behind' = behind
  BY Zenon DEF Grid!RepeatRefused
<1>2. failures \in 0..7
  BY DEF GridTyped, Soon, Recent, Delayed
<1>3. Grid!Least(failures, 6) + 1 \in 1..7 /\ failures' \in 0..7
  BY SMT, <1>1, <1>2 DEF Grid!Least
<1>4. \A n \in 1..7 : Grid!Backoff[n] \in Nat
  BY SMT DEF Grid!Backoff
<1>5. retry' \in Nat
  BY <1>1, <1>3, <1>4, IdleFits
<1> QED
  BY <1>1, <1>3, <1>5 DEF GridTyped, Soon, Recent, Delayed

\* Whatever a changing PC sends.
LEMMA GridPictureFits ==
    ASSUME GridTyped, Grid!Picture
    PROVE  GridTyped' /\ pc' = "any"
<1>1. pc = "any" /\ Grid!Submitted \subseteq Nat
  <2>1. pc = "any"
    BY Zenon DEF Grid!Picture
  <2> QED
    BY <2>1, GridNumbers DEF Grid!Submitted
<1>2. PICK now \in Arrivals, d \in Grid!Submitted, p \in Cadences :
        /\ now <= Grid!RepeatAt
        /\ \/ \E age \in Grid!Ages(p) : Grid!Show(p, gap, now, 0, age, d)
           \/ \E back \in Grid!Backs :
                \/ Grid!Show(p, gap, now, back, 0, d)
                \/ ~Grid!Low(p) /\ Grid!Low(grid) /\ Grid!Show(p, FALSE, now, back, 0, d)
  BY Zenon DEF Grid!Picture
<1>3. now \in Nat /\ d \in Nat /\ p \in Grid!Fittable /\ p \in Nat /\ gap \in BOOLEAN
  BY <1>1, GridNumbers, LowRates DEF GridTyped, Soon, Recent, Delayed
<1>4. Grid!Ages(p) \subseteq Nat /\ Grid!Backs \subseteq Nat
  BY SMT, <1>3, GridNumbers DEF Grid!Ages, Grid!Backs
<1>5. PICK repeating \in BOOLEAN, back \in Nat, age \in Nat : Grid!Show(p, repeating, now, back, age, d)
  <2>1. CASE \E age \in Grid!Ages(p) : Grid!Show(p, gap, now, 0, age, d)
    <3>1. PICK age \in Grid!Ages(p) : Grid!Show(p, gap, now, 0, age, d)
      BY Zenon, <2>1
    <3>2. age \in Nat /\ 0 \in Nat
      BY <1>4
    <3> QED
      BY <1>3, <3>1, <3>2, Zenon
  <2>2. CASE \E back \in Grid!Backs :
               \/ Grid!Show(p, gap, now, back, 0, d)
               \/ ~Grid!Low(p) /\ Grid!Low(grid) /\ Grid!Show(p, FALSE, now, back, 0, d)
    <3>1. PICK back \in Grid!Backs :
            Grid!Show(p, gap, now, back, 0, d) \/ Grid!Show(p, FALSE, now, back, 0, d)
      BY Zenon, <2>2
    <3>2. back \in Nat /\ 0 \in Nat /\ FALSE \in BOOLEAN
      BY <1>4
    <3> QED
      BY <1>3, <3>1, <3>2, Zenon
  <2> QED
    BY <1>2, <2>1, <2>2, Zenon
<1>6. GridTyped'
  BY <1>3, <1>5, ShowFits
<1>7. pc' = "any"
  BY <1>1, <1>5, Zenon DEF Grid!Show
<1> QED
  BY <1>6, <1>7

\* On a low rate the last repeat before a picture leaves it its slot, and the
\* others keep to theirs.
LEMMA IdleOnRow ==
    ASSUME GridTyped, grid \in Periods, Grid!Low(grid), retry = 0, due <= picture + grid,
           NEW k \in Nat, Row(k)
    PROVE  /\ k = 0 => Grid!RepeatAt >= due + MostLate
           /\ k > 0 => /\ Grid!RepeatAt = next
                       /\ next + Grid!Interval(grid) <= due + MostLate + MostTardy
<1>1. PICK i : i = Grid!Interval(grid)
  OBVIOUS
<1>2. PICK m : m = k * i
  OBVIOUS
<1>3. PICK e : e = picture + grid
  OBVIOUS
<1>4. PICK loose : loose = Tolerance + Rest
  OBVIOUS
<1>5. /\ i \in Nat /\ i >= 8342 /\ i <= 13500 /\ 8342 + MostTardy <= i
      /\ loose \in Nat /\ loose <= 704 /\ MostTardy \in Nat /\ grid \in Nat
  BY <1>1, <1>4, LowSizes, RateHasRoom, SMT
<1>6. MostLate \in Nat /\ MostLate <= 1750 /\ MostLate <= Grace /\ Grace \in Nat /\ 750 <= Grace /\ Grace <= 2500
  BY RateHasRoom, GridNumbers
<1>7. next \in Int /\ next >= 7924 /\ due \in Int /\ e \in Int /\ due <= e
  <2>1. picture \in Int
    BY SMT DEF GridTyped, Soon, Recent, Delayed, Grid!LongAgo
  <2> QED
    BY SMT, <1>3, <1>5, <2>1 DEF GridTyped, Soon, Recent, Delayed
<1>8. /\ next + m <= due + MostLate + MostTardy /\ e <= next + m + loose /\ next <= i
  <2>1. /\ next + m <= due + MostLate + MostTardy
        /\ e <= next + m + Tolerance + Rest /\ next <= i
    BY <1>1, <1>2, <1>3 DEF Row
  <2>2. Tolerance \in Nat /\ Rest \in Nat
    BY LowSizes
  <2>3. m \in Nat
    BY SMT, <1>2, <1>5
  <2> QED
    BY SMT, <1>4, <1>7, <2>1, <2>2, <2>3
<1>9. k = 0 => m = 0
  BY SMT, <1>2, <1>5
<1>10. k > 0 => m >= i
  <2>1. ASSUME k > 0 PROVE m >= i
    <3>1. PICK l \in Nat : k = l + 1
      <4>1. k - 1 \in Nat /\ k = (k - 1) + 1
        BY SMT, <2>1
      <4> QED
        BY <4>1
    <3>2. l * i \in Nat /\ m = l * i + i
      BY SMT, <1>2, <1>5, <3>1
    <3> QED
      BY SMT, <1>5, <3>2
  <2> QED
    BY <2>1
<1>11. PICK idle : idle = Grid!Idle
  OBVIOUS
<1>12. idle = IF next > e + Grace \/ next + Grace < e THEN next
              ELSE Grid!Least(Grid!Most(next, e + Grace), 16000)
  BY <1>3, <1>11, GridNumbers DEF Grid!Idle
<1>13. Grid!RepeatAt = Grid!Most(idle, 0)
  BY <1>11 DEF Grid!RepeatAt
<1>14. m \in Nat /\ Grace \in Nat /\ Grace >= 750 /\ Grace <= 2500
  BY SMT, <1>2, <1>5, <1>6
<1>15. CASE k = 0
  BY SMT, <1>5, <1>6, <1>7, <1>8, <1>9, <1>12, <1>13, <1>14, <1>15 DEF Grid!Least, Grid!Most
<1>16. CASE k > 0
  <2>1. next + i <= due + MostLate + MostTardy
    BY SMT, <1>5, <1>6, <1>7, <1>8, <1>10, <1>14, <1>16
  <2>2. next + Grace < e
    BY SMT, <1>5, <1>6, <1>7, <1>14, <2>1
  <2>3. Grid!RepeatAt = next
    BY SMT, <1>7, <1>12, <1>13, <2>2 DEF Grid!Most
  <2> QED
    BY SMT, <1>1, <1>16, <2>1, <2>3
<1> QED
  BY SMT, <1>15, <1>16

\* A picture that keeps its place is followed by repeats, or by the next picture,
\* that do.
LEMMA RowGoesOn ==
    ASSUME GridTyped, grid \in Periods, Grid!Low(grid),
           NEW k \in Nat, NEW l \in Nat, NEW d \in Nat, d <= MostTardy, k = l + 1, Row(k),
           grid' = grid, next' = Grid!Interval(grid) - d, due' = due - next - d,
           picture' \in Int, picture' <= picture - next - d
    PROVE  Row(l)'
<1>1. PICK i : i = Grid!Interval(grid)
  OBVIOUS
<1>2. PICK m : m = l * i
  OBVIOUS
<1>3. PICK loose : loose = Tolerance + Rest
  OBVIOUS
<1>4. i \in Nat /\ Tolerance \in Nat /\ Rest \in Nat /\ MostTardy \in Nat /\ grid \in Nat /\ MostLate \in Nat
  BY <1>1, LowSizes, RateHasRoom, SMT
<1>5. m \in Nat /\ k * i = m + i
  BY SMT, <1>2, <1>4
<1>6. next \in Int /\ due \in Int /\ picture \in Int
  BY SMT DEF GridTyped, Soon, Recent, Delayed, Grid!LongAgo
<1>7. /\ next + (m + i) <= due + MostLate + MostTardy
      /\ picture + grid <= next + (m + i) + Tolerance + Rest
  BY <1>1, <1>5 DEF Row
<1>8. /\ next' + m <= due' + MostLate + MostTardy
      /\ next' <= i /\ next' >= i - MostTardy
  BY SMT, <1>1, <1>4, <1>5, <1>6, <1>7
<1>9. picture' + grid <= next' + m + Tolerance + Rest
  BY SMT, <1>1, <1>4, <1>5, <1>6, <1>7
<1>10. /\ Grid!Interval(grid') = i /\ Tolerance' = Tolerance /\ Rest' = Rest
  BY <1>1 DEF Tolerance, Rest
<1> QED
  BY <1>1, <1>2, <1>8, <1>9, <1>10 DEF Row

\* A repeat of a low rate's grid.
LEMMA RepeatKeeps ==
    ASSUME GridTyped, KeepsRate, pc = "steady", Grid!Repeat
    PROVE  KeepsRate'
<1>1. PICK j \in Jitters : due + j > Grid!RepeatAt
  BY DEF Grid!Repeat
<1>2. /\ j \in Nat /\ j <= MostLate /\ MostLate \in Nat /\ MostTardy \in Nat
      /\ MostLate <= 1750 /\ grid \in Nat /\ grid \in Grid!Fittable
  <2>1. grid \in Periods
    BY DEF KeepsRate
  <2>2. grid \in Grid!Fittable
    BY DEF GridTyped, Soon, Recent, Delayed
  <2> QED
    BY <2>1, <2>2, RateHasRoom, LowRates
<1>3. Grid!RepeatAt \in Nat /\ Grid!Idle \in Int
  BY IdleFits
<1>4. next \in Int /\ due \in Int /\ picture \in Int /\ next >= 7924
  BY SMT DEF GridTyped, Soon, Recent, Delayed, Grid!LongAgo
<1>5. retry = 0 /\ due <= picture + grid /\ grid \in Periods
  BY DEF KeepsRate
<1>6. Grid!Low(grid)
  <2>1. SUFFICES ASSUME ~Grid!Low(grid) PROVE FALSE
    OBVIOUS
  <2>2. isPicture
    BY <2>1 DEF KeepsRate
  <2>3. PICK e : e = picture + grid
    OBVIOUS
  <2>4. Grid!Idle = Grid!Most(next, e + Grace)
    BY <2>1, <2>2, <2>3 DEF Grid!Idle
  <2>5. Grid!RepeatAt = Grid!Most(Grid!Most(next, e + Grace), 0)
    BY <1>5, <2>4 DEF Grid!RepeatAt
  <2>6. Grace \in Nat /\ MostLate <= Grace
    BY SMT, <1>5, RateHasRoom, GridNumbers
  <2> QED
    BY SMT, <1>1, <1>2, <1>4, <1>5, <2>3, <2>5, <2>6 DEF Grid!Most
<1>7. PICK k \in Nat : k < Grid!Copies(grid) /\ Row(k)
  BY <1>6 DEF KeepsRate
<1>8. /\ k = 0 => Grid!RepeatAt >= due + MostLate
      /\ k > 0 => /\ Grid!RepeatAt = next
                  /\ next + Grid!Interval(grid) <= due + MostLate + MostTardy
  BY <1>5, <1>6, <1>7, IdleOnRow
<1>9. k > 0 /\ Grid!RepeatAt = next
  BY SMT, <1>1, <1>2, <1>3, <1>4, <1>8
<1>10. PICK l \in Nat : k = l + 1
  <2>1. k - 1 \in Nat /\ k = (k - 1) + 1
    BY SMT, <1>9
  <2> QED
    BY <2>1
<1>11. PICK d \in Punctual :
         /\ next' = Grid!NextSlot(TRUE, grid, next + d) - (next + d)
         /\ picture' = Grid!Most(picture - (next + d), Grid!LongAgo)
         /\ due' = due - (next + d)
  <2>1. Grid!Submitted = Punctual
    BY GridNumbers DEF Grid!Submitted
  <2>2. PICK d \in Punctual :
         /\ next' = Grid!NextSlot(TRUE, grid, Grid!RepeatAt + d) - (Grid!RepeatAt + d)
         /\ picture' = Grid!Most(picture - (Grid!RepeatAt + d), Grid!LongAgo)
         /\ due' = IF pc = "steady" THEN due - (Grid!RepeatAt + d) ELSE 0
    BY <2>1, Zenon DEF Grid!Repeat
  <2> QED
    BY <1>9, <2>2
<1>12. d \in Nat /\ d <= MostTardy
  BY <1>5, RateHasRoom
<1>13. PICK i \in Nat : i = Grid!Interval(grid) /\ i >= 8342 /\ MostTardy < i
  <2>1. Grid!Interval(grid) \in Nat /\ 8342 + MostTardy <= Grid!Interval(grid) /\ Grid!Interval(grid) >= 8342
    BY <1>5, <1>6, LowSizes
  <2> QED
    BY SMT, <1>2, <2>1
<1>14. PICK t \in Nat : /\ t = Grid!Percent(Grid!Interval(grid), 95)
                        /\ t + Tolerance = i
  BY <1>5, <1>6, <1>13, LowSizes
<1>15. MostTardy <= Tolerance /\ Tolerance <= 676 /\ Tolerance \in Nat /\ grid <= 250000
  BY <1>5, <1>6, LowSizes
<1>16. PICK s \in Nat : s = next + d
  <2>1. next + d \in Nat
    BY SMT, <1>4, <1>12
  <2> QED
    BY <2>1
<1>17. next <= s /\ s - next < i /\ ~(next + i < s + t)
  BY SMT, <1>2, <1>4, <1>12, <1>13, <1>14, <1>15, <1>16
<1>18. Grid!NextSlot(TRUE, grid, s) = next + i
  <2>1. s - next < Grid!Interval(grid)
    BY <1>13, <1>17
  <2>2. next \in Int /\ s \in Nat /\ next <= s /\ grid \in Grid!Fittable
    BY <1>2, <1>4, <1>16, <1>17
  <2>3. Grid!NextSlot(TRUE, grid, s) =
          IF next + Grid!Interval(grid) < s + Grid!Percent(Grid!Interval(grid), 95)
          THEN s + Grid!Interval(grid) ELSE next + Grid!Interval(grid)
    BY <2>1, <2>2, SlotGoesOn
  <2>4. i = Grid!Interval(grid) /\ t = Grid!Percent(Grid!Interval(grid), 95)
    BY <1>13, <1>14
  <2>5. Grid!NextSlot(TRUE, grid, s) = IF next + i < s + t THEN s + i ELSE next + i
    BY Zenon, <2>3, <2>4
  <2> QED
    BY <1>17, <2>5
<1>19. next' = i - d /\ due' = due - next - d
  <2>1. next' = Grid!NextSlot(TRUE, grid, s) - s /\ due' = due - s
    BY <1>11, <1>16
  <2>2. next' = (next + i) - (next + d) /\ due' = due - (next + d)
    BY <1>16, <1>18, <2>1, Zenon
  <2>3. next \in Int /\ due \in Int
    BY <1>4
  <2> QED
    BY SMT, <1>12, <2>2, <2>3
<1>20. picture' \in Int /\ picture' = picture - next - d
  <2>1. picture - s >= -300000
    BY SMT, <1>2, <1>4, <1>5, <1>8, <1>9, <1>12, <1>13, <1>15, <1>16
  <2>2. picture' = Grid!Most(picture - s, -300000)
    BY <1>11, <1>16 DEF Grid!LongAgo
  <2> QED
    BY SMT, <1>4, <1>12, <1>16, <2>1, <2>2 DEF Grid!Most
<1>21. grid' = grid /\ behind' = behind /\ retry' = 0
  BY Zenon DEF Grid!Repeat
<1>22. Row(l)'
  <2>1. next' = Grid!Interval(grid) - d /\ picture' <= picture - next - d
    BY SMT, <1>4, <1>12, <1>13, <1>19, <1>20
  <2> QED
    BY <1>5, <1>6, <1>7, <1>10, <1>12, <1>19, <1>20, <1>21, <2>1, RowGoesOn
<1>23. l < Grid!Copies(grid)
  <2>1. Grid!Copies(grid) \in Nat
    BY <1>5, <1>6, LowSizes
  <2> QED
    BY SMT, <1>7, <1>10, <2>1
<1>24. due' <= picture' + grid
  BY SMT, <1>2, <1>4, <1>5, <1>12, <1>19, <1>20
<1>25. behind' <= MostLate + MostTardy
  BY <1>21 DEF KeepsRate
<1> QED
  BY <1>5, <1>6, <1>21, <1>22, <1>23, <1>24, <1>25 DEF KeepsRate

\* What a picture of the steady PC sets.
SteadyShown(j, d, now, target, s) ==
    /\ j \in Jitters /\ d \in Punctual /\ due + j <= Grid!RepeatAt
    /\ now = Grid!Most(due + j, 0) /\ target = Grid!Most(now, Grid!Slot(grid, gap, 0))
    /\ s = target + d
    /\ next' = Grid!NextSlot(Grid!Low(grid) \/ gap, grid, s) - s
    /\ picture' = 0 /\ isPicture' = TRUE /\ grid' = grid /\ gap' = (Grid!Low(grid) /\ gap)
    /\ retry' = 0 /\ behind' = target - now /\ due' = due + grid - s /\ pc' = pc

LEMMA PictureShown ==
    ASSUME GridTyped, pc = "steady", Grid!SteadyPicture
    PROVE  \E j, d, now, target, s : SteadyShown(j, d, now, target, s)
<1>1. PICK j \in Jitters, d \in Punctual :
        /\ due + j <= Grid!RepeatAt
        /\ Grid!Show(grid, gap, Grid!Most(due + j, 0), 0, 0, d)
  <2>1. Grid!Submitted = Punctual
    BY GridNumbers DEF Grid!Submitted
  <2> QED
    BY <2>1, Zenon DEF Grid!SteadyPicture
<1>2. PICK now : now = Grid!Most(due + j, 0)
  OBVIOUS
<1>3. now + 0 = now
  <2>1. due \in Int /\ j \in Nat
    BY GridNumbers DEF GridTyped, Soon, Recent, Delayed
  <2> QED
    BY SMT, <1>2, <2>1 DEF Grid!Most
<1>4. PICK target : target = Grid!Most(now, Grid!Slot(grid, gap, 0))
  OBVIOUS
<1>5. PICK s : s = target + d
  OBVIOUS
<1>6. SteadyShown(j, d, now, target, s)
  BY Zenon, <1>1, <1>2, <1>3, <1>4, <1>5 DEF Grid!Show, SteadyShown
<1> QED
  BY <1>6

\* A picture takes its slot, or the grid is moved to it.
LEMMA LowPictureKeeps ==
    ASSUME GridTyped, KeepsRate, pc = "steady", Grid!Low(grid), Grid!SteadyPicture
    PROVE  KeepsRate'
<1>1. PICK j, d, now, target, s : SteadyShown(j, d, now, target, s)
  BY PictureShown
<1>2. grid \in Periods /\ grid \in Grid!Fittable /\ retry = 0 /\ due <= picture + grid
  BY DEF KeepsRate, GridTyped, Soon, Recent, Delayed
<1>3. /\ j \in Nat /\ j <= MostLate /\ MostLate \in Nat /\ MostLate <= 1750
      /\ d \in Nat /\ d <= MostTardy /\ MostTardy \in Nat /\ due + j <= Grid!RepeatAt
  <2>1. j \in Jitters /\ d \in Punctual /\ due + j <= Grid!RepeatAt
    BY <1>1 DEF SteadyShown
  <2> QED
    BY <1>2, <2>1, RateHasRoom
<1>4. PICK k \in Nat : k < Grid!Copies(grid) /\ Row(k)
  BY DEF KeepsRate
<1>5. PICK i, n, m, t : /\ i = Grid!Interval(grid) /\ n = Grid!Copies(grid) /\ m = n * i
                        /\ t = Grid!Percent(Grid!Interval(grid), 95)
  OBVIOUS
<1>6. /\ i \in Nat /\ i >= 8342 /\ n \in Nat /\ n >= 2 /\ m + Rest = grid
      /\ Rest \in Nat /\ Rest <= 28 /\ Tolerance \in Nat /\ Tolerance <= 676
      /\ MostTardy <= Tolerance /\ 8342 + MostTardy <= i /\ t + Tolerance = i
      /\ t \in Nat /\ grid \in Nat
  <2>1. /\ Grid!Interval(grid) \in Nat /\ Grid!Interval(grid) >= 8342
        /\ Grid!Copies(grid) \in Nat /\ Grid!Copies(grid) >= 2
        /\ Grid!Copies(grid) * Grid!Interval(grid) + Rest = grid
        /\ Rest \in Nat /\ Rest <= 28 /\ Tolerance \in Nat /\ Tolerance <= 676
        /\ MostTardy <= Tolerance /\ 8342 + MostTardy <= Grid!Interval(grid)
        /\ Grid!Percent(Grid!Interval(grid), 95) + Tolerance = Grid!Interval(grid)
        /\ Grid!Percent(Grid!Interval(grid), 95) \in Nat /\ grid \in Nat
    BY <1>2, LowSizes
  <2> QED
    BY SMT, <1>5, <2>1
<1>7. next \in Int /\ due \in Int /\ picture \in Int
  BY SMT DEF GridTyped, Soon, Recent, Delayed, Grid!LongAgo
<1>8. k > 0 => Grid!RepeatAt = next /\ next + i <= due + MostLate + MostTardy
  BY <1>2, <1>4, <1>5, IdleOnRow
<1>9. k = 0
  BY SMT, <1>3, <1>4, <1>6, <1>7, <1>8
<1>10. /\ next <= due + MostLate + MostTardy /\ picture + grid <= next + Tolerance + Rest
       /\ next <= i /\ next >= i - MostTardy
  <2>1. k * i = 0 /\ next + 0 = next
    BY SMT, <1>6, <1>7, <1>9
  <2> QED
    BY <1>4, <1>5, <1>9, <2>1 DEF Row
<1>11. Grid!Slot(grid, gap, 0) = next
  <2>1. Grid!Slot(grid, gap, 0) = IF 0 > grid THEN 8342 ELSE Grid!Most(8342, Grid!Most(next, t))
    BY <1>5, GridNumbers DEF Grid!Slot
  <2> QED
    BY SMT, <1>3, <1>6, <1>7, <1>10, <2>1 DEF Grid!Most
<1>12. /\ now = Grid!Most(due + j, 0) /\ target = Grid!Most(now, next) /\ s = target + d
       /\ behind' = target - now /\ due' = due + grid - s /\ picture' = 0
       /\ retry' = 0 /\ grid' = grid
  BY <1>1, <1>11 DEF SteadyShown
<1>13. next' = Grid!NextSlot(TRUE, grid, s) - s
  <2>1. (Grid!Low(grid) \/ gap) = TRUE
    OBVIOUS
  <2> QED
    BY <1>1, <2>1 DEF SteadyShown
<1>14. /\ s \in Nat /\ next <= s /\ s - next < i /\ due <= s
       /\ s - next > Tolerance => s <= due + MostLate + MostTardy
       /\ behind' <= MostLate + MostTardy
  BY SMT, <1>2, <1>3, <1>6, <1>7, <1>10, <1>12 DEF Grid!Most
<1>15. Grid!NextSlot(TRUE, grid, s) = IF next + i < s + t THEN s + i ELSE next + i
  <2>1. s \in Nat /\ next \in Int /\ next <= s /\ s - next < Grid!Interval(grid) /\ grid \in Grid!Fittable
    BY <1>2, <1>5, <1>7, <1>14
  <2>2. Grid!NextSlot(TRUE, grid, s) =
          IF next + Grid!Interval(grid) < s + Grid!Percent(Grid!Interval(grid), 95)
          THEN s + Grid!Interval(grid) ELSE next + Grid!Interval(grid)
    BY <2>1, SlotGoesOn
  <2> QED
    BY Zenon, <1>5, <2>2
<1>16. PICK l \in Nat : n = l + 1 /\ l > 0 /\ l < n
  <2>1. n - 1 \in Nat /\ n = (n - 1) + 1 /\ n - 1 > 0 /\ n - 1 < n
    BY SMT, <1>6
  <2> QED
    BY <2>1
<1>17. PICK rest : rest = l * i
  OBVIOUS
<1>18. rest \in Nat /\ rest + i + Rest = grid
  <2>1. rest \in Nat /\ m = rest + i
    BY SMT, <1>5, <1>6, <1>16, <1>17
  <2> QED
    BY SMT, <1>6, <2>1
<1>19. /\ next' + rest <= due' + MostLate + MostTardy
       /\ grid <= next' + rest + Tolerance + Rest /\ next' <= i
  <2>1. next' = (IF next + i < s + t THEN s + i ELSE next + i) - s
    BY Zenon, <1>13, <1>15
  <2>2. CASE next + i < s + t
    <3>1. next' = i /\ s - next > Tolerance
      BY SMT, <1>6, <1>7, <1>14, <2>1, <2>2
    <3> QED
      BY SMT, <1>3, <1>6, <1>7, <1>12, <1>14, <1>18, <3>1
  <2>3. CASE ~(next + i < s + t)
    <3>1. next' = next + i - s /\ s - next <= Tolerance
      BY SMT, <1>6, <1>7, <1>14, <2>1, <2>3
    <3> QED
      BY SMT, <1>3, <1>6, <1>7, <1>10, <1>12, <1>14, <1>18, <3>1
  <2> QED
    BY <2>2, <2>3
<1>20. Row(l)'
  <2>1. /\ Grid!Interval(grid') = i /\ Tolerance' = Tolerance /\ Rest' = Rest
    BY <1>5, <1>12 DEF Tolerance, Rest
  <2>2. picture' + grid' = grid /\ l # 0
    BY SMT, <1>6, <1>12, <1>16
  <2> QED
    BY <1>17, <1>19, <2>1, <2>2 DEF Row
<1>21. due' <= picture' + grid'
  BY SMT, <1>6, <1>7, <1>12, <1>14
<1> QED
  BY <1>2, <1>5, <1>12, <1>14, <1>16, <1>20, <1>21 DEF KeepsRate

\* At a rate that needs no repeats a picture waits for the one before it at most.
LEMMA HighPictureKeeps ==
    ASSUME GridTyped, KeepsRate, pc = "steady", ~Grid!Low(grid), Grid!SteadyPicture
    PROVE  KeepsRate'
<1>1. PICK j, d, now, target, s : SteadyShown(j, d, now, target, s)
  BY PictureShown
<1>2. /\ grid \in Periods /\ grid \in Grid!Fittable /\ retry = 0
      /\ ~gap /\ due >= grid - MostLate - 2 * MostTardy
  BY DEF KeepsRate, GridTyped, Soon, Recent, Delayed
<1>3. /\ j \in Nat /\ j <= MostLate /\ MostLate \in Nat
      /\ d \in Nat /\ d <= MostTardy /\ MostTardy \in Nat
  <2>1. j \in Jitters /\ d \in Punctual
    BY <1>1 DEF SteadyShown
  <2> QED
    BY <1>2, <2>1, RateHasRoom
<1>4. grid \in Nat /\ due \in Int
  BY <1>2, LowRates DEF GridTyped, Soon, Recent, Delayed
<1>5. PICK usual : usual = Grid!Most(8342, Grid!Percent(grid, 98))
  OBVIOUS
<1>6. usual \in Nat /\ usual >= 8342 /\ usual + MostTardy <= grid
  <2>1. usual + MostTardy <= grid
    BY <1>2, <1>5, RateHasRoom, GridNumbers DEF Grid!HasRoom
  <2> QED
    BY SMT, <1>4, <1>5, <2>1 DEF Grid!Most, Grid!Percent
<1>7. Grid!Slot(grid, gap, 0) = usual
  <2>1. Grid!Slot(grid, gap, 0) = Grid!Spacing(grid, 0)
    BY <1>2, Zenon DEF Grid!Slot
  <2>2. Grid!Spacing(grid, 0) =
          IF 0 > grid THEN usual - ((usual - 8342) * Grid!Least(0 - grid, grid)) \div grid ELSE usual
    BY <1>5, GridNumbers DEF Grid!Spacing
  <2>3. ~(0 > grid)
    BY SMT, <1>4
  <2> QED
    BY <2>1, <2>2, <2>3
<1>8. /\ now = Grid!Most(due + j, 0) /\ target = Grid!Most(now, usual) /\ s = target + d
      /\ behind' = target - now /\ due' = due + grid - s /\ picture' = 0
      /\ retry' = 0 /\ grid' = grid
  BY <1>1, <1>7 DEF SteadyShown
<1>9. isPicture' = TRUE /\ gap' = (Grid!Low(grid) /\ gap)
  BY <1>1 DEF SteadyShown
<1>10. PICK reach \in Nat : reach = MostLate + 2 * MostTardy
  <2>1. MostLate + 2 * MostTardy \in Nat
    BY SMT, <1>3
  <2> QED
    BY <2>1
<1>11. due + reach >= grid
  BY SMT, <1>2, <1>3, <1>4, <1>10
<1>12. /\ behind' <= MostLate + MostTardy
       /\ due' >= grid - MostLate - 2 * MostTardy /\ due' <= picture' + grid
  BY SMT, <1>3, <1>4, <1>6, <1>8, <1>10, <1>11 DEF Grid!Most
<1> QED
  BY <1>2, <1>8, <1>9, <1>12 DEF KeepsRate

\* The first picture: the grid is laid from it.
LEMMA FirstRow ==
    ASSUME grid \in Periods, Grid!Low(grid),
           next = Grid!Interval(grid), picture = 0, due = grid
    PROVE  \E k \in Nat : k < Grid!Copies(grid) /\ Row(k)
<1>1. PICK i, n, m : i = Grid!Interval(grid) /\ n = Grid!Copies(grid) /\ m = n * i
  OBVIOUS
<1>2. /\ i \in Nat /\ n \in Nat /\ n >= 2 /\ m + Rest = grid /\ Rest \in Nat
      /\ Tolerance \in Nat /\ grid \in Nat /\ MostTardy \in Nat /\ MostLate \in Nat
  <2>1. /\ Grid!Interval(grid) \in Nat /\ Grid!Copies(grid) \in Nat /\ Grid!Copies(grid) >= 2
        /\ Grid!Copies(grid) * Grid!Interval(grid) + Rest = grid
        /\ Rest \in Nat /\ Tolerance \in Nat /\ grid \in Nat
    BY LowSizes
  <2> QED
    BY <1>1, <2>1, RateHasRoom
<1>3. PICK k \in Nat : n = k + 1 /\ k < n
  <2>1. n - 1 \in Nat /\ n = (n - 1) + 1 /\ n - 1 < n
    BY SMT, <1>2
  <2> QED
    BY <2>1
<1>4. PICK rest : rest = k * i
  OBVIOUS
<1>5. rest \in Nat /\ m = rest + i
  BY SMT, <1>1, <1>2, <1>3, <1>4
<1>6. /\ next + rest <= due + MostLate + MostTardy
      /\ picture + grid <= next + rest + Tolerance + Rest
      /\ next <= i /\ next >= i - MostTardy
  BY SMT, <1>1, <1>2, <1>5
<1>7. Row(k)
  BY <1>1, <1>4, <1>6 DEF Row
<1> QED
  BY <1>1, <1>3, <1>7

LEMMA GridStart == ASSUME Grid!Init PROVE GridInv
<1>1. /\ pc \in {"any", "steady"} /\ next = Grid!Interval(grid)
      /\ picture = 0 /\ isPicture = TRUE /\ gap = FALSE
      /\ failures = 0 /\ retry = 0 /\ behind = 0
      /\ due = IF pc = "steady" THEN grid ELSE 0
      /\ grid \in IF pc = "steady" THEN Periods ELSE Cadences
  BY Zenon DEF Grid!Init
<1>2. grid \in Grid!Fittable
  <2>1. Periods \subseteq Grid!Fittable /\ Cadences \subseteq Grid!Fittable
    BY GridNumbers
  <2> QED
    BY <1>1, <2>1, Zenon
<1>3. GridTyped
  <2>1. Soon(next)
    BY SMT, <1>1, <1>2, IntervalFits DEF Soon
  <2>2. due \in Int
    BY SMT, <1>1, <1>2, LowRates
  <2>3. Recent(picture) /\ failures \in 0..7 /\ retry \in Nat /\ Delayed(behind)
    BY SMT, <1>1 DEF Recent, Delayed, Grid!LongAgo
  <2>4. isPicture \in BOOLEAN /\ gap \in BOOLEAN /\ (isPicture => picture = 0)
    BY <1>1
  <2> QED
    BY Zenon, <1>1, <1>2, <2>1, <2>2, <2>3, <2>4 DEF GridTyped
<1>4. ASSUME pc = "steady" PROVE KeepsRate
  <2>1. grid \in Periods /\ due = grid
    BY <1>1, <1>4
  <2>2. /\ MostLate \in Nat /\ MostTardy \in Nat /\ grid \in Nat
    BY <1>2, <2>1, RateHasRoom, LowRates
  <2>3. /\ behind <= MostLate + MostTardy /\ due <= picture + grid
        /\ due >= grid - MostLate - 2 * MostTardy
    BY SMT, <1>1, <2>1, <2>2
  <2>4. Grid!Low(grid) => \E k \in Nat : k < Grid!Copies(grid) /\ Row(k)
    BY <1>1, <2>1, FirstRow
  <2> QED
    BY <1>1, <2>1, <2>3, <2>4 DEF KeepsRate
<1> QED
  BY <1>3, <1>4 DEF GridInv

LEMMA GridStep ==
    ASSUME GridInv, Grid!Next \/ UNCHANGED repeats
    PROVE  GridInv'
<1>1. GridTyped /\ pc \in {"any", "steady"} /\ (pc = "steady" => KeepsRate)
  BY DEF GridInv, GridTyped, Soon, Recent, Delayed
<1>2. CASE Grid!Picture
  BY <1>1, <1>2, GridPictureFits DEF GridInv
<1>3. CASE Grid!RepeatRefused
  BY <1>1, <1>3, RefusalFits DEF GridInv
<1>4. CASE Grid!SteadyPicture
  <2>1. pc = "steady"
    BY <1>4, Zenon DEF Grid!SteadyPicture
  <2>2. KeepsRate'
    BY <1>1, <1>4, <2>1, LowPictureKeeps, HighPictureKeeps
  <2>3. GridTyped'
    <3>1. PICK i \in Jitters, e \in Punctual : Grid!Show(grid, gap, Grid!Most(due + i, 0), 0, 0, e)
      <4>1. Grid!Submitted = Punctual
        BY <2>1, GridNumbers DEF Grid!Submitted
      <4> QED
        BY <1>4, <4>1, Zenon DEF Grid!SteadyPicture
    <3>2. Grid!Most(due + i, 0) \in Nat /\ e \in Nat /\ 0 \in Nat
      <4>1. i \in Nat /\ e \in Nat
        BY GridNumbers
      <4> QED
        BY SMT, <1>1, <4>1 DEF GridTyped, Soon, Recent, Delayed, Grid!Most
    <3>3. gap \in BOOLEAN /\ grid \in Grid!Fittable
      BY <1>1 DEF GridTyped, Soon, Recent, Delayed
    <3> QED
      BY <1>1, <3>1, <3>2, <3>3, ShowFits, Zenon
  <2> QED
    BY <2>2, <2>3 DEF GridInv
<1>5. CASE Grid!Repeat
  <2>1. GridTyped' /\ pc' = pc
    BY <1>1, <1>5, RepeatFits, Zenon DEF Grid!Repeat
  <2>2. pc = "steady" => KeepsRate'
    BY <1>1, <1>5, RepeatKeeps
  <2> QED
    BY <2>1, <2>2 DEF GridInv
<1>6. CASE UNCHANGED repeats
  <2>1. /\ pc' = pc /\ grid' = grid /\ next' = next /\ picture' = picture
        /\ isPicture' = isPicture /\ gap' = gap /\ failures' = failures /\ retry' = retry
        /\ due' = due /\ behind' = behind
    BY <1>6, Zenon DEF repeats
  <2>2. GridTyped'
    BY <1>1, <2>1, Zenon DEF GridTyped
  <2>3. KeepsRate => KeepsRate'
    BY <2>1, Zenon DEF KeepsRate, Row, Tolerance, Rest
  <2> QED
    BY <1>1, <2>1, <2>2, <2>3, Zenon DEF GridInv
<1> QED
  BY <1>2, <1>3, <1>4, <1>5, <1>6, Zenon DEF Grid!Next

LEMMA GridFits == ASSUME GridInv PROVE Grid!GridOK
<1>1. GridTyped /\ (pc = "steady" => KeepsRate)
  BY DEF GridInv
<1>2. Grid!TypeOK
  <2>1. grid \in Nat
    BY <1>1, LowRates DEF GridTyped, Soon, Recent, Delayed
  <2>2. behind \in Nat
    BY SMT, <1>1 DEF GridTyped, Soon, Recent, Delayed
  <2> QED
    BY SMT, <1>1, <2>1, <2>2 DEF GridTyped, Soon, Recent, Delayed, Grid!TypeOK
<1>3. Grid!NeverTooSlow
  <2>1. Grid!Idle <= IF isPicture THEN 16833 + Grace ELSE 16000
    BY <1>1, IdleFits
  <2> QED
    BY SMT, <2>1, GridNumbers DEF Grid!NeverTooSlow
<1>4. Grid!NeverABurst
  <2>1. Grid!Percent(8342, 95) = 7924
    BY SMT DEF Grid!Percent
  <2>2. next \in Int /\ 7924 <= next
    BY <1>1 DEF GridTyped, Soon, Recent, Delayed
  <2> QED
    BY SMT, <2>1, <2>2, GridNumbers DEF Grid!NeverABurst
<1>5. Grid!NoExtraPeriod
  <2>1. Grid!Percent(Grid!SingleScanout, 98) = 16496
    BY SMT DEF Grid!Percent, Grid!SingleScanout
  <2>2. behind \in Nat /\ behind <= 16496
    BY <1>1 DEF GridTyped, Soon, Recent, Delayed
  <2>3. behind <= 16496
    BY SMT, <2>2
  <2> QED
    BY SMT, <2>1, <2>3 DEF Grid!NoExtraPeriod
<1>6. Grid!RepeatsStandAside
  <2>1. SUFFICES ASSUME pc = "steady"
                 PROVE  behind <= (CHOOSE j \in Jitters : \A k \in Jitters : k <= j)
                                  + (CHOOSE d \in Punctual : \A e \in Punctual : e <= d)
    <3>1. pc = "steady" => Grid!Submitted = Punctual
      BY GridNumbers DEF Grid!Submitted
    <3> QED
      BY <3>1, Zenon DEF Grid!RepeatsStandAside
  <2>2. behind <= MostLate + MostTardy
    BY <1>1, <2>1 DEF KeepsRate
  <2> QED
    BY <2>2, Zenon DEF MostLate, MostTardy
<1> QED
  BY <1>2, <1>3, <1>4, <1>5, <1>6, Zenon DEF Grid!GridOK

-----------------------------------------------------------------------------
(* The pace                                                                *)

PaceInv == CadenceInv /\ TimelineInv

\* The cadence is the PC's, never faster than it, and slows only when the time
\* for which the PC was slower confirms it, for every window, confirmation and
\* order of the pictures (frame_pacing.hpp, observe_picture).  On a network whose
\* jitter the reserve covers, any two pictures in a row neither of which was ready
\* more than 2 ms before its place are as far apart as the PC took them, to a tenth
\* of a millisecond, and a delay that stays is the anchor's after five seconds: for
\* every reserve, jitter and order of arrivals, and for every set of delays two of
\* which are at most 20 ms apart or more than 104 (ps5_vrr_timeline.hpp, observe).
THEOREM PaceKept == OutputsSpec => []PaceOK
<1>1. OutputsInit => PaceInv
  <2>1. ASSUME OutputsInit PROVE Cadence!Init /\ Timeline!Init
    BY SMT, <2>1 DEF OutputsInit
  <2> QED
    BY <2>1, CadenceStart, TimelineStart, Zenon DEF PaceInv
<1>2. PaceInv /\ [OutputsNext]_all => PaceInv'
  <2> SUFFICES ASSUME PaceInv, [OutputsNext]_all PROVE PaceInv'
    OBVIOUS
  <2>1. Cadence!Next \/ UNCHANGED cadence
    BY Zenon DEF OutputsNext, all
  <2>2. Timeline!Next \/ UNCHANGED timeline
    BY Zenon DEF OutputsNext, all
  <2> QED
    BY <2>1, <2>2, CadenceStep, TimelineStep, Zenon DEF PaceInv
<1>3. PaceInv => PaceOK
  BY CadenceFits, TimelineFits, Zenon DEF PaceInv, PaceOK
<1> QED
  BY <1>1, <1>2, <1>3, PTL DEF OutputsSpec

-----------------------------------------------------------------------------
(* GridKept: whatever another PC sends and however late the thread is, the *)
(* display is never left below its lowest rate, and never gets a scanout   *)
(* at once after another; and repeats do not hold back the pictures of a   *)
(* PC that keeps any rate which leaves room for them: for every set of     *)
(* rates, arrivals and delays (frame_pacing.hpp, idle_deadline,            *)
(* picture_target and advance).                                            *)
THEOREM GridKept == OutputsSpec => []GridOK
<1>1. OutputsInit => GridInv
  <2>1. ASSUME OutputsInit PROVE Grid!Init
    BY SMT, <2>1 DEF OutputsInit
  <2> QED
    BY <2>1, GridStart, Zenon
<1>2. GridInv /\ [OutputsNext]_all => GridInv'
  <2> SUFFICES ASSUME GridInv, [OutputsNext]_all PROVE GridInv'
    OBVIOUS
  <2>1. Grid!Next \/ UNCHANGED repeats
    BY Zenon DEF OutputsNext, all
  <2> QED
    BY <2>1, GridStep, Zenon
<1>3. GridInv => GridOK
  BY GridFits, Zenon DEF GridOK
<1> QED
  BY <1>1, <1>2, <1>3, PTL DEF OutputsSpec
=============================================================================
