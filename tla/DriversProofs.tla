----------------------------- MODULE DriversProofs -----------------------------
(***************************************************************************)
(* Proofs about Drivers.tla, for any requests, drives, tracks and bounds   *)
(* and any processes in floppy_change().                                   *)
(***************************************************************************)
EXTENDS Drivers, SequenceTheorems, FiniteSetTheorems, TLAPS

(* The parts of the inductive invariant *)

\* How far a request is: its sectors are transferred one after the other.
GoodRequest ==
  {r \in Request :
     \/ r.sector = 0 /\ r.nr_sectors = 2 /\ r.moved = {}
     \/ r.sector = 1 /\ r.nr_sectors = 1 /\ r.moved = {0}}

\* The variables of the other drivers keep their first values.
OthersAreQuiet ==
  /\ major # 2 => next_timer = <<>> /\ fdc = {} /\ ~ticking /\ ~selected
  /\ major # 3 => device.op = "none"
  /\ major = 1 => running \in {"idle", "request", "repeat"}
  /\ major = 3 => running \in {"idle", "request", "repeat", "panic"}

RdInv == major = 1 /\ running = "idle" => queue = <<>>

\* The hard disk works for CURRENT, on the sector that CURRENT means.
HdWorks ==
  /\ device.op # "none" <=> running = "idle" /\ queue # <<>>
  /\ device.op \in {"read", "write"} => /\ device.drive = CURRENT.drive
                                        /\ device.sector = CURRENT.sector
                                        /\ device.left = CURRENT.nr_sectors
  /\ device.op = "write" => device.data = CURRENT.sector

HdInv == major = 3 => HdWorks

\* The floppy driver runs, or waits for one timer, or for one command.
OneThing ==
  /\ Len(next_timer) <= 1
  /\ fdc = {} \/ \E c \in FdcCommand : fdc = {c}
  /\ next_timer # <<>> => fdc = {}
  /\ running # "idle" => next_timer = <<>> /\ fdc = {}
  /\ running = "idle" /\ queue # <<>> => next_timer # <<>> \/ fdc # {}

\* What the floppy driver has begun it has begun for CURRENT.
HandlesRequest == fdc # {} /\ do_floppy \in {"seek_interrupt", "rw_interrupt"}
Begun == next_timer # <<>> \/ running \in {"floppy_on_interrupt", "transfer"} \/ HandlesRequest
Transferring ==
  \/ next_timer # <<>> /\ Head(next_timer).fn = "transfer"
  \/ running = "transfer"
  \/ HandlesRequest

ForCurrent ==
  /\ Begun => queue # <<>> /\ CURRENT.drive = current_drive /\ CURRENT.block # TooFar
  /\ Transferring => selected
  /\ selected => queue # <<>> /\ CURRENT.drive = current_DOR.drive /\ CURRENT.block # TooFar
  /\ \A c \in fdc : c.op = "rw" => queue # <<>> /\ c.id = CURRENT.id /\ c.drive = CURRENT.drive

\* The ticks for which the motor of the request stays on, at least.
StaysOn == mon_timer[current_drive] + moff_timer[current_drive]

MotorFor(ticks) ==
  /\ current_drive \in current_DOR.motors
  /\ mon_timer[current_drive] <= IF ticks > 2 THEN ticks ELSE 2

\* A tick that has begun has already counted the timer down, not the motors.
TimerOf(t) ==
  LET ticks == t.jiffies + IF ticking THEN 1 ELSE 0
  IN  /\ t.jiffies >= 1
      /\ MotorFor(t.jiffies)
      /\ t.fn = "floppy_on_interrupt" => mon_timer[current_drive] >= ticks - 1 /\ StaysOn >= ticks + 1
      /\ t.fn = "transfer" => t.jiffies <= 2 /\ StaysOn >= ticks - 1

Motors ==
  /\ next_timer # <<>> => TimerOf(Head(next_timer))
  /\ running \in {"floppy_on_interrupt", "transfer"} => MotorFor(0)
  /\ running = "floppy_on_interrupt" => StaysOn >= 2

FdWorks == OneThing /\ ForCurrent /\ Motors

FdInv == major = 2 => FdWorks

IInv ==
  /\ TypeOK
  /\ queue \in Seq(GoodRequest)
  /\ NeverLies
  /\ OthersAreQuiet /\ RdInv /\ HdInv /\ FdInv

-----------------------------------------------------------------------------
(* The queue of requests *)

\* CURRENT is one of the requests in the queue.
LEMMA CurrentIsGood ==
  ASSUME queue \in Seq(GoodRequest), queue # <<>>
  PROVE  CURRENT \in GoodRequest /\ Tail(queue) \in Seq(GoodRequest)
BY HeadTailProperties DEF CURRENT

\* A request that comes first in the queue is CURRENT.
LEMMA FirstIsCurrent ==
  ASSUME NEW S, NEW r \in S, NEW s \in Seq(S)
  PROVE  <<r>> \o s \in Seq(S) /\ <<r>> \o s # <<>> /\ Head(<<r>> \o s) = r
<1>1. <<r>> \in Seq(S) /\ Len(<<r>>) = 1 /\ <<r>>[1] = r
  OBVIOUS
<1>2. /\ <<r>> \o s \in Seq(S)
      /\ Len(<<r>> \o s) = 1 + Len(s)
      /\ (<<r>> \o s)[1] = r
  <2>1. Len(s) \in Nat /\ 1 \in 1..(1 + Len(s))
    BY LenProperties
  <2> QED BY <1>1, <2>1, ConcatProperties
<1>3. <<r>> \o s # <<>>
  BY <1>2, LenProperties, EmptySeq
<1> QED BY <1>2, <1>3

\* The head of a sequence is its first element.
LEMMA HeadIsFirst ==
  ASSUME NEW S, NEW s \in Seq(S), s # <<>>
  PROVE  Head(s) = s[1]
OBVIOUS

Inserted(s, r, i) == SubSeq(s, 1, i) \o <<r>> \o SubSeq(s, i + 1, Len(s))

\* add_request() puts a new request anywhere but before CURRENT.
LEMMA InsertedBehind ==
  ASSUME NEW S, NEW s \in Seq(S), NEW r \in S, NEW i \in 1..Len(s)
  PROVE  /\ Inserted(s, r, i) \in Seq(S)
         /\ Inserted(s, r, i) # <<>>
         /\ Head(Inserted(s, r, i)) = Head(s)
<1>1. Len(s) \in Nat /\ \A j \in 1..Len(s) : s[j] \in S
  BY LenProperties, ElementOfSeq
<1> DEFINE t == Inserted(s, r, i)
           a == SubSeq(s, 1, i)
           b == a \o <<r>>
           c == SubSeq(s, i + 1, Len(s))
<1>2. a \in Seq(S) /\ Len(a) = i /\ a[1] = s[1]
  <2>1. \A j \in 1..i : s[j] \in S
    BY <1>1
  <2>2. /\ a \in Seq(S)
        /\ Len(a) = IF 1 <= i THEN i - 1 + 1 ELSE 0
        /\ \A j \in 1 .. i - 1 + 1 : a[j] = s[1 + j - 1]
    BY <2>1, SubSeqProperties, <1>1
  <2>3. 1 \in 1 .. i - 1 + 1 /\ i \in Nat
    BY <1>1
  <2>4. a[1] = s[1 + 1 - 1]
    BY <2>2, <2>3
  <2> QED BY <2>2, <2>3, <2>4
<1>3. c \in Seq(S)
  <2>1. \A j \in (i + 1) .. Len(s) : s[j] \in S
    BY <1>1
  <2> QED BY <2>1, SubSeqProperties, <1>1
<1>4. <<r>> \in Seq(S) /\ Len(<<r>>) = 1
  OBVIOUS
<1> HIDE DEF a, c
<1>5. b \in Seq(S) /\ Len(b) = i + 1 /\ b[1] = s[1]
  <2>1. 1 \in 1..(i + 1) /\ i \in Nat
    BY <1>1
  <2>2. /\ a \o <<r>> \in Seq(S)
        /\ Len(a \o <<r>>) = Len(a) + Len(<<r>>)
        /\ \A j \in 1 .. Len(a) + Len(<<r>>) :
             (a \o <<r>>)[j] = IF j <= Len(a) THEN a[j] ELSE <<r>>[j - Len(a)]
    BY <1>2, <1>4, ConcatProperties
  <2>3. (a \o <<r>>)[1] = a[1]
    BY <2>1, <2>2, <1>2, <1>4
  <2> QED BY <1>2, <1>4, <2>2, <2>3
<1> HIDE DEF b
<1>6. t = b \o c
  BY DEF Inserted, a, b, c
<1> HIDE DEF t
<1>7. t \in Seq(S) /\ Len(t) = Len(b) + Len(c) /\ t[1] = b[1]
  <2>1. Len(c) \in Nat /\ i \in Nat
    BY <1>1, <1>3, LenProperties
  <2>2. 1 \in 1 .. Len(b) + Len(c) /\ 1 <= Len(b)
    BY <1>5, <2>1
  <2>3. /\ b \o c \in Seq(S)
        /\ Len(b \o c) = Len(b) + Len(c)
        /\ \A j \in 1 .. Len(b) + Len(c) :
             (b \o c)[j] = IF j <= Len(b) THEN b[j] ELSE c[j - Len(b)]
    BY <1>3, <1>5, ConcatProperties
  <2> QED BY <1>6, <2>2, <2>3
<1>8. Len(t) # 0
  <2>1. Len(c) \in Nat /\ i \in Nat
    BY <1>1, <1>3, LenProperties
  <2>2. Len(b) = i + 1 /\ Len(t) = Len(b) + Len(c)
    BY <1>5, <1>7
  <2> HIDE DEF c
  <2> QED BY ONLY <2>1, <2>2
<1>9. t # <<>>
  BY <1>8, EmptySeq
<1>10. s # <<>>
  BY EmptySeq, <1>1
<1>11. Head(t) = t[1]
  BY <1>7, <1>9, HeadIsFirst
<1>12. Head(s) = s[1]
  BY <1>10, HeadIsFirst
<1> QED BY <1>5, <1>7, <1>9, <1>11, <1>12 DEF t

Requests == DriverTypeOK /\ queue \in Seq(GoodRequest) /\ NeverLies

\* A new request is behind CURRENT, or is CURRENT of an idle driver.
LEMMA AddRequestKeeps ==
  ASSUME Requests, NEW r \in NewRequest, AddRequest(r)
  PROVE  /\ Requests'
         /\ running = "idle"
         /\ queue' # <<>>
         /\ IF queue = <<>> THEN running' = "request"
            ELSE running' = "idle" /\ CURRENT' = CURRENT
         /\ UNCHANGED <<reset, recalibrate>>
<1>1. r \in GoodRequest /\ r.id \in Id
  BY DEF NewRequest, GoodRequest, Request
<1>2. result' \in [Id -> {"none", "queued", "ok", "error", "wrong"}] /\ NeverLies'
  BY <1>1 DEF AddRequest, Requests, DriverTypeOK, NeverLies
<1>3. CASE queue = <<>>
  <2>1. queue' = <<r>> /\ running' = "request"
    BY <1>3, LenProperties, EmptySeq DEF AddRequest
  <2>2. queue' \in Seq(GoodRequest) /\ queue' # <<>>
    BY <1>1, <2>1
  <2>3. queue' \in Seq(Request)
    BY <1>1, <2>1 DEF GoodRequest
  <2> QED BY <1>2, <1>3, <2>1, <2>2, <2>3 DEF AddRequest, Requests, DriverTypeOK
<1>4. CASE queue # <<>>
  <2>1. PICK i \in 1..Len(queue) :
               queue' = SubSeq(queue, 1, i) \o <<r>> \o SubSeq(queue, i + 1, Len(queue))
    BY <1>4 DEF AddRequest
  <2>2. queue' \in Seq(GoodRequest) /\ queue' # <<>> /\ Head(queue') = Head(queue)
    <3>1. queue \in Seq(GoodRequest)
      BY DEF Requests
    <3>2. r \in GoodRequest /\ i \in 1..Len(queue)
      BY <1>1, <2>1
    <3>3. queue' = Inserted(queue, r, i)
      BY <2>1 DEF Inserted
    <3> QED BY <3>1, <3>2, <3>3, InsertedBehind
  <2>3. queue' \in Seq(Request)
    <3>1. GoodRequest \subseteq Request
      BY DEF GoodRequest
    <3> QED BY <2>2, <3>1, SeqMonotonic
  <2>4. running = "idle" /\ running' = "idle" /\ UNCHANGED <<reset, recalibrate>>
    BY <1>4 DEF AddRequest
  <2> QED BY <1>2, <1>4, <2>2, <2>3, <2>4 DEF CURRENT, Requests, DriverTypeOK
<1> QED BY <1>3, <1>4

\* A request that is ended well has been transferred.
LEMMA EndRequestKeeps ==
  ASSUME Requests, queue # <<>>, NEW uptodate \in BOOLEAN, NEW moved,
         end_request(uptodate, moved),
         uptodate => moved = Sector
  PROVE  /\ queue' \in Seq(Request) /\ queue' \in Seq(GoodRequest)
         /\ result' \in [Id -> {"none", "queued", "ok", "error", "wrong"}]
         /\ NeverLies'
<1>1. CURRENT \in GoodRequest /\ Tail(queue) \in Seq(GoodRequest)
  BY CurrentIsGood DEF Requests
<1>2. CURRENT.id \in Id
  BY <1>1 DEF GoodRequest, Request
<1>3. queue' \in Seq(GoodRequest) /\ queue' \in Seq(Request)
  <2>1. GoodRequest \subseteq Request
    BY DEF GoodRequest
  <2> QED BY <1>1, <2>1, SeqMonotonic DEF end_request
<1>4. PICK end \in {"ok", "error"} : result' = [result EXCEPT ![CURRENT.id] = end]
  BY DEF end_request
<1>5. result' \in [Id -> {"none", "queued", "ok", "error", "wrong"}] /\ NeverLies'
  BY <1>2, <1>4 DEF Requests, DriverTypeOK, NeverLies
<1> QED BY <1>3, <1>5

\* CURRENT is changed and stays good.
LEMMA CurrentChanges ==
  ASSUME Requests, queue # <<>>, NEW r \in GoodRequest, queue' = WithCurrent(r)
  PROVE  /\ queue' \in Seq(Request) /\ queue' \in Seq(GoodRequest)
         /\ queue' # <<>> /\ CURRENT' = r
<1>1. Tail(queue) \in Seq(GoodRequest)
  BY CurrentIsGood DEF Requests
<1>2. queue' \in Seq(GoodRequest) /\ queue' # <<>> /\ Head(queue') = r
  BY <1>1, FirstIsCurrent DEF WithCurrent
<1>3. GoodRequest \subseteq Request
  BY DEF GoodRequest
<1> QED BY <1>2, <1>3, SeqMonotonic DEF CURRENT

-----------------------------------------------------------------------------
(* The list of timers, which never has two *)

\* add_timer() to an empty list makes a list of one.
LEMMA AddTimerAlone ==
  ASSUME next_timer = <<>>, NEW ticks \in Nat, NEW f, AddTimer(ticks, f)
  PROVE  next_timer' = <<[jiffies |-> ticks, fn |-> f]>>
<1> DEFINE sum[i \in 0..Len(next_timer)] ==
             IF i = 0 THEN 0 ELSE sum[i - 1] + next_timer[i].jiffies
           before == {i \in 1..Len(next_timer) :
                        \A j \in 1..i : next_timer[j].jiffies < ticks - sum[j - 1]}
           k == Cardinality(before)
           rest == <<[jiffies |-> ticks - sum[k], fn |-> f]>>
<1>1. next_timer' = SubSeq(next_timer, 1, k) \o rest
                    \o SubSeq(next_timer, k + 1, Len(next_timer))
  BY DEF AddTimer
<1>2. Len(next_timer) = 0
  BY EmptySeq
<1>3. before = {}
  BY <1>2
<1>4. k = 0
  BY <1>3, FS_EmptySet
<1>5. sum[0] = 0
  <2> DEFINE P(g) == g = [i \in 0..Len(next_timer) |->
                            IF i = 0 THEN 0 ELSE g[i - 1] + next_timer[i].jiffies]
  <2>1. sum = CHOOSE g : P(g)
    OBVIOUS
  <2>2. P([i \in 0..0 |-> 0])
    BY <1>2
  <2> HIDE DEF sum
  <2>3. P(sum)
    BY <2>1, <2>2
  <2> QED BY <1>2, <2>3
<1> HIDE DEF sum, before, k
<1>6. rest = <<[jiffies |-> ticks, fn |-> f]>>
  BY <1>4, <1>5
<1>7. SubSeq(next_timer, 1, 0) = <<>> /\ SubSeq(next_timer, 0 + 1, 0) = <<>>
  BY SubSeqEmpty
<1> HIDE DEF rest
<1>8. <<>> \o rest = rest /\ rest \o <<>> = rest
  <2>1. rest \in Seq({rest[1]})
    BY <1>6
  <2> QED BY <2>1, ConcatEmptySeq
<1> QED BY <1>1, <1>2, <1>4, <1>6, <1>7, <1>8

\* A list of at most one timer is empty once that one is taken off.
LEMMA TimerAlone ==
  ASSUME next_timer \in Seq(Timer), Len(next_timer) <= 1, next_timer # <<>>
  PROVE  /\ Head(next_timer) \in Timer
         /\ Tail(next_timer) = <<>>
         /\ Len(next_timer) = 1
<1>1. Len(next_timer) = 1
  <2>1. Len(next_timer) \in Nat
    BY LenProperties
  <2>2. Len(next_timer) \in Nat \ {0}
    BY EmptySeq
  <2> QED BY <2>1, <2>2
<1>2. Tail(next_timer) \in Seq(Timer) /\ Len(Tail(next_timer)) = 0
  BY <1>1, HeadTailProperties
<1> QED BY <1>1, <1>2, HeadTailProperties, EmptySeq

-----------------------------------------------------------------------------
(* The hard disk *)

\* Counting an error changes nothing else of a request.
LEMMA ErrorsCounted ==
  ASSUME NEW r \in GoodRequest, NEW e \in Nat
  PROVE  [r EXCEPT !.errors = e] \in GoodRequest
BY DEF GoodRequest, Request

\* The first of two sectors is done.
OneDone(r, e) ==
  [r EXCEPT !.sector = @ + 1, !.nr_sectors = @ - 1, !.moved = {0}, !.errors = e]

\* After the first of its two sectors a request is at its second.
LEMMA SectorCounted ==
  ASSUME NEW r \in GoodRequest, r.nr_sectors > 1, NEW e \in Nat
  PROVE  LET n == OneDone(r, e)
         IN  /\ n \in GoodRequest
             /\ r.sector = 0 /\ r.nr_sectors = 2 /\ r.moved = {}
             /\ n.sector = 1 /\ n.nr_sectors = 1 /\ n.drive = r.drive
<1> DEFINE n == OneDone(r, e)
<1>1. /\ r \in Request
      /\ r.sector = 0 /\ r.nr_sectors = 2 /\ r.moved = {}
  BY DEF GoodRequest, Request
<1>2. r.sector + 1 = 1 /\ r.nr_sectors - 1 = 1
  BY <1>1
<1>3. PICK a : a = [r EXCEPT !.sector = 1]
  OBVIOUS
<1>4. PICK b : b = [a EXCEPT !.nr_sectors = 1]
  OBVIOUS
<1>5. PICK c : c = [b EXCEPT !.moved = {0}]
  OBVIOUS
<1>6. n = [r EXCEPT !.sector = 1, !.nr_sectors = 1, !.moved = {0}, !.errors = e]
  BY <1>2, Zenon DEF OneDone
<1> HIDE DEF n
<1>7. n = [c EXCEPT !.errors = e]
  BY <1>3, <1>4, <1>5, <1>6
<1>8. a \in Request /\ a.drive = r.drive /\ a.sector = 1
  BY <1>1, <1>3 DEF Request
<1>9. b \in Request /\ b.drive = r.drive /\ b.sector = 1 /\ b.nr_sectors = 1
  BY <1>4, <1>8 DEF Request
<1>10. c \in Request /\ c.drive = r.drive /\ c.sector = 1 /\ c.nr_sectors = 1 /\ c.moved = {0}
  BY <1>5, <1>9 DEF Request, Sector
<1>11. n \in Request /\ n.drive = r.drive /\ n.sector = 1 /\ n.nr_sectors = 1 /\ n.moved = {0}
  BY <1>7, <1>10 DEF Request
<1>12. n \in GoodRequest
  BY <1>11 DEF GoodRequest
<1> QED BY <1>1, <1>11, <1>12 DEF n

\* The controller goes on to the second sector.
GoneOn(c, data) == [c EXCEPT !.sector = @ + 1, !.left = @ - 1, !.data = data]

\* After the first of its two sectors a command is at its second.
LEMMA CommandGoesOn ==
  ASSUME NEW c \in Command, c.sector = 0, c.left = 2, NEW data \in 0..1
  PROVE  LET n == GoneOn(c, data)
         IN  /\ n \in Command
             /\ n.op = c.op /\ n.drive = c.drive
             /\ n.sector = 1 /\ n.left = 1 /\ n.data = data
<1> DEFINE n == GoneOn(c, data)
<1>1. c.sector + 1 = 1 /\ c.left - 1 = 1
  OBVIOUS
<1>2. PICK a : a = [c EXCEPT !.sector = 1]
  OBVIOUS
<1>3. PICK b : b = [a EXCEPT !.left = 1]
  OBVIOUS
<1>4. n = [c EXCEPT !.sector = 1, !.left = 1, !.data = data]
  BY <1>1, Zenon DEF GoneOn
<1> HIDE DEF n
<1>5. n = [b EXCEPT !.data = data]
  BY <1>2, <1>3, <1>4
<1>6. a \in Command /\ a.op = c.op /\ a.drive = c.drive /\ a.sector = 1
  BY <1>2 DEF Command
<1>7. b \in Command /\ b.op = c.op /\ b.drive = c.drive /\ b.sector = 1 /\ b.left = 1
  BY <1>3, <1>6 DEF Command
<1>8. n \in Command /\ n.op = c.op /\ n.drive = c.drive
      /\ n.sector = 1 /\ n.left = 1 /\ n.data = data
  BY <1>5, <1>7 DEF Command
<1> QED BY <1>8 DEF n

HdState ==
  Requests /\ HdTypeOK /\ HdWorks /\ running \in {"idle", "request", "repeat", "panic"}

\* bad_rw_intr() ends the request or counts the error.
LEMMA BadRwKeeps ==
  ASSUME Requests, queue # <<>>, bad_rw_intr
  PROVE  /\ queue' \in Seq(Request) /\ queue' \in Seq(GoodRequest)
         /\ result' \in [Id -> {"none", "queued", "ok", "error", "wrong"}]
         /\ NeverLies'
         /\ reset' \in BOOLEAN
<1>1. reset \in BOOLEAN
  BY DEF Requests, DriverTypeOK
<1>2. CASE end_request(FALSE, {})
  <2>1. reset' \in BOOLEAN
    BY <1>1 DEF bad_rw_intr
  <2> QED BY <1>2, <2>1, EndRequestKeeps
<1>3. CASE ~end_request(FALSE, {})
  <2> DEFINE e == CURRENT.errors + 1
             r == [CURRENT EXCEPT !.errors = e]
  <2>1. queue' = WithCurrent(r) /\ result' = result /\ reset' \in BOOLEAN
    BY <1>1, <1>3 DEF bad_rw_intr
  <2>2. CURRENT \in GoodRequest /\ e \in Nat
    BY CurrentIsGood DEF Requests, GoodRequest, Request
  <2>3. r \in GoodRequest
    BY <2>2, ErrorsCounted
  <2> HIDE DEF r
  <2> QED BY <2>1, <2>3, CurrentChanges DEF Requests, DriverTypeOK, NeverLies
<1> QED BY <1>2, <1>3

\* do_hd_request() gives at most one command, for CURRENT.
LEMMA HdRequestKeeps ==
  ASSUME HdState, do_hd_request
  PROVE  HdState'
<1> USE DEF HdState
<1>1. CASE HdNoRequest
  BY <1>1 DEF HdNoRequest, Requests, DriverTypeOK, NeverLies, HdTypeOK, hdVars, HdWorks
<1> SUFFICES ASSUME AtHdRequest PROVE HdState'
  BY <1>1 DEF do_hd_request, HdTooFar, HdReset, HdRecalibrate, HdRead, HdWrite,
              HdWriteRefused, HdPanics, Ready
<1>2. /\ CURRENT \in GoodRequest
      /\ CURRENT.drive \in Drive /\ CURRENT.sector \in 0..1 /\ CURRENT.nr_sectors \in 0..2
      /\ CURRENT.sector % 2 = CURRENT.sector
      /\ device.op = "none"
  <2>1. CURRENT \in GoodRequest
    BY CurrentIsGood DEF AtHdRequest, Requests
  <2>2. CURRENT.drive \in Drive /\ CURRENT.sector \in 0..1 /\ CURRENT.nr_sectors \in 0..2
    BY <2>1 DEF GoodRequest, Request
  <2>3. device.op = "none"
    BY DEF AtHdRequest, HdWorks
  <2> QED BY <2>1, <2>2, <2>3
<1>3. CASE HdTooFar
  <2>1. /\ queue' \in Seq(Request) /\ queue' \in Seq(GoodRequest)
        /\ result' \in [Id -> {"none", "queued", "ok", "error", "wrong"}]
        /\ NeverLies'
    BY <1>3, EndRequestKeeps DEF HdTooFar, AtHdRequest
  <2> QED BY <1>2, <1>3, <2>1 DEF HdTooFar, Requests, DriverTypeOK, hdVars, HdTypeOK, HdWorks
<1>4. ASSUME NEW op \in {"specify", "restore", "read"}, NEW h \in {"recal_intr", "read_intr"},
             hd_out(op, h), running' = "idle", UNCHANGED <<queue, result>>,
             reset' \in BOOLEAN, recalibrate' \in BOOLEAN
      PROVE  HdState'
  <2>1. device' = [op |-> op, drive |-> CURRENT.drive, sector |-> CURRENT.sector,
                   left |-> CURRENT.nr_sectors, data |-> 0]
    BY <1>2, <1>4 DEF hd_out, NoCommand
  <2>2. CURRENT' = CURRENT /\ queue' = queue /\ queue # <<>>
    BY <1>4 DEF CURRENT, AtHdRequest
  <2>4. device' \in Command
    BY <1>2, <2>1 DEF Command
  <2>5. do_hd' = h
    BY <1>4 DEF hd_out
  <2>3. HdTypeOK' /\ HdWorks'
    BY <1>4, <2>1, <2>2, <2>4, <2>5 DEF HdTypeOK, HdWorks
  <2> QED BY <1>4, <2>3 DEF Requests, DriverTypeOK, NeverLies
<1>5. reset \in BOOLEAN /\ recalibrate \in BOOLEAN
  BY DEF Requests, DriverTypeOK
<1>6. CASE HdReset
  BY <1>4, <1>5, <1>6 DEF HdReset
<1>7. CASE HdRecalibrate
  BY <1>4, <1>5, <1>7 DEF HdRecalibrate
<1>8. CASE HdRead
  BY <1>4, <1>5, <1>8 DEF HdRead
<1>9. CASE HdWrite
  <2>1. HdTypeOK' /\ HdWorks'
    BY <1>2, <1>9 DEF HdWrite, Ready, AtHdRequest, HdTypeOK, Command, HdWorks, CURRENT
  <2> QED BY <1>9, <2>1 DEF HdWrite, Requests, DriverTypeOK, NeverLies
<1>10. CASE HdWriteRefused
  <2>1. /\ queue' \in Seq(Request) /\ queue' \in Seq(GoodRequest)
        /\ result' \in [Id -> {"none", "queued", "ok", "error", "wrong"}]
        /\ NeverLies' /\ reset' \in BOOLEAN
    BY <1>10, BadRwKeeps DEF HdWriteRefused, AtHdRequest
  <2>2. HdTypeOK' /\ HdWorks'
    BY <1>10, <1>2, DriverAssumption
       DEF HdWriteRefused, HdTypeOK, HdWorks, NoCommand, Command
  <2> QED BY <1>5, <1>10, <2>1, <2>2 DEF HdWriteRefused, Requests, DriverTypeOK
<1>11. CASE HdPanics
  BY <1>2, <1>11 DEF HdPanics, Requests, DriverTypeOK, NeverLies, HdTypeOK, hdVars, HdWorks
<1> QED BY <1>1, <1>3, <1>6, <1>7, <1>8, <1>9, <1>10, <1>11 DEF do_hd_request

\* The handlers of hd.c take the one command that is there.
LEMMA HdInterruptKeeps ==
  ASSUME HdState, HdInterrupt
  PROVE  HdState'
<1> USE DEF HdState
<1>0. running = "idle" /\ device.op # "none" /\ queue # <<>>
  BY DEF HdInterrupt, HdFails, read_intr, write_intr, recal_intr, Interrupt, HdWorks
<1>1. /\ CURRENT \in GoodRequest /\ CURRENT \in Request
      /\ CURRENT.errors \in Nat /\ CURRENT.nr_sectors \in Nat
      /\ reset \in BOOLEAN /\ recalibrate \in BOOLEAN
  BY <1>0, CurrentIsGood DEF Requests, DriverTypeOK, GoodRequest, Request
<1>2. ASSUME /\ do_hd' = "none"
             /\ device' = NoCommand
             /\ running' = "request"
      PROVE  HdTypeOK' /\ HdWorks'
  BY <1>2, DriverAssumption DEF HdTypeOK, HdWorks, NoCommand, Command
<1>3. CASE HdFails
  <2>1. /\ queue' \in Seq(Request) /\ queue' \in Seq(GoodRequest)
        /\ result' \in [Id -> {"none", "queued", "ok", "error", "wrong"}]
        /\ NeverLies' /\ reset' \in BOOLEAN
    BY <1>3, BadRwKeeps DEF HdFails
  <2> QED BY <1>1, <1>2, <1>3, <2>1 DEF HdFails, Requests, DriverTypeOK
<1>4. CASE recal_intr
  BY <1>1, <1>2, <1>4 DEF recal_intr, Requests, DriverTypeOK, NeverLies
\* The sector that is moved is the right one.
<1>5. ASSUME NEW moved, moved = Moved(TRUE), CURRENT.nr_sectors = 1,
             end_request(TRUE, moved),
             do_hd' = "none", device' = NoCommand, running' = "request",
             UNCHANGED <<reset, recalibrate>>
      PROVE  HdState'
  <2>1. moved = Sector
    BY <1>1, <1>5 DEF Moved, Sector, GoodRequest
  <2>2. /\ queue' \in Seq(Request) /\ queue' \in Seq(GoodRequest)
        /\ result' \in [Id -> {"none", "queued", "ok", "error", "wrong"}]
        /\ NeverLies'
    BY <1>0, <1>5, <2>1, EndRequestKeeps
  <2> QED BY <1>1, <1>2, <1>5, <2>2 DEF Requests, DriverTypeOK
<1>6. ASSUME NEW moved, moved = Moved(TRUE), CURRENT.nr_sectors > 1,
             NEW e \in Nat, NextSector(moved, e)
      PROVE  /\ CURRENT.sector = 0 /\ CURRENT.nr_sectors = 2
             /\ queue' \in Seq(Request) /\ queue' \in Seq(GoodRequest) /\ queue' # <<>>
             /\ CURRENT'.sector = 1 /\ CURRENT'.nr_sectors = 1
             /\ CURRENT'.drive = CURRENT.drive
  <2>1. CURRENT.sector = 0 /\ moved = {0}
    BY <1>1, <1>6 DEF Moved, GoodRequest
  <2> DEFINE n == OneDone(CURRENT, e)
  <2>2. queue' = WithCurrent(n)
    BY <1>6, <2>1 DEF NextSector, OneDone
  <2>3. /\ n \in GoodRequest /\ CURRENT.nr_sectors = 2
        /\ n.sector = 1 /\ n.nr_sectors = 1 /\ n.drive = CURRENT.drive
    BY <1>1, <1>6, SectorCounted
  <2> HIDE DEF n
  <2> QED BY <1>0, <2>1, <2>2, <2>3, CurrentChanges
<1>7. CASE read_intr
  <2>1. device.drive = CURRENT.drive /\ device.sector = CURRENT.sector
        /\ device.left = CURRENT.nr_sectors /\ device.op = "read"
    BY <1>7 DEF read_intr, HdWorks
  <2> DEFINE moved == Moved(TRUE)
  <2>2. Moved(device.drive = CURRENT.drive /\ device.sector = CURRENT.sector) = moved
    BY <2>1 DEF Moved
  <2>3. \/ /\ CURRENT.nr_sectors > 1
           /\ NextSector(moved, 0)
           /\ do_hd' = "read_intr"
           /\ device' = [device EXCEPT !.sector = @ + 1, !.left = @ - 1]
           /\ UNCHANGED <<result, running>>
        \/ /\ CURRENT.nr_sectors = 1
           /\ end_request(TRUE, moved)
           /\ do_hd' = "none"
           /\ device' = NoCommand
           /\ running' = "request"
    BY <1>7, <2>2 DEF read_intr
  <2>4. UNCHANGED <<reset, recalibrate>>
    BY <1>7 DEF read_intr
  <2> HIDE DEF moved
  <2>5. CASE CURRENT.nr_sectors = 1 /\ end_request(TRUE, moved)
    <3>1. ~(CURRENT.nr_sectors > 1)
      BY <1>1, <2>5
    <3>2. do_hd' = "none" /\ device' = NoCommand /\ running' = "request"
      BY <2>3, <3>1, Zenon
    <3> QED BY <1>5, <2>4, <2>5, <3>2 DEF moved
  <2>6. CASE CURRENT.nr_sectors > 1
    <3>1. /\ NextSector(moved, 0) /\ do_hd' = "read_intr"
          /\ device' = [device EXCEPT !.sector = @ + 1, !.left = @ - 1]
          /\ UNCHANGED <<result, running>>
      <4>1. CURRENT.nr_sectors # 1
        BY <1>1, <2>6
      <4> QED BY <2>3, <4>1, Zenon
    <3>2. /\ CURRENT.sector = 0 /\ CURRENT.nr_sectors = 2
          /\ queue' \in Seq(Request) /\ queue' \in Seq(GoodRequest) /\ queue' # <<>>
          /\ CURRENT'.sector = 1 /\ CURRENT'.nr_sectors = 1
          /\ CURRENT'.drive = CURRENT.drive
      BY <1>6, <2>6, <3>1 DEF moved
    <3>3. /\ device' \in Command /\ device'.sector = 1 /\ device'.left = 1
          /\ device'.drive = device.drive /\ device'.op = "read"
      <4>1. device \in Command /\ device.sector = 0 /\ device.left = 2 /\ device.data \in 0..1
        BY <2>1, <3>2 DEF HdTypeOK, Command
      <4>2. device' = GoneOn(device, device.data)
        BY <3>1, <4>1 DEF Command, GoneOn
      <4> QED BY <2>1, <4>1, <4>2, CommandGoesOn
    <3>4. HdTypeOK' /\ HdWorks'
      BY <1>0, <2>1, <3>1, <3>2, <3>3 DEF HdTypeOK, HdWorks, Command
    <3> QED BY <1>1, <2>4, <3>1, <3>2, <3>4 DEF Requests, DriverTypeOK, NeverLies
  <2> QED BY <2>3, <2>5, <2>6
<1>8. CASE write_intr
  <2>1. device.drive = CURRENT.drive /\ device.sector = CURRENT.sector
        /\ device.left = CURRENT.nr_sectors /\ device.op = "write"
        /\ device.data = CURRENT.sector
    BY <1>8 DEF write_intr, HdWorks
  <2> DEFINE moved == Moved(TRUE)
  <2>2. Moved(device.drive = CURRENT.drive /\ device.sector = device.data) = moved
    BY <2>1 DEF Moved
  <2>3. \/ /\ CURRENT.nr_sectors > 1
           /\ NextSector(moved, CURRENT.errors)
           /\ do_hd' = "write_intr"
           /\ device' = [device EXCEPT !.sector = @ + 1, !.left = @ - 1,
                                       !.data = (CURRENT.sector + 1) % 2]
           /\ UNCHANGED <<result, running>>
        \/ /\ CURRENT.nr_sectors = 1
           /\ end_request(TRUE, moved)
           /\ do_hd' = "none"
           /\ device' = NoCommand
           /\ running' = "request"
    BY <1>8, <2>2 DEF write_intr
  <2>4. UNCHANGED <<reset, recalibrate>>
    BY <1>8 DEF write_intr
  <2> HIDE DEF moved
  <2>5. CASE CURRENT.nr_sectors = 1 /\ end_request(TRUE, moved)
    <3>1. ~(CURRENT.nr_sectors > 1)
      BY <1>1, <2>5
    <3>2. do_hd' = "none" /\ device' = NoCommand /\ running' = "request"
      BY <2>3, <3>1, Zenon
    <3> QED BY <1>5, <2>4, <2>5, <3>2 DEF moved
  <2>6. CASE CURRENT.nr_sectors > 1
    <3>1. /\ NextSector(moved, CURRENT.errors) /\ do_hd' = "write_intr"
          /\ device' = [device EXCEPT !.sector = @ + 1, !.left = @ - 1,
                                      !.data = (CURRENT.sector + 1) % 2]
          /\ UNCHANGED <<result, running>>
      <4>1. CURRENT.nr_sectors # 1
        BY <1>1, <2>6
      <4> QED BY <2>3, <4>1, Zenon
    <3>2. /\ CURRENT.sector = 0 /\ CURRENT.nr_sectors = 2
          /\ queue' \in Seq(Request) /\ queue' \in Seq(GoodRequest) /\ queue' # <<>>
          /\ CURRENT'.sector = 1 /\ CURRENT'.nr_sectors = 1
          /\ CURRENT'.drive = CURRENT.drive
      BY <1>1, <1>6, <2>6, <3>1 DEF moved
    <3>3. (CURRENT.sector + 1) % 2 = 1
      BY <3>2
    <3>4. /\ device' \in Command /\ device'.sector = 1 /\ device'.left = 1
          /\ device'.drive = device.drive /\ device'.op = "write" /\ device'.data = 1
      <4>1. device \in Command /\ device.sector = 0 /\ device.left = 2
        BY <2>1, <3>2 DEF HdTypeOK
      <4>2. device' = GoneOn(device, 1)
        BY <3>1, <3>3 DEF GoneOn
      <4> QED BY <2>1, <4>1, <4>2, CommandGoesOn
    <3>5. HdTypeOK' /\ HdWorks'
      BY <1>0, <2>1, <3>1, <3>2, <3>4 DEF HdTypeOK, HdWorks, Command
    <3> QED BY <1>1, <2>4, <3>1, <3>2, <3>5 DEF Requests, DriverTypeOK, NeverLies
  <2> QED BY <2>3, <2>5, <2>6
<1> QED BY <1>3, <1>4, <1>7, <1>8 DEF HdInterrupt

\* Every step of the hard-disk driver keeps what it relies on.
LEMMA HdNextKeeps ==
  ASSUME HdState, HdNext
  PROVE  HdState'
<1>1. ASSUME NEW r \in NewRequest, AddRequest(r), UNCHANGED hdVars
      PROVE  HdState'
  <2>1. /\ Requests' /\ queue' # <<>> /\ running = "idle"
        /\ IF queue = <<>> THEN running' = "request"
           ELSE running' = "idle" /\ CURRENT' = CURRENT
    BY <1>1, AddRequestKeeps DEF HdState
  <2> QED BY <1>1, <2>1 DEF HdState, HdTypeOK, HdWorks, hdVars
<1> QED BY <1>1, HdRequestKeeps, HdInterruptKeeps DEF HdNext

-----------------------------------------------------------------------------
(* The ramdisk *)

RdState ==
  /\ Requests
  /\ running \in {"idle", "request", "repeat"}
  /\ running = "idle" => queue = <<>>

\* do_rd_request() leaves no request behind.
LEMMA RdNextKeeps ==
  ASSUME RdState, RdNext
  PROVE  RdState'
<1> USE DEF RdState
<1>1. ASSUME NEW r \in NewRequest, AddRequest(r) PROVE RdState'
  BY <1>1, AddRequestKeeps
<1>2. CASE do_rd_request
  <2>1. CASE queue = <<>>
    BY <1>2, <2>1 DEF do_rd_request, Requests, DriverTypeOK, NeverLies
  <2>2. CASE queue # <<>>
    <3>1. end_request(CURRENT.block # TooFar, Sector) /\ running' = "repeat"
          /\ UNCHANGED <<reset, recalibrate>>
      BY <1>2, <2>2 DEF do_rd_request
    <3>2. /\ queue' \in Seq(Request) /\ queue' \in Seq(GoodRequest)
          /\ result' \in [Id -> {"none", "queued", "ok", "error", "wrong"}]
          /\ NeverLies'
      BY <2>2, <3>1, EndRequestKeeps
    <3> QED BY <3>1, <3>2 DEF Requests, DriverTypeOK
  <2> QED BY <2>1, <2>2
<1> QED BY <1>1, <1>2 DEF RdNext

-----------------------------------------------------------------------------
(* The motors of the floppy drives *)

FdState == Requests /\ FdTypeOK /\ FdWorks

\* A tick takes one off the ticks a motor stays on, and turns it off when
\* there are none left.
LEMMA TickCounts ==
  ASSUME FdTypeOK, do_floppy_timer, NEW d \in Drive, d \in current_DOR.motors,
         mon_timer[d] + moff_timer[d] >= 1
  PROVE  /\ d \in current_DOR.motors'
         /\ mon_timer'[d] <= mon_timer[d] /\ mon_timer'[d] >= mon_timer[d] - 1
         /\ mon_timer[d] >= 1 => mon_timer'[d] = mon_timer[d] - 1
         /\ mon_timer'[d] + moff_timer'[d] = mon_timer[d] + moff_timer[d] - 1
<1>1. mon_timer[d] \in Nat /\ moff_timer[d] \in Nat
  BY FloppyAssumption DEF FdTypeOK
<1>2. /\ mon_timer'[d] = IF mon_timer[d] > 0 THEN mon_timer[d] - 1 ELSE mon_timer[d]
      /\ moff_timer'[d] = IF mon_timer[d] = 0 /\ moff_timer[d] > 0
                          THEN moff_timer[d] - 1 ELSE moff_timer[d]
  BY DEF do_floppy_timer
<1>3. d \notin TurnedOff
  BY <1>1 DEF TurnedOff
<1>4. current_DOR.motors' = current_DOR.motors \ TurnedOff
  BY DEF do_floppy_timer, FdTypeOK
<1> QED BY <1>1, <1>2, <1>3, <1>4

\* do_floppy_timer() leaves the selection alone, and the types.
LEMMA TickTyped ==
  ASSUME FdTypeOK, do_floppy_timer
  PROVE  /\ current_DOR' \in [drive : Drive, motors : SUBSET Drive]
         /\ current_DOR'.drive = current_DOR.drive
         /\ selected' = selected
         /\ mon_timer' \in [Drive -> 0..SpinUp]
         /\ moff_timer' \in [Drive -> 0..Forever]
         /\ pc' \in [Process -> {"user", "floppy_on", "sleep_motor", "wait_motor",
                                 "select", "sleep_select", "wait_select", "done"}]
<1>1. /\ current_DOR' \in [drive : Drive, motors : SUBSET Drive]
      /\ current_DOR'.drive = current_DOR.drive /\ selected' = selected
  <2>1. PICK m : m = current_DOR.motors \ TurnedOff
    OBVIOUS
  <2>2. current_DOR' = [current_DOR EXCEPT !.motors = m] /\ selected' = selected
    BY <2>1 DEF do_floppy_timer
  <2>3. m \in SUBSET Drive
    BY <2>1 DEF FdTypeOK
  <2> QED BY <2>2, <2>3 DEF FdTypeOK
<1>2. mon_timer' \in [Drive -> 0..SpinUp]
  BY FloppyAssumption DEF do_floppy_timer, FdTypeOK
<1>3. moff_timer' \in [Drive -> 0..Forever]
  BY FloppyAssumption DEF do_floppy_timer, FdTypeOK
<1>4. pc' \in [Process -> {"user", "floppy_on", "sleep_motor", "wait_motor",
                           "select", "sleep_select", "wait_select", "done"}]
  BY DEF do_floppy_timer, FdTypeOK
<1> QED BY <1>1, <1>2, <1>3, <1>4

\* Turning a motor on turns no other off, and shortens the time of none.
LEMMA TurnOn ==
  ASSUME FdTypeOK, NEW d \in Drive, TicksToFloppyOn(d)
  PROVE  /\ current_DOR' \in [drive : Drive, motors : SUBSET Drive]
         /\ mon_timer' \in [Drive -> 0..SpinUp]
         /\ moff_timer' \in [Drive -> 0..Forever]
         /\ d \in current_DOR'.motors /\ moff_timer'[d] = Forever
         /\ selected => current_DOR'.drive = current_DOR.drive
         /\ \A e \in Drive :
              e \in current_DOR.motors =>
                /\ e \in current_DOR'.motors
                /\ mon_timer'[e] >= mon_timer[e]
                /\ mon_timer'[e] <= mon_timer[e] \/ mon_timer'[e] <= 2
                /\ moff_timer'[e] >= moff_timer[e]
<1>1. /\ mon_timer \in [Drive -> 0..SpinUp] /\ moff_timer \in [Drive -> 0..Forever]
      /\ SpinUp \in Nat /\ SpinUp >= 2 /\ Forever \in Nat
  BY FloppyAssumption DEF FdTypeOK
<1>2. /\ current_DOR' = [drive |-> IF selected THEN current_DOR.drive ELSE d,
                         motors |-> current_DOR.motors \union {d}]
      /\ moff_timer' = [moff_timer EXCEPT ![d] = Forever]
  BY DEF TicksToFloppyOn
<1>3. PICK m : /\ mon_timer' = [mon_timer EXCEPT ![d] = m]
               /\ m = IF current_DOR' = current_DOR THEN mon_timer[d]
                      ELSE IF d \notin current_DOR.motors THEN SpinUp
                      ELSE IF mon_timer[d] < 2 THEN 2 ELSE mon_timer[d]
  BY DEF TicksToFloppyOn
<1>4. m \in 0..SpinUp /\ m >= mon_timer[d]
  BY <1>1, <1>3
<1>5. d \in current_DOR.motors => m <= mon_timer[d] \/ m <= 2
  BY <1>1, <1>3
<1>6. \A e \in Drive : /\ mon_timer[e] \in 0..SpinUp
                       /\ moff_timer[e] \in 0..Forever
                       /\ mon_timer'[e] = IF e = d THEN m ELSE mon_timer[e]
                       /\ moff_timer'[e] = IF e = d THEN Forever ELSE moff_timer[e]
  BY <1>1, <1>2, <1>3
<1>7. current_DOR' \in [drive : Drive, motors : SUBSET Drive]
  BY <1>2 DEF FdTypeOK
<1>8. mon_timer' \in [Drive -> 0..SpinUp] /\ moff_timer' \in [Drive -> 0..Forever]
  BY <1>1, <1>2, <1>3, <1>4
<1>9. d \in current_DOR'.motors /\ (selected => current_DOR'.drive = current_DOR.drive)
      /\ \A e \in current_DOR.motors : e \in current_DOR'.motors
  BY <1>2
<1> QED BY <1>1, <1>4, <1>5, <1>6, <1>7, <1>8, <1>9

-----------------------------------------------------------------------------
(* The floppy driver runs *)

\* The fields of CURRENT.
LEMMA CurrentTyped ==
  ASSUME Requests, queue # <<>>
  PROVE  /\ CURRENT \in GoodRequest
         /\ CURRENT.id \in Id /\ CURRENT.drive \in Drive /\ CURRENT.errors \in Nat
         /\ CURRENT.block # TooFar => CURRENT.block \in Track
BY CurrentIsGood DEF Requests, GoodRequest, Request

FdCommandOf(op, track, id) ==
  [op |-> op, drive |-> current_DOR.drive, track |-> track, id |-> id]

\* A controller that had nothing to do has one command to do.
LEMMA IssuesOne ==
  ASSUME FdTypeOK, fdc = {}, NEW op \in {"recalibrate", "seek", "rw"},
         NEW track \in Track, NEW id \in Id \union {0}, NEW h \in Handlers,
         Issue(op, track, id, h)
  PROVE  /\ FdCommandOf(op, track, id) \in FdcCommand
         /\ fdc' = {FdCommandOf(op, track, id)}
         /\ do_floppy' = h /\ running' = "idle"
         /\ UNCHANGED <<reset, position, quiet>>
<1>1. FdCommandOf(op, track, id) \in FdcCommand
  BY DEF FdCommandOf, FdcCommand, FdTypeOK
<1> QED BY <1>1 DEF Issue, FdCommandOf

\* A controller that takes no bytes has nothing to do.
LEMMA TimesOutTyped ==
  ASSUME FdTypeOK, NEW h \in Handlers, TimesOut(h)
  PROVE  /\ quiet' \in BOOLEAN
         /\ do_floppy' = h /\ running' = "request" /\ reset' = TRUE
         /\ UNCHANGED <<fdc, position>>
BY FloppyAssumption DEF TimesOut, FdTypeOK

\* floppy_on_interrupt() selects the drive of CURRENT, and waits or transfers.
LEMMA FloppyOnKeeps ==
  ASSUME FdState, floppy_on_interrupt
  PROVE  FdState'
<1>1. /\ running = "floppy_on_interrupt" /\ next_timer = <<>> /\ fdc = {}
      /\ queue # <<>> /\ CURRENT.drive = current_drive /\ CURRENT.block # TooFar
      /\ MotorFor(0) /\ StaysOn >= 2
  BY DEF FdState, FdWorks, OneThing, ForCurrent, Begun, Motors, floppy_on_interrupt
<1>2. /\ selected' = TRUE /\ CURRENT' = CURRENT
      /\ UNCHANGED <<queue, result, reset, recalibrate, mon_timer, moff_timer,
                     driveVars, deviceVars, pc, ticking>>
  BY DEF floppy_on_interrupt, CURRENT
<1>3. /\ mon_timer[current_drive] \in Nat /\ moff_timer[current_drive] \in Nat
      /\ current_drive \in Drive
  BY FloppyAssumption DEF FdState, FdTypeOK
<1>4. CASE current_drive # current_DOR.drive
  <2>1. /\ current_DOR' = [current_DOR EXCEPT !.drive = current_drive]
        /\ AddTimer(2, "transfer")
        /\ running' = "idle"
    BY <1>4 DEF floppy_on_interrupt
  <2>2. next_timer' = <<[jiffies |-> 2, fn |-> "transfer"]>>
    BY <1>1, <2>1, AddTimerAlone
  <2>3. /\ next_timer' \in Seq(Timer) /\ Len(next_timer') = 1 /\ next_timer' # <<>>
        /\ Head(next_timer') = [jiffies |-> 2, fn |-> "transfer"]
    <3>1. [jiffies |-> 2, fn |-> "transfer"] \in Timer
      BY DEF Timer
    <3> QED BY <2>2, <3>1
  <2>4. /\ current_DOR' \in [drive : Drive, motors : SUBSET Drive]
        /\ current_DOR'.drive = current_drive
        /\ current_DOR'.motors = current_DOR.motors
    BY <1>3, <2>1 DEF FdState, FdTypeOK
  <2>5. Requests'
    BY <1>2, <2>1 DEF FdState, Requests, DriverTypeOK, NeverLies
  <2>6. FdTypeOK'
    BY <1>2, <2>3, <2>4 DEF FdState, FdTypeOK, driveVars, deviceVars
  <2>7. OneThing'
    BY <1>1, <1>2, <2>1, <2>3 DEF OneThing, deviceVars
  <2>8. ForCurrent'
    BY <1>1, <1>2, <2>1, <2>3, <2>4
       DEF ForCurrent, Begun, Transferring, HandlesRequest, driveVars, deviceVars
  <2>9. TimerOf(Head(next_timer))'
    BY <1>1, <1>2, <1>3, <2>3, <2>4 DEF TimerOf, MotorFor, StaysOn, driveVars
  <2>10. Motors'
    BY <2>1, <2>9 DEF Motors
  <2> QED BY <2>5, <2>6, <2>7, <2>8, <2>10 DEF FdState, FdWorks
<1>5. CASE current_drive = current_DOR.drive
  <2>1. running' = "transfer" /\ UNCHANGED <<current_DOR, next_timer>>
    BY <1>5 DEF floppy_on_interrupt
  <2>5. Requests'
    BY <1>2, <2>1 DEF FdState, Requests, DriverTypeOK, NeverLies
  <2>6. FdTypeOK'
    BY <1>2, <2>1 DEF FdState, FdTypeOK, driveVars, deviceVars
  <2>7. OneThing'
    BY <1>1, <1>2, <2>1, EmptySeq DEF OneThing, deviceVars
  <2>8. ForCurrent'
    BY <1>1, <1>2, <1>5, <2>1
       DEF ForCurrent, Begun, Transferring, HandlesRequest, driveVars, deviceVars
  <2>9. Motors'
    BY <1>1, <1>2, <2>1 DEF Motors, MotorFor, driveVars
  <2> QED BY <2>5, <2>6, <2>7, <2>8, <2>9 DEF FdState, FdWorks
<1> QED BY <1>4, <1>5

\* The driver is at a label that starts again, and nothing is pending.
LEMMA Restarts ==
  ASSUME next_timer' = <<>>, fdc' = {}, running' \in {"request", "repeat"},
         selected' => queue' # <<>> /\ CURRENT'.drive = current_DOR'.drive
                                    /\ CURRENT'.block # TooFar
  PROVE  FdWorks'
<1>1. OneThing'
  BY EmptySeq DEF OneThing
<1>2. ForCurrent'
  BY DEF ForCurrent, Begun, Transferring, HandlesRequest
<1>3. Motors'
  BY DEF Motors
<1> QED BY <1>1, <1>2, <1>3 DEF FdWorks

\* The driver waits for the command c.
LEMMA WaitsForCommand ==
  ASSUME next_timer' = <<>>, running' = "idle",
         NEW c \in FdcCommand, fdc' = {c},
         selected' => queue' # <<>> /\ CURRENT'.drive = current_DOR'.drive
                                    /\ CURRENT'.block # TooFar,
         do_floppy' \in {"seek_interrupt", "rw_interrupt"} =>
           selected' /\ CURRENT'.drive = current_drive',
         c.op = "rw" => queue' # <<>> /\ c.id = CURRENT'.id /\ c.drive = CURRENT'.drive
  PROVE  FdWorks'
<1>1. OneThing'
  BY EmptySeq DEF OneThing
<1>2. ForCurrent'
  BY DEF ForCurrent, Begun, Transferring, HandlesRequest
<1>3. Motors'
  BY DEF Motors
<1> QED BY <1>1, <1>2, <1>3 DEF FdWorks

\* transfer() gives one command, for CURRENT and to its drive.
LEMMA TransferKeeps ==
  ASSUME FdState, transfer
  PROVE  FdState'
<1>1. /\ running = "transfer" /\ next_timer = <<>> /\ fdc = {}
      /\ queue # <<>> /\ CURRENT.drive = current_drive /\ CURRENT.block # TooFar
      /\ selected /\ CURRENT.drive = current_DOR.drive
  BY DEF FdState, FdWorks, OneThing, ForCurrent, Begun, Transferring, transfer
<1>2. /\ CURRENT' = CURRENT
      /\ UNCHANGED <<queue, result, recalibrate, dorVars, timerVars, pc, ticking,
                     seek, current_drive, current_track>>
  BY DEF transfer, CURRENT
<1>3. CURRENT.block \in Track /\ CURRENT.id \in Id \union {0}
  BY <1>1, CurrentTyped DEF FdState
<1>4. ASSUME running' \in {"idle", "request"}, reset' \in BOOLEAN,
             quiet' \in BOOLEAN, position' = position,
             do_floppy' \in Handlers \union {"none"}, fdc' \subseteq FdcCommand
      PROVE  Requests' /\ FdTypeOK'
  BY <1>2, <1>4 DEF FdState, FdTypeOK, dorVars, timerVars, Requests, DriverTypeOK, NeverLies
<1>5. reset \in BOOLEAN /\ quiet \in BOOLEAN /\ do_floppy \in Handlers \union {"none"}
  BY DEF FdState, FdTypeOK, Requests, DriverTypeOK
<1>6. CASE reset' = TRUE /\ running' = "request" /\ UNCHANGED <<do_floppy, deviceVars>>
  <2>1. FdWorks'
    BY <1>1, <1>2, <1>6, Restarts DEF dorVars, timerVars, deviceVars
  <2> QED BY <1>1, <1>4, <1>5, <1>6, <2>1 DEF FdState, deviceVars
<1>7. ASSUME NEW h \in {"rw_interrupt", "seek_interrupt"}, TimesOut(h) PROVE FdState'
  <2>1. /\ quiet' \in BOOLEAN /\ h \in Handlers
        /\ do_floppy' = h /\ running' = "request" /\ reset' = TRUE
        /\ UNCHANGED <<fdc, position>>
    BY <1>7, TimesOutTyped DEF FdState, Handlers
  <2>2. FdWorks'
    BY <1>1, <1>2, <2>1, Restarts DEF dorVars, timerVars
  <2> QED BY <1>1, <1>4, <2>1, <2>2 DEF FdState
<1>8. ASSUME NEW op \in {"recalibrate", "seek", "rw"},
             NEW h \in {"rw_interrupt", "seek_interrupt"},
             Issue(op, CURRENT.block, CURRENT.id, h)
      PROVE  FdState'
  <2> DEFINE c == FdCommandOf(op, CURRENT.block, CURRENT.id)
  <2>1. h \in Handlers
    BY DEF Handlers
  <2>2. /\ c \in FdcCommand /\ fdc' = {c}
        /\ do_floppy' = h /\ running' = "idle"
        /\ UNCHANGED <<reset, position, quiet>>
    BY <1>1, <1>3, <1>8, <2>1, IssuesOne DEF FdState
  <2>3. c.id = CURRENT.id /\ c.drive = current_DOR.drive
    BY DEF FdCommandOf
  <2> HIDE DEF c
  <2>4. FdWorks'
    BY <1>1, <1>2, <2>2, <2>3, WaitsForCommand DEF dorVars, timerVars
  <2> QED BY <1>4, <1>5, <2>1, <2>2, <2>4 DEF FdState
<1>9. \/ reset' = TRUE /\ running' = "request" /\ UNCHANGED <<do_floppy, deviceVars>>
      \/ setup_rw_floppy
      \/ Issue(IF CURRENT.block = 0 THEN "recalibrate" ELSE "seek", CURRENT.block,
               CURRENT.id, "seek_interrupt")
      \/ TimesOut("seek_interrupt")
  BY DEF transfer
<1> QED BY <1>6, <1>7, <1>8, <1>9 DEF setup_rw_floppy

\* What do_fd_request() starts from.
LEMMA RequestBegins ==
  ASSUME FdState, running \in {"request", "repeat"}
  PROVE  /\ next_timer = <<>> /\ fdc = {}
         /\ selected => queue # <<>> /\ CURRENT.drive = current_DOR.drive
                                     /\ CURRENT.block # TooFar
BY DEF FdState, FdWorks, OneThing, ForCurrent

\* reset_floppy() leaves the reset as the only command.
LEMMA ResetKeeps ==
  ASSUME FdState, reset_floppy
  PROVE  FdState'
<1> DEFINE c == [op |-> "reset", drive |-> current_DOR.drive, track |-> 0, id |-> 0]
<1>1. /\ next_timer = <<>> /\ fdc = {}
      /\ selected => queue # <<>> /\ CURRENT.drive = current_DOR.drive
                                  /\ CURRENT.block # TooFar
  BY RequestBegins DEF reset_floppy
<1>2. /\ reset' = FALSE /\ recalibrate' = TRUE /\ seek' = FALSE
      /\ do_floppy' = "reset_interrupt" /\ fdc' = {c} /\ running' = "idle"
      /\ CURRENT' = CURRENT
      /\ UNCHANGED <<queue, result, dorVars, timerVars, pc, ticking,
                     current_drive, current_track, position, quiet>>
  BY DEF reset_floppy, CURRENT
<1>3. c \in FdcCommand /\ c.op # "rw"
  BY DriverAssumption DEF FdcCommand, FdState, FdTypeOK
<1> HIDE DEF c
<1>4. FdWorks'
  BY <1>1, <1>2, <1>3, WaitsForCommand DEF dorVars, timerVars
<1>5. fdc' \subseteq FdcCommand /\ do_floppy' \in Handlers
  BY <1>2, <1>3 DEF Handlers
<1>6. FdTypeOK'
  BY <1>2, <1>5 DEF FdState, FdTypeOK, dorVars, timerVars
<1>7. Requests'
  BY <1>2 DEF FdState, Requests, DriverTypeOK, NeverLies
<1> QED BY <1>4, <1>6, <1>7 DEF FdState

\* recalibrate_floppy() gives one command, which is for no request.
LEMMA RecalibrateKeeps ==
  ASSUME FdState, recalibrate_floppy
  PROVE  FdState'
<1>1. /\ next_timer = <<>> /\ fdc = {}
      /\ selected => queue # <<>> /\ CURRENT.drive = current_DOR.drive
                                  /\ CURRENT.block # TooFar
  BY RequestBegins DEF recalibrate_floppy
<1>2. /\ recalibrate' = FALSE /\ seek' = FALSE /\ current_track' = 0
      /\ CURRENT' = CURRENT
      /\ UNCHANGED <<queue, result, dorVars, timerVars, pc, ticking, current_drive>>
  BY DEF recalibrate_floppy, CURRENT
<1>3. ASSUME running' \in {"idle", "request"}, reset' \in BOOLEAN,
             quiet' \in BOOLEAN, position' = position,
             do_floppy' \in Handlers \union {"none"}, fdc' \subseteq FdcCommand
      PROVE  Requests' /\ FdTypeOK'
  BY <1>2, <1>3, DriverAssumption
     DEF FdState, FdTypeOK, dorVars, timerVars, Requests, DriverTypeOK, NeverLies
<1>4. CASE Issue("recalibrate", 0, 0, "recal_interrupt")
  <2> DEFINE c == FdCommandOf("recalibrate", 0, 0)
  <2>1. /\ c \in FdcCommand /\ fdc' = {c}
        /\ do_floppy' = "recal_interrupt" /\ running' = "idle"
        /\ UNCHANGED <<reset, position, quiet>>
    BY <1>1, <1>4, IssuesOne, DriverAssumption DEF FdState, Handlers
  <2>2. c.op # "rw"
    BY DEF FdCommandOf
  <2> HIDE DEF c
  <2>3. FdWorks'
    BY <1>1, <1>2, <2>1, <2>2, WaitsForCommand DEF dorVars, timerVars
  <2>4. reset \in BOOLEAN /\ quiet \in BOOLEAN
    BY DEF FdState, FdTypeOK, Requests, DriverTypeOK
  <2> QED BY <1>3, <2>1, <2>3, <2>4 DEF FdState, Handlers
<1>5. CASE TimesOut("recal_interrupt")
  <2>1. /\ quiet' \in BOOLEAN
        /\ do_floppy' = "recal_interrupt" /\ running' = "request" /\ reset' = TRUE
        /\ UNCHANGED <<fdc, position>>
    BY <1>5, TimesOutTyped DEF FdState, Handlers
  <2>2. FdWorks'
    BY <1>1, <1>2, <2>1, Restarts DEF dorVars, timerVars
  <2> QED BY <1>1, <1>3, <2>1, <2>2 DEF FdState, Handlers
<1> QED BY <1>4, <1>5 DEF recalibrate_floppy

\* do_fd_request() on its way to INIT_REQUEST has begun nothing.
LEMMA FdRepeatKeeps ==
  ASSUME FdState, FdRepeat
  PROVE  FdState'
<1>1. /\ next_timer = <<>> /\ fdc = {}
      /\ selected => queue # <<>> /\ CURRENT.drive = current_DOR.drive
                                  /\ CURRENT.block # TooFar
  BY RequestBegins DEF FdRepeat
<1>2. /\ seek' = FALSE /\ running' = "repeat" /\ CURRENT' = CURRENT
      /\ UNCHANGED <<queue, result, reset, recalibrate, dorVars, timerVars, pc, ticking,
                     do_floppy, current_drive, current_track, deviceVars>>
  BY DEF FdRepeat, CURRENT
<1>3. FdWorks'
  BY <1>1, <1>2, Restarts DEF dorVars, timerVars, deviceVars
<1> QED BY <1>2, <1>3
  DEF FdState, FdTypeOK, dorVars, timerVars, deviceVars, Requests, DriverTypeOK, NeverLies

\* do_fd_request() returns when there is no request, and waits for nothing.
LEMMA FdNoRequestKeeps ==
  ASSUME FdState, FdNoRequest
  PROVE  FdState'
<1>1. next_timer = <<>> /\ fdc = {} /\ queue = <<>> /\ ~selected
  BY RequestBegins DEF FdNoRequest
<1>2. running' = "idle" /\ UNCHANGED <<queue, result, reset, recalibrate, fdVars>>
  BY DEF FdNoRequest
<1>3. OneThing' /\ ForCurrent' /\ Motors'
  BY <1>1, <1>2, EmptySeq
     DEF OneThing, ForCurrent, Begun, Transferring, HandlesRequest, Motors,
         fdVars, dorVars, timerVars, deviceVars
<1> QED BY <1>2, <1>3
  DEF FdState, FdWorks, FdTypeOK, fdVars, dorVars, timerVars, driveVars, deviceVars,
      Requests, DriverTypeOK, NeverLies

\* A request behind the end of the disk is ended before a drive is selected.
LEMMA FdTooFarKeeps ==
  ASSUME FdState, FdTooFar
  PROVE  FdState'
<1>1. next_timer = <<>> /\ fdc = {} /\ queue # <<>> /\ ~selected /\ running = "repeat"
  BY RequestBegins DEF FdTooFar
<1>2. /\ seek' \in BOOLEAN /\ current_drive' = CURRENT.drive
      /\ moff_timer' = [moff_timer EXCEPT ![CURRENT.drive] = SpinDown]
      /\ UNCHANGED <<running, reset, recalibrate, dorVars, mon_timer, next_timer, pc,
                     ticking, do_floppy, current_track, deviceVars>>
  BY DEF FdTooFar, floppy_off, FdState, FdTypeOK
<1>3. /\ queue' \in Seq(Request) /\ queue' \in Seq(GoodRequest)
      /\ result' \in [Id -> {"none", "queued", "ok", "error", "wrong"}]
      /\ NeverLies'
  BY <1>1, EndRequestKeeps DEF FdTooFar, FdState
<1>4. CURRENT.drive \in Drive
  BY <1>1, CurrentTyped DEF FdState
<1>5. moff_timer' \in [Drive -> 0..Forever]
  <2>1. SpinDown \in 0..Forever
    BY FloppyAssumption
  <2> QED BY <1>2, <1>4, <2>1 DEF FdState, FdTypeOK
<1>6. FdWorks'
  BY <1>1, <1>2, Restarts DEF dorVars, deviceVars
<1>7. FdTypeOK'
  BY <1>2, <1>4, <1>5 DEF FdState, FdTypeOK, dorVars, deviceVars
<1> QED BY <1>2, <1>3, <1>6, <1>7 DEF FdState, Requests, DriverTypeOK

\* The motor of CURRENT is on for longer than the timer that waits for it.
LEMMA FdStartKeeps ==
  ASSUME FdState, FdStart
  PROVE  FdState'
<1> DEFINE d == CURRENT.drive
<1>1. /\ next_timer = <<>> /\ fdc = {} /\ queue # <<>> /\ CURRENT.block # TooFar
      /\ running = "repeat"
      /\ selected => d = current_DOR.drive
  BY RequestBegins DEF FdStart
<1>2. /\ seek' \in BOOLEAN /\ current_drive' = d /\ CURRENT' = CURRENT
      /\ TicksToFloppyOn(d)
      /\ UNCHANGED <<queue, result, reset, recalibrate, selected, pc, ticking,
                     do_floppy, current_track, deviceVars>>
  BY DEF FdStart, CURRENT, FdState, FdTypeOK
<1>3. d \in Drive
  BY <1>1, CurrentTyped DEF FdState
<1>4. /\ current_DOR' \in [drive : Drive, motors : SUBSET Drive]
      /\ mon_timer' \in [Drive -> 0..SpinUp]
      /\ moff_timer' \in [Drive -> 0..Forever]
      /\ d \in current_DOR'.motors /\ moff_timer'[d] = Forever
      /\ selected => current_DOR'.drive = current_DOR.drive
  BY <1>2, <1>3, TurnOn DEF FdState
<1>5. /\ mon_timer'[d] \in Nat /\ Forever \in Nat /\ Forever >= 3
  BY <1>3, <1>4, FloppyAssumption
<1>6. /\ FdTypeOK' <=> next_timer' \in Seq(Timer)
      /\ running' \in {"idle", "request", "repeat", "floppy_on_interrupt", "transfer"} => Requests'
  BY <1>2, <1>3, <1>4
     DEF FdState, FdTypeOK, deviceVars, Requests, DriverTypeOK, NeverLies
<1> HIDE DEF d
<1>7. CASE mon_timer'[d] > 0
  <2> DEFINE t == [jiffies |-> mon_timer'[d], fn |-> "floppy_on_interrupt"]
  <2>1. AddTimer(mon_timer'[d], "floppy_on_interrupt") /\ running' = "idle"
    BY <1>7 DEF FdStart, d
  <2>2. next_timer' = <<t>>
    <3> PICK m \in Nat : m = mon_timer'[d]
      BY <1>5
    <3> QED BY <1>1, <2>1, AddTimerAlone
  <2>3. next_timer' \in Seq(Timer) /\ Len(next_timer') = 1 /\ next_timer' # <<>>
        /\ Head(next_timer') = t
    <3>1. t \in Timer
      BY <1>5 DEF Timer
    <3> HIDE DEF t
    <3> QED BY <2>2, <3>1
  <2>4. t.jiffies = mon_timer'[d] /\ t.fn = "floppy_on_interrupt"
    OBVIOUS
  <2> HIDE DEF t
  <2>5. OneThing'
    BY <1>1, <1>2, <2>1, <2>3 DEF OneThing, deviceVars
  <2>6. ForCurrent'
    BY <1>1, <1>2, <1>4, <2>1, <2>3, <2>4
       DEF ForCurrent, Begun, Transferring, HandlesRequest, deviceVars, d
  <2>7. TimerOf(Head(next_timer))'
    BY <1>2, <1>4, <1>5, <1>7, <2>3, <2>4 DEF TimerOf, MotorFor, StaysOn
  <2>8. Motors'
    BY <2>1, <2>7 DEF Motors
  <2> QED BY <1>6, <2>1, <2>3, <2>5, <2>6, <2>8 DEF FdState, FdWorks
<1>8. CASE ~(mon_timer'[d] > 0)
  <2>1. running' = "floppy_on_interrupt" /\ next_timer' = <<>>
    BY <1>1, <1>8 DEF FdStart, d
  <2>2. next_timer' \in Seq(Timer)
    BY <2>1, EmptySeq
  <2>3. OneThing'
    BY <1>1, <1>2, <2>1, EmptySeq DEF OneThing, deviceVars
  <2>4. ForCurrent'
    BY <1>1, <1>2, <1>4, <2>1
       DEF ForCurrent, Begun, Transferring, HandlesRequest, deviceVars, d
  <2>5. Motors'
    BY <1>2, <1>4, <1>5, <1>8, <2>1 DEF Motors, MotorFor, StaysOn
  <2> QED BY <1>6, <2>1, <2>2, <2>3, <2>4, <2>5 DEF FdState, FdWorks
<1> QED BY <1>7, <1>8

\* The code of the floppy driver keeps what it relies on.
LEMMA FdRunsKeeps ==
  ASSUME FdState, FdRuns
  PROVE  FdState'
BY FloppyOnKeeps, TransferKeeps, ResetKeeps, RecalibrateKeeps, FdRepeatKeeps,
   FdNoRequestKeeps, FdTooFarKeeps, FdStartKeeps DEF FdRuns, do_fd_request

-----------------------------------------------------------------------------
(* The clock *)

\* While nothing runs, only the clock and processes touch timers and motors.
LEMMA WaitsOn ==
  ASSUME FdState, running = "idle", running' = "idle",
         UNCHANGED <<queue, driveVars, fdc>>, selected' = selected,
         selected => current_DOR'.drive = current_DOR.drive,
         Len(next_timer') = Len(next_timer),
         next_timer # <<>> => next_timer' # <<>> /\ Head(next_timer').fn = Head(next_timer).fn,
         next_timer = <<>> => next_timer' = <<>>,
         next_timer # <<>> => TimerOf(Head(next_timer))'
  PROVE  FdWorks'
<1>1. CURRENT' = CURRENT
  BY DEF CURRENT
<1>2. OneThing'
  BY DEF FdState, FdWorks, OneThing
<1>3. ForCurrent'
  BY <1>1 DEF FdState, FdWorks, ForCurrent, Begun, Transferring, HandlesRequest, driveVars
<1>4. Motors'
  BY DEF Motors
<1> QED BY <1>2, <1>3, <1>4 DEF FdWorks

\* What there is to know of the one timer.
LEMMA TimerTyped ==
  ASSUME FdState, next_timer # <<>>
  PROVE  /\ Head(next_timer) \in Timer /\ Tail(next_timer) = <<>> /\ Len(next_timer) = 1
         /\ Head(next_timer).jiffies \in Nat /\ Head(next_timer).jiffies >= 1
         /\ TimerOf(Head(next_timer))
         /\ current_drive \in Drive
         /\ mon_timer[current_drive] \in Nat /\ moff_timer[current_drive] \in Nat
<1>1. Head(next_timer) \in Timer /\ Tail(next_timer) = <<>> /\ Len(next_timer) = 1
  BY TimerAlone DEF FdState, FdTypeOK, FdWorks, OneThing
<1>2. TimerOf(Head(next_timer))
  BY DEF FdState, FdWorks, Motors
<1>3. Head(next_timer).jiffies \in Nat /\ Head(next_timer).jiffies >= 1
  BY <1>1, <1>2 DEF TimerOf, Timer
<1>4. /\ current_drive \in Drive
      /\ mon_timer[current_drive] \in Nat /\ moff_timer[current_drive] \in Nat
  BY FloppyAssumption DEF FdState, FdTypeOK
<1> QED BY <1>1, <1>2, <1>3, <1>4

\* A tick counts the timer and the motor it is for down together.
LEMMA TickKeeps ==
  ASSUME FdState, Tick
  PROVE  FdState'
<1>1. /\ running = "idle" /\ ~ticking /\ do_floppy_timer
      /\ UNCHANGED <<driverVars, driveVars, deviceVars, ticking>>
  BY DEF Tick
<1>2. /\ current_DOR' \in [drive : Drive, motors : SUBSET Drive]
      /\ current_DOR'.drive = current_DOR.drive
      /\ selected' = selected
      /\ mon_timer' \in [Drive -> 0..SpinUp]
      /\ moff_timer' \in [Drive -> 0..Forever]
      /\ pc' \in [Process -> {"user", "floppy_on", "sleep_motor", "wait_motor",
                              "select", "sleep_select", "wait_select", "done"}]
  BY <1>1, TickTyped DEF FdState
<1>3. next_timer' \in Seq(Timer) => FdTypeOK'
  BY <1>1, <1>2 DEF FdState, FdTypeOK, driveVars, deviceVars
<1>4. Requests'
  BY <1>1 DEF FdState, Requests, DriverTypeOK, NeverLies, driverVars
<1>5. CASE next_timer = <<>>
  <2>1. next_timer' = next_timer
    BY <1>5 DEF Tick
  <2>2. next_timer' \in Seq(Timer)
    BY <2>1 DEF FdState, FdTypeOK
  <2>3. FdWorks'
    BY <1>1, <1>2, <1>5, <2>1, WaitsOn DEF driverVars, deviceVars
  <2> QED BY <1>3, <1>4, <2>2, <2>3 DEF FdState
<1>6. CASE next_timer # <<>>
  <2>1. /\ Head(next_timer) \in Timer /\ Tail(next_timer) = <<>> /\ Len(next_timer) = 1
        /\ Head(next_timer).jiffies \in Nat /\ Head(next_timer).jiffies >= 1
        /\ TimerOf(Head(next_timer))
        /\ current_drive \in Drive
        /\ mon_timer[current_drive] \in Nat /\ moff_timer[current_drive] \in Nat
    BY <1>6, TimerTyped
  <2> DEFINE t == [Head(next_timer) EXCEPT !.jiffies = @ - 1]
  <2>2. next_timer' = <<t>> \o Tail(next_timer) /\ Head(next_timer).jiffies > 1
    BY <1>6 DEF Tick
  <2>3. t \in Timer /\ t.jiffies = Head(next_timer).jiffies - 1 /\ t.fn = Head(next_timer).fn
    BY <2>1 DEF Timer
  <2> HIDE DEF t
  <2>4. next_timer' \in Seq(Timer) /\ next_timer' # <<>> /\ Head(next_timer') = t
        /\ Len(next_timer') = 1
    <3>1. <<t>> \in Seq(Timer) /\ <<t>> # <<>> /\ Head(<<t>>) = t /\ Len(<<t>>) = 1
      BY <2>3
    <3>2. <<t>> \o <<>> = <<t>>
      BY <3>1, ConcatEmptySeq
    <3>3. next_timer' = <<t>>
      BY <2>1, <2>2, <3>2
    <3> QED BY <3>1, <3>3
  <2> DEFINE d == current_drive
  <2>5. d \in current_DOR.motors /\ mon_timer[d] + moff_timer[d] >= 1
    BY <1>1, <2>1, <2>2 DEF TimerOf, MotorFor, StaysOn, Timer
  <2>6. /\ d \in current_DOR.motors'
        /\ mon_timer'[d] <= mon_timer[d] /\ mon_timer'[d] >= mon_timer[d] - 1
        /\ mon_timer[d] >= 1 => mon_timer'[d] = mon_timer[d] - 1
        /\ mon_timer'[d] + moff_timer'[d] = mon_timer[d] + moff_timer[d] - 1
    BY <1>1, <2>1, <2>5, TickCounts DEF FdState
  <2>7. mon_timer'[d] \in Nat /\ moff_timer'[d] \in Nat
    BY <1>2, <2>1, FloppyAssumption
  <2>8. TimerOf(Head(next_timer))'
    <3>1. t.jiffies \in Nat /\ t.jiffies >= 1 /\ ticking' = FALSE /\ current_drive' = d
      BY <1>1, <2>1, <2>2, <2>3 DEF driveVars
    <3>2. MotorFor(Head(next_timer).jiffies)'
      <4>1. mon_timer'[d] <= IF t.jiffies > 2 THEN t.jiffies ELSE 2
        BY <2>1, <2>3, <2>6, <2>7, <3>1 DEF TimerOf, MotorFor
      <4> QED BY <4>1, <2>4, <2>6, <3>1 DEF MotorFor
    <3>3. t.fn = "floppy_on_interrupt" =>
            mon_timer'[d] >= t.jiffies - 1 /\ mon_timer'[d] + moff_timer'[d] >= t.jiffies + 1
      BY <1>1, <2>1, <2>3, <2>6, <2>7, <3>1 DEF TimerOf, StaysOn
    <3>4. t.fn = "transfer" =>
            t.jiffies <= 2 /\ mon_timer'[d] + moff_timer'[d] >= t.jiffies - 1
      BY <1>1, <2>1, <2>3, <2>6, <2>7, <3>1 DEF TimerOf, StaysOn
    <3> QED BY <2>4, <2>7, <3>1, <3>2, <3>3, <3>4 DEF TimerOf, StaysOn
  <2>9. FdWorks'
    BY <1>1, <1>2, <1>6, <2>1, <2>3, <2>4, <2>8, WaitsOn DEF driverVars, deviceVars
  <2> QED BY <1>3, <1>4, <2>4, <2>9 DEF FdState
<1> QED BY <1>5, <1>6

\* When the timer is due the motor is on, and stays on for the tick to come.
LEMMA RunTimerKeeps ==
  ASSUME FdState, RunTimer
  PROVE  FdState'
<1>1. /\ next_timer # <<>> /\ running = "idle"
      /\ Head(next_timer).jiffies <= IF ticking THEN 0 ELSE 1
      /\ next_timer' = Tail(next_timer)
      /\ running' = Head(next_timer).fn /\ ticking' = TRUE
      /\ UNCHANGED <<queue, result, reset, recalibrate,
                     dorVars, mon_timer, moff_timer, driveVars, deviceVars, pc>>
      /\ CURRENT' = CURRENT
  BY DEF RunTimer, CURRENT
<1>2. /\ Head(next_timer) \in Timer /\ Tail(next_timer) = <<>> /\ Len(next_timer) = 1
      /\ Head(next_timer).jiffies \in Nat /\ Head(next_timer).jiffies >= 1
      /\ TimerOf(Head(next_timer))
      /\ current_drive \in Drive
      /\ mon_timer[current_drive] \in Nat /\ moff_timer[current_drive] \in Nat
  BY <1>1, TimerTyped
<1>3. ~ticking /\ Head(next_timer).jiffies = 1
  BY <1>1, <1>2
<1>4. running' \in {"floppy_on_interrupt", "transfer"}
  BY <1>1, <1>2 DEF Timer
<1>5. Requests'
  BY <1>1, <1>4 DEF FdState, Requests, DriverTypeOK, NeverLies
<1>6. FdTypeOK'
  <2>1. next_timer' \in Seq(Timer)
    BY <1>1, <1>2, EmptySeq
  <2> QED BY <1>1, <2>1 DEF FdState, FdTypeOK, dorVars, driveVars, deviceVars
<1>8. fdc = {} /\ fdc' = {}
  BY <1>1 DEF FdState, FdWorks, OneThing, deviceVars
<1>7. OneThing'
  <2>1. next_timer' = <<>> /\ running' # "idle"
    BY <1>1, <1>2, <1>4
  <2> QED BY <1>8, <2>1, EmptySeq DEF OneThing
<1>9. ForCurrent'
  BY <1>1, <1>2, <1>8
     DEF FdState, FdWorks, ForCurrent, Begun, Transferring, HandlesRequest,
         dorVars, driveVars, deviceVars
<1>10. Motors'
  <2>1. MotorFor(0)'
    BY <1>1, <1>2, <1>3 DEF TimerOf, MotorFor, dorVars, driveVars
  <2>2. running' = "floppy_on_interrupt" => StaysOn' >= 2
    BY <1>1, <1>2, <1>3 DEF TimerOf, StaysOn, driveVars
  <2> QED BY <1>1, <1>2, <2>1, <2>2 DEF Motors
<1> QED BY <1>5, <1>6, <1>7, <1>9, <1>10 DEF FdState, FdWorks

\* The end of the tick counts the motor down after the timer it has run.
LEMMA EndTickKeeps ==
  ASSUME FdState, EndTick
  PROVE  FdState'
<1>1. /\ running = "idle" /\ ticking /\ ticking' = FALSE /\ do_floppy_timer
      /\ UNCHANGED <<driverVars, next_timer, driveVars, deviceVars>>
  BY DEF EndTick
<1>2. /\ current_DOR' \in [drive : Drive, motors : SUBSET Drive]
      /\ current_DOR'.drive = current_DOR.drive
      /\ selected' = selected
      /\ mon_timer' \in [Drive -> 0..SpinUp]
      /\ moff_timer' \in [Drive -> 0..Forever]
      /\ pc' \in [Process -> {"user", "floppy_on", "sleep_motor", "wait_motor",
                              "select", "sleep_select", "wait_select", "done"}]
  BY <1>1, TickTyped DEF FdState
<1>3. FdTypeOK'
  BY <1>1, <1>2 DEF FdState, FdTypeOK, driveVars, deviceVars
<1>4. Requests'
  BY <1>1 DEF FdState, Requests, DriverTypeOK, NeverLies, driverVars
<1>5. ASSUME next_timer # <<>> PROVE TimerOf(Head(next_timer))'
  <2>1. /\ Head(next_timer).jiffies \in Nat /\ Head(next_timer).jiffies >= 1
        /\ TimerOf(Head(next_timer))
        /\ current_drive \in Drive
        /\ mon_timer[current_drive] \in Nat /\ moff_timer[current_drive] \in Nat
        /\ Head(next_timer) \in Timer
    BY <1>5, TimerTyped
  <2> DEFINE d == current_drive
  <2>2. d \in current_DOR.motors /\ mon_timer[d] + moff_timer[d] >= 1
    BY <1>1, <2>1 DEF TimerOf, MotorFor, StaysOn, Timer
  <2>3. /\ d \in current_DOR.motors'
        /\ mon_timer'[d] <= mon_timer[d] /\ mon_timer'[d] >= mon_timer[d] - 1
        /\ mon_timer[d] >= 1 => mon_timer'[d] = mon_timer[d] - 1
        /\ mon_timer'[d] + moff_timer'[d] = mon_timer[d] + moff_timer[d] - 1
    BY <1>1, <2>1, <2>2, TickCounts DEF FdState
  <2>4. mon_timer'[d] \in Nat /\ moff_timer'[d] \in Nat
    BY <1>2, <2>1, FloppyAssumption
  <2> QED BY <1>1, <2>1, <2>3, <2>4 DEF TimerOf, MotorFor, StaysOn, driveVars
<1>6. FdWorks'
  BY <1>1, <1>2, <1>5, WaitsOn DEF driverVars, deviceVars
<1> QED BY <1>3, <1>4, <1>6 DEF FdState

\* do_timer() keeps what the floppy driver relies on.
LEMMA FdClockKeeps ==
  ASSUME FdState, FdClock
  PROVE  FdState'
BY TickKeeps, RunTimerKeeps, EndTickKeeps DEF FdClock

-----------------------------------------------------------------------------
(* The interrupts of the floppy controller *)

\* The command that ends is the only one, and it was given for CURRENT.
LEMMA InterruptOfOne ==
  ASSUME FdState, NEW h, NEW c, FdInterrupt(h, c)
  PROVE  /\ running = "idle" /\ ~ticking /\ do_floppy = h /\ next_timer = <<>>
         /\ c \in FdcCommand /\ fdc = {c} /\ fdc \ {c} = {}
         /\ selected => queue # <<>> /\ CURRENT.drive = current_DOR.drive
                                     /\ CURRENT.block # TooFar
         /\ c.op = "rw" => queue # <<>> /\ c.id = CURRENT.id /\ c.drive = CURRENT.drive
         /\ h \in {"seek_interrupt", "rw_interrupt"} =>
              /\ queue # <<>> /\ CURRENT.drive = current_drive
              /\ CURRENT.block # TooFar /\ selected
<1>1. running = "idle" /\ ~ticking /\ do_floppy = h /\ c \in fdc
  BY DEF FdInterrupt
<1>2. next_timer = <<>> /\ fdc = {c} /\ c \in FdcCommand
  BY <1>1 DEF FdState, FdWorks, OneThing
<1> QED BY <1>1, <1>2
        DEF FdState, FdWorks, ForCurrent, Begun, Transferring, HandlesRequest

\* The heads stay over the disk.
LEMMA MovesTyped ==
  ASSUME FdTypeOK, NEW c \in FdcCommand, NEW good \in BOOLEAN, Moves(c, good)
  PROVE  position' \in [Drive -> Track]
<1>1. c.drive \in Drive /\ c.track \in Track /\ position \in [Drive -> Track]
  BY DEF FdcCommand, FdTypeOK
<1> QED BY <1>1 DEF Moves

\* floppy_deselect() gives up the selection.
LEMMA DeselectTyped ==
  ASSUME FdTypeOK, floppy_deselect
  PROVE  /\ selected' = FALSE
         /\ pc' \in [Process -> {"user", "floppy_on", "sleep_motor", "wait_motor",
                                 "select", "sleep_select", "wait_select", "done"}]
BY DEF FdTypeOK, floppy_deselect

\* floppy_off() gives a motor its last ticks.
LEMMA OffTyped ==
  ASSUME FdTypeOK, NEW d \in Drive, floppy_off(d)
  PROVE  moff_timer' \in [Drive -> 0..Forever]
<1>1. SpinDown \in 0..Forever
  BY FloppyAssumption
<1> QED BY <1>1 DEF FdTypeOK, floppy_off

\* The request is ended and the drive deselected.
LEMMA InterruptEnds ==
  ASSUME FdState, NEW c, FdInterrupt("rw_interrupt", c),
         NEW uptodate \in BOOLEAN, NEW moved, uptodate => moved = Sector,
         floppy_deselect, end_request(uptodate, moved), floppy_off(CURRENT.drive),
         fdc' = fdc \ {c}, do_floppy' = "none", running' = "request",
         reset' \in BOOLEAN,
         UNCHANGED <<recalibrate, current_DOR, mon_timer, next_timer, ticking,
                     seek, current_drive, current_track, position, quiet>>
  PROVE  FdState'
<1>1. next_timer = <<>> /\ fdc \ {c} = {} /\ queue # <<>>
  BY InterruptOfOne
<1>2. /\ queue' \in Seq(Request) /\ queue' \in Seq(GoodRequest)
      /\ result' \in [Id -> {"none", "queued", "ok", "error", "wrong"}]
      /\ NeverLies'
  BY <1>1, EndRequestKeeps DEF FdState
<1>3. Requests'
  BY <1>2 DEF FdState, Requests, DriverTypeOK
<1>4. /\ selected' = FALSE
      /\ pc' \in [Process -> {"user", "floppy_on", "sleep_motor", "wait_motor",
                              "select", "sleep_select", "wait_select", "done"}]
  BY DeselectTyped DEF FdState
<1>5. moff_timer' \in [Drive -> 0..Forever]
  BY <1>1, CurrentTyped, OffTyped DEF FdState
<1>6. FdTypeOK'
  BY <1>1, <1>4, <1>5 DEF FdState, FdTypeOK
<1>7. FdWorks'
  BY <1>1, <1>4, Restarts
<1> QED BY <1>3, <1>6, <1>7 DEF FdState

\* The request that is ended well is the one the command was for.
LEMMA FdTransferredKeeps ==
  ASSUME FdState, NEW c, FdTransferred(c)
  PROVE  FdState'
<1>1. FdInterrupt("rw_interrupt", c) /\ c.op = "rw"
  BY DEF FdTransferred
<1>2. c.id = CURRENT.id /\ c.drive = CURRENT.drive
  BY <1>1, InterruptOfOne
<1>3. end_request(TRUE, Sector)
  BY <1>2 DEF FdTransferred
<1>4. reset' \in BOOLEAN
  BY DEF FdTransferred, FdState, Requests, DriverTypeOK
<1> QED BY <1>1, <1>3, <1>4, InterruptEnds DEF FdTransferred

\* A request whose disk is write-protected is ended with an error.
LEMMA WriteProtectedKeeps ==
  ASSUME FdState, NEW c, WriteProtected(c)
  PROVE  FdState'
<1>1. reset' \in BOOLEAN
  BY DEF WriteProtected, NoAnswer, FdState, Requests, DriverTypeOK
<1> QED BY <1>1, InterruptEnds DEF WriteProtected

\* bad_flp_intr() counts an error of CURRENT, or gives it up with its drive.
LEMMA FdFailsKeeps ==
  ASSUME FdState, NEW c, FdFails(c)
  PROVE  FdState'
<1>1. PICK h \in {"rw_interrupt", "seek_interrupt"} : FdInterrupt(h, c)
  BY DEF FdFails
<1>2. /\ next_timer = <<>> /\ fdc \ {c} = {} /\ queue # <<>> /\ c \in FdcCommand
      /\ CURRENT.drive = current_DOR.drive /\ CURRENT.block # TooFar
  BY <1>1, InterruptOfOne
<1>3. PICK was \in BOOLEAN : bad_flp_intr(was) /\ quiet' \in BOOLEAN
  <2>1. reset \in BOOLEAN /\ quiet \in BOOLEAN
    BY DEF FdState, FdTypeOK, Requests, DriverTypeOK
  <2>2. quiet' \in BOOLEAN /\ (bad_flp_intr(reset) \/ bad_flp_intr(TRUE))
    BY <2>1 DEF FdFails
  <2> QED BY <2>1, <2>2
<1>4. /\ fdc' = {} /\ do_floppy' = "none" /\ running' = "request"
      /\ Moves(c, FALSE)
      /\ UNCHANGED <<current_DOR, mon_timer, next_timer, ticking,
                     seek, current_drive, current_track>>
  BY <1>2 DEF FdFails
<1>5. position' \in [Drive -> Track]
  BY <1>2, <1>4, MovesTyped DEF FdState
<1>6. /\ CURRENT \in GoodRequest /\ CURRENT.drive \in Drive /\ CURRENT.errors \in Nat
      /\ reset \in BOOLEAN /\ recalibrate \in BOOLEAN
  BY <1>2, CurrentTyped DEF FdState, Requests, DriverTypeOK
<1> DEFINE e == CURRENT.errors + 1
           r == [CURRENT EXCEPT !.errors = e]
<1>7. ASSUME /\ selected' \in BOOLEAN /\ moff_timer' \in [Drive -> 0..Forever]
             /\ pc' \in [Process -> {"user", "floppy_on", "sleep_motor", "wait_motor",
                                     "select", "sleep_select", "wait_select", "done"}]
      PROVE  FdTypeOK'
  BY <1>3, <1>4, <1>5, <1>7 DEF FdState, FdTypeOK
<1>8. CASE /\ queue' = WithCurrent(r)
           /\ reset' = (was \/ e > FD_MAX_ERRORS \div 2)
           /\ recalibrate' = (recalibrate \/ e <= FD_MAX_ERRORS \div 2)
           /\ UNCHANGED <<result, selected, moff_timer, pc>>
  <2>1. reset' \in BOOLEAN /\ recalibrate' \in BOOLEAN
    BY <1>6, <1>8
  <2>2. e \in Nat
    BY <1>6
  <2> HIDE DEF e
  <2>3. r \in GoodRequest /\ r.drive = CURRENT.drive /\ r.block = CURRENT.block
    <3>1. r.drive = CURRENT.drive /\ r.block = CURRENT.block
      BY <1>6 DEF GoodRequest, Request
    <3> QED BY <1>6, <2>2, <3>1, ErrorsCounted
  <2> HIDE DEF r
  <2>4. /\ queue' \in Seq(Request) /\ queue' \in Seq(GoodRequest)
        /\ queue' # <<>> /\ CURRENT' = r
    BY <1>2, <1>8, <2>3, CurrentChanges DEF FdState
  <2>5. Requests'
    BY <1>4, <1>8, <2>1, <2>4 DEF FdState, Requests, DriverTypeOK, NeverLies
  <2>6. FdTypeOK'
    BY <1>7, <1>8 DEF FdState, FdTypeOK
  <2>7. FdWorks'
    BY <1>2, <1>4, <2>3, <2>4, Restarts
  <2> QED BY <2>5, <2>6, <2>7 DEF FdState
<1>9. CASE /\ floppy_deselect
           /\ end_request(FALSE, {})
           /\ floppy_off(CURRENT.drive)
           /\ \/ recalibrate' = TRUE /\ reset' = was
              \/ Len(queue) = 1 /\ reset' = TRUE /\ UNCHANGED recalibrate
  <2>1. reset' \in BOOLEAN /\ recalibrate' \in BOOLEAN
    BY <1>6, <1>9
  <2>2. /\ queue' \in Seq(Request) /\ queue' \in Seq(GoodRequest)
        /\ result' \in [Id -> {"none", "queued", "ok", "error", "wrong"}]
        /\ NeverLies'
    BY <1>2, <1>9, EndRequestKeeps DEF FdState
  <2>3. Requests'
    BY <1>4, <2>1, <2>2 DEF FdState, Requests, DriverTypeOK
  <2>4. /\ selected' = FALSE
        /\ pc' \in [Process -> {"user", "floppy_on", "sleep_motor", "wait_motor",
                                "select", "sleep_select", "wait_select", "done"}]
    BY <1>9, DeselectTyped DEF FdState
  <2>5. moff_timer' \in [Drive -> 0..Forever]
    BY <1>6, <1>9, OffTyped DEF FdState
  <2>6. FdTypeOK'
    BY <1>7, <2>4, <2>5
  <2>7. FdWorks'
    BY <1>2, <1>4, <2>4, Restarts
  <2> QED BY <2>3, <2>6, <2>7 DEF FdState
<1> HIDE DEF e, r
<1>10. \/ /\ queue' = WithCurrent(r)
          /\ reset' = (was \/ e > FD_MAX_ERRORS \div 2)
          /\ recalibrate' = (recalibrate \/ e <= FD_MAX_ERRORS \div 2)
          /\ UNCHANGED <<result, selected, moff_timer, pc>>
       \/ /\ floppy_deselect
          /\ end_request(FALSE, {})
          /\ floppy_off(CURRENT.drive)
          /\ \/ recalibrate' = TRUE /\ reset' = was
             \/ Len(queue) = 1 /\ reset' = TRUE /\ UNCHANGED recalibrate
  BY <1>3, Zenon DEF bad_flp_intr, e, r
<1> QED BY <1>8, <1>9, <1>10

\* The transfer after a seek is of the request the seek was for.
LEMMA SeekInterruptKeeps ==
  ASSUME FdState, NEW c, seek_interrupt(c)
  PROVE  FdState'
<1>1. FdInterrupt("seek_interrupt", c) /\ Moves(c, TRUE) /\ current_track' = c.track
      /\ CURRENT' = CURRENT
      /\ UNCHANGED <<queue, result, recalibrate, dorVars, timerVars, pc, ticking,
                     seek, current_drive>>
  BY DEF seek_interrupt, CURRENT
<1>2. /\ next_timer = <<>> /\ fdc \ {c} = {} /\ queue # <<>> /\ c \in FdcCommand
      /\ CURRENT.drive = current_DOR.drive /\ CURRENT.block # TooFar
      /\ CURRENT.drive = current_drive /\ selected
  BY <1>1, InterruptOfOne
<1>3. position' \in [Drive -> Track] /\ current_track' \in Track
  BY <1>1, <1>2, MovesTyped DEF FdState, FdcCommand
<1>4. CURRENT.block \in Track /\ CURRENT.id \in Id
  BY <1>2, CurrentTyped DEF FdState
<1>5. ASSUME running' \in {"idle", "request"}, reset' \in BOOLEAN,
             quiet' \in BOOLEAN,
             do_floppy' = "rw_interrupt", fdc' \subseteq FdcCommand
      PROVE  Requests' /\ FdTypeOK'
  BY <1>1, <1>3, <1>5
     DEF FdState, FdTypeOK, dorVars, timerVars, Requests, DriverTypeOK, NeverLies, Handlers
<1> DEFINE n == FdCommandOf("rw", CURRENT.block, CURRENT.id)
<1>6. CASE /\ do_floppy' = "rw_interrupt" /\ fdc' = (fdc \ {c}) \union {n}
           /\ running' = "idle" /\ UNCHANGED <<reset, quiet>>
  <2>1. n \in FdcCommand /\ n.id = CURRENT.id /\ n.drive = CURRENT.drive
    BY <1>2, <1>4 DEF FdCommandOf, FdcCommand, FdState, FdTypeOK
  <2> HIDE DEF n
  <2>2. fdc' = {n}
    BY <1>2, <1>6
  <2>3. reset \in BOOLEAN /\ quiet \in BOOLEAN
    BY DEF FdState, FdTypeOK, Requests, DriverTypeOK
  <2>4. Requests' /\ FdTypeOK'
    BY <1>5, <1>6, <2>1, <2>2, <2>3
  <2>5. FdWorks'
    BY <1>1, <1>2, <1>6, <2>1, <2>2, WaitsForCommand DEF dorVars, timerVars
  <2> QED BY <2>4, <2>5 DEF FdState
<1>7. CASE /\ UNCHANGED quiet
           /\ reset' = TRUE /\ do_floppy' = "rw_interrupt" /\ fdc' = fdc \ {c}
           /\ running' = "request"
  <2>1. quiet' \in BOOLEAN
    BY <1>7 DEF FdState, FdTypeOK
  <2>2. Requests' /\ FdTypeOK'
    BY <1>2, <1>5, <1>7, <2>1
  <2>3. FdWorks'
    BY <1>1, <1>2, <1>7, Restarts DEF dorVars, timerVars
  <2> QED BY <2>2, <2>3 DEF FdState
<1> QED BY <1>6, <1>7 DEF seek_interrupt, FdCommandOf

\* Recovery goes on; CURRENT and the selection are as they were.
LEMMA RecoveryGoesOn ==
  ASSUME FdState, NEW h, NEW c, FdInterrupt(h, c),
         fdc' = fdc \ {c}, do_floppy' = "none", running' = "request",
         reset' \in BOOLEAN, recalibrate' \in BOOLEAN,
         quiet' \in BOOLEAN, position' \in [Drive -> Track],
         UNCHANGED <<queue, result, dorVars, timerVars, pc, ticking,
                     seek, current_drive, current_track>>
  PROVE  FdState'
<1>1. /\ next_timer = <<>> /\ fdc \ {c} = {} /\ CURRENT' = CURRENT
      /\ selected => queue # <<>> /\ CURRENT.drive = current_DOR.drive
                                  /\ CURRENT.block # TooFar
  BY InterruptOfOne DEF CURRENT
<1>2. Requests' /\ FdTypeOK'
  BY <1>1 DEF FdState, FdTypeOK, dorVars, timerVars, Requests, DriverTypeOK, NeverLies
<1>3. FdWorks'
  BY <1>1, Restarts DEF dorVars, timerVars
<1> QED BY <1>2, <1>3 DEF FdState

\* After a recalibration, or its failure, do_fd_request() starts again.
LEMMA RecalInterruptKeeps ==
  ASSUME FdState, NEW c, recal_interrupt(c)
  PROVE  FdState'
<1>1. /\ FdInterrupt("recal_interrupt", c)
      /\ fdc' = fdc \ {c} /\ do_floppy' = "none" /\ running' = "request"
      /\ UNCHANGED <<queue, result, dorVars, timerVars, pc, ticking,
                     seek, current_drive, current_track>>
  BY DEF recal_interrupt
<1>2. c \in FdcCommand /\ reset \in BOOLEAN /\ recalibrate \in BOOLEAN
      /\ quiet' \in BOOLEAN
  BY <1>1, InterruptOfOne DEF FdState, FdTypeOK, Requests, DriverTypeOK, recal_interrupt
<1>3. CASE Moves(c, TRUE) /\ recalibrate' = FALSE /\ UNCHANGED reset
  <2>1. position' \in [Drive -> Track]
    BY <1>2, <1>3, MovesTyped DEF FdState
  <2>2. reset' \in BOOLEAN /\ recalibrate' \in BOOLEAN
    BY <1>2, <1>3
  <2> QED BY <1>1, <1>2, <2>1, <2>2, RecoveryGoesOn
<1>4. CASE Moves(c, FALSE) /\ reset' = TRUE /\ UNCHANGED recalibrate
  <2>1. position' \in [Drive -> Track]
    BY <1>2, <1>4, MovesTyped DEF FdState
  <2>2. reset' \in BOOLEAN /\ recalibrate' \in BOOLEAN
    BY <1>2, <1>4
  <2> QED BY <1>1, <1>2, <2>1, <2>2, RecoveryGoesOn
<1> QED BY <1>3, <1>4 DEF recal_interrupt, NoAnswer

\* After a reset do_fd_request() starts again.
LEMMA ResetInterruptKeeps ==
  ASSUME FdState, NEW c, reset_interrupt(c)
  PROVE  FdState'
<1>1. /\ reset' \in BOOLEAN /\ recalibrate' \in BOOLEAN
      /\ quiet' \in BOOLEAN /\ position' \in [Drive -> Track]
  BY DEF reset_interrupt, NoAnswer, FdState, FdTypeOK, Requests, DriverTypeOK
<1> QED BY <1>1, RecoveryGoesOn DEF reset_interrupt

\* The interrupts of the floppy controller keep what the driver relies on.
LEMMA FdHandlerKeeps ==
  ASSUME FdState, FdHandler
  PROVE  FdState'
BY FdTransferredKeeps, WriteProtectedKeeps, FdFailsKeeps, SeekInterruptKeeps,
   RecalInterruptKeeps, ResetInterruptKeeps DEF FdHandler

\* What a timer promises depends on nothing else.
LEMMA TimerStays ==
  ASSUME FdState, next_timer # <<>>,
         UNCHANGED <<next_timer, current_drive, current_DOR, mon_timer, moff_timer, ticking>>
  PROVE  TimerOf(Head(next_timer))'
<1>1. TimerOf(Head(next_timer))
  BY DEF FdState, FdWorks, Motors
<1> QED BY <1>1 DEF TimerOf, MotorFor, StaysOn

\* An interrupt nobody waits for changes flags that are looked at later.
LEMMA UnexpectedKeeps ==
  ASSUME FdState, running = "idle", unexpected_floppy_interrupt \/ CalmsDown
  PROVE  FdState'
<1>1. /\ running = "idle"
      /\ UNCHANGED <<queue, result, running, dorVars, timerVars, driveVars, pc, ticking,
                     fdc, position>>
  BY DEF unexpected_floppy_interrupt, CalmsDown, driverVars, deviceVars, Requests
<1>2. reset' \in BOOLEAN /\ recalibrate' \in BOOLEAN
  BY DEF unexpected_floppy_interrupt, CalmsDown, driverVars, FdState, Requests, DriverTypeOK
<1>3. quiet' \in BOOLEAN
  BY DEF unexpected_floppy_interrupt, CalmsDown, deviceVars, FdState, FdTypeOK
<1>4. Requests' /\ FdTypeOK'
  BY <1>1, <1>2, <1>3
     DEF FdState, FdTypeOK, dorVars, timerVars, driveVars, Requests, DriverTypeOK, NeverLies
<1>5. next_timer # <<>> => TimerOf(Head(next_timer))'
  BY <1>1, TimerStays DEF dorVars, timerVars, driveVars
<1>6. FdWorks'
  BY <1>1, <1>5, WaitsOn DEF dorVars, timerVars
<1> QED BY <1>4, <1>6 DEF FdState

-----------------------------------------------------------------------------
(* Processes in floppy_change() *)

Labels == {"user", "floppy_on", "sleep_motor", "wait_motor",
           "select", "sleep_select", "wait_select", "done"}

\* A process shortens the time of no motor below what the driver's timer needs.
LEMMA ProcessKeeps ==
  ASSUME FdState, running = "idle", NEW p \in Process, NEW label \in Labels,
         GoTo(p, label),
         UNCHANGED <<driverVars, next_timer, driveVars, fdc, position, selected>>,
         quiet' \in BOOLEAN, ticking' = ticking,
         current_DOR' \in [drive : Drive, motors : SUBSET Drive],
         mon_timer' \in [Drive -> 0..SpinUp],
         moff_timer' \in [Drive -> 0..Forever],
         selected => current_DOR'.drive = current_DOR.drive,
         next_timer # <<>> => TimerOf(Head(next_timer))'
  PROVE  FdState'
<1>1. pc' \in [Process -> Labels]
  BY DEF GoTo, FdState, FdTypeOK, Labels
<1>2. Requests'
  BY DEF FdState, Requests, DriverTypeOK, NeverLies, driverVars
<1>3. FdTypeOK'
  BY <1>1 DEF FdState, FdTypeOK, driveVars, Labels
<1>4. FdWorks'
  BY WaitsOn DEF driverVars
<1> QED BY <1>2, <1>3, <1>4 DEF FdState

\* floppy_on() of a process turns no motor off and selects no drive in use.
LEMMA FloppyOnRoundKeeps ==
  ASSUME FdState, NEW p \in Process, floppy_on(p)
  PROVE  FdState'
<1> DEFINE label == IF mon_timer'[nr[p]] > 0 THEN "sleep_motor" ELSE "select"
<1>1. /\ running = "idle" /\ ~ticking /\ TicksToFloppyOn(nr[p]) /\ GoTo(p, label)
      /\ UNCHANGED <<driverVars, selected, next_timer, driveVars, deviceVars, ticking>>
  BY DEF floppy_on, Calls
<1>2. nr[p] \in Drive /\ label \in Labels
  BY FloppyAssumption DEF Labels
<1>3. /\ current_DOR' \in [drive : Drive, motors : SUBSET Drive]
      /\ mon_timer' \in [Drive -> 0..SpinUp]
      /\ moff_timer' \in [Drive -> 0..Forever]
      /\ selected => current_DOR'.drive = current_DOR.drive
      /\ \A e \in Drive :
           e \in current_DOR.motors =>
             /\ e \in current_DOR'.motors
             /\ mon_timer'[e] >= mon_timer[e]
             /\ mon_timer'[e] <= mon_timer[e] \/ mon_timer'[e] <= 2
             /\ moff_timer'[e] >= moff_timer[e]
  BY <1>1, <1>2, TurnOn DEF FdState
<1> HIDE DEF label
<1>4. ASSUME next_timer # <<>> PROVE TimerOf(Head(next_timer))'
  <2>1. /\ Head(next_timer).jiffies \in Nat /\ TimerOf(Head(next_timer))
        /\ current_drive \in Drive
        /\ mon_timer[current_drive] \in Nat /\ moff_timer[current_drive] \in Nat
    BY <1>4, TimerTyped
  <2>2. mon_timer'[current_drive] \in Nat /\ moff_timer'[current_drive] \in Nat
    BY <1>3, <2>1, FloppyAssumption
  <2>3. /\ current_drive \in current_DOR.motors
        /\ current_drive' = current_drive /\ next_timer' = next_timer /\ ticking' = ticking
    BY <1>1, <2>1 DEF TimerOf, MotorFor, driveVars
  <2>4. /\ current_drive \in current_DOR'.motors
        /\ mon_timer'[current_drive] >= mon_timer[current_drive]
        /\ mon_timer'[current_drive] <= mon_timer[current_drive]
           \/ mon_timer'[current_drive] <= 2
        /\ moff_timer'[current_drive] >= moff_timer[current_drive]
    BY <1>3, <2>1, <2>3
  <2> QED BY <1>1, <2>1, <2>2, <2>3, <2>4 DEF TimerOf, MotorFor, StaysOn
<1>5. quiet' \in BOOLEAN
  BY <1>1 DEF FdState, FdTypeOK, deviceVars
<1> QED BY <1>1, <1>2, <1>3, <1>4, <1>5, ProcessKeeps DEF deviceVars

\* floppy_off() of a process leaves the motor of CURRENT on for long enough.
LEMMA SelectKeeps ==
  ASSUME FdState, NEW p \in Process, Select(p)
  PROVE  FdState'
<1>1. /\ running = "idle" /\ ~ticking
      /\ UNCHANGED <<driverVars, dorVars, mon_timer, next_timer, driveVars, deviceVars,
                     ticking>>
  BY DEF Select, Calls
<1>2. PICK label \in Labels : GoTo(p, label)
  BY DEF Select, Labels
<1>3. moff_timer' = moff_timer \/ floppy_off(nr[p])
  BY DEF Select
<1>4. nr[p] \in Drive
  BY FloppyAssumption
<1>5. moff_timer' \in [Drive -> 0..Forever]
  BY <1>3, <1>4, OffTyped DEF FdState, FdTypeOK
<1>6. ASSUME next_timer # <<>> PROVE TimerOf(Head(next_timer))'
  <2>1. /\ Head(next_timer).jiffies \in Nat /\ TimerOf(Head(next_timer))
        /\ current_drive \in Drive
        /\ mon_timer[current_drive] \in Nat /\ moff_timer[current_drive] \in Nat
    BY <1>6, TimerTyped
  <2>2. SpinDown \in Nat /\ SpinDown >= 2
    BY FloppyAssumption
  <2>3. \/ moff_timer'[current_drive] = moff_timer[current_drive]
        \/ moff_timer'[current_drive] = SpinDown
    BY <1>3, <1>4, <2>1 DEF floppy_off, FdState, FdTypeOK
  <2>4. /\ current_drive' = current_drive /\ next_timer' = next_timer /\ ticking' = ticking
        /\ mon_timer' = mon_timer /\ current_DOR' = current_DOR
    BY <1>1 DEF driveVars, dorVars
  <2>5. MotorFor(Head(next_timer).jiffies)'
    BY <2>1, <2>4 DEF TimerOf, MotorFor
  <2>6. StaysOn' = StaysOn \/ StaysOn' = mon_timer[current_drive] + SpinDown
    BY <2>3, <2>4 DEF StaysOn
  <2>7. StaysOn' \in Nat /\ StaysOn \in Nat
    BY <2>1, <2>2, <2>6 DEF StaysOn
  <2> QED BY <1>1, <2>1, <2>2, <2>4, <2>5, <2>6, <2>7 DEF TimerOf
<1>7. /\ current_DOR' \in [drive : Drive, motors : SUBSET Drive]
      /\ mon_timer' \in [Drive -> 0..SpinUp] /\ quiet' \in BOOLEAN
      /\ current_DOR'.drive = current_DOR.drive
  BY <1>1 DEF FdState, FdTypeOK, dorVars, deviceVars
<1> QED BY <1>1, <1>2, <1>5, <1>6, <1>7, ProcessKeeps DEF dorVars, deviceVars

\* Processes in floppy_change() keep what the driver relies on.
LEMMA FdProcessKeeps ==
  ASSUME FdState, NEW p \in Process, FdProcess(p)
  PROVE  FdState'
<1>1. ASSUME running = "idle", NEW label \in Labels, GoTo(p, label),
             UNCHANGED <<driverVars, dorVars, timerVars, driveVars, fdc, position, ticking>>,
             quiet' \in BOOLEAN
      PROVE  FdState'
  <2>1. next_timer # <<>> => TimerOf(Head(next_timer))'
    BY <1>1, TimerStays DEF dorVars, timerVars, driveVars
  <2>2. /\ current_DOR' \in [drive : Drive, motors : SUBSET Drive]
        /\ mon_timer' \in [Drive -> 0..SpinUp]
        /\ moff_timer' \in [Drive -> 0..Forever]
        /\ current_DOR'.drive = current_DOR.drive
    BY <1>1 DEF FdState, FdTypeOK, dorVars, timerVars
  <2> QED BY <1>1, <2>1, <2>2, ProcessKeeps DEF dorVars, timerVars
<1>2. quiet \in BOOLEAN
  BY DEF FdState, FdTypeOK
<1>3. CASE floppy_change(p)
  BY <1>1, <1>2, <1>3 DEF floppy_change, Calls, OnlyProcess, deviceVars, Labels
<1>4. CASE Sleeps(p)
  BY <1>1, <1>2, <1>4 DEF Sleeps, Calls, OnlyProcess, deviceVars, Labels
<1>5. CASE Signal(p)
  BY <1>1, <1>2, <1>5 DEF Signal, Calls, OnlyProcess, deviceVars, Labels
<1> QED BY <1>3, <1>4, <1>5, FloppyOnRoundKeeps, SelectKeeps DEF FdProcess

\* A new request leaves CURRENT alone, or finds the controller at rest.
LEMMA FdNewRequestKeeps ==
  ASSUME ~NewInRecovery, FdState, FdNewRequest
  PROVE  FdState'
<1>1. PICK r \in NewRequest : AddRequest(r)
  BY DEF FdNewRequest
<1>2. /\ Requests' /\ running = "idle" /\ queue' # <<>>
      /\ IF queue = <<>> THEN running' = "request"
         ELSE running' = "idle" /\ CURRENT' = CURRENT
      /\ UNCHANGED <<reset, recalibrate>>
  BY <1>1, AddRequestKeeps DEF FdState
<1>3. ~ticking /\ (queue = <<>> => fdc = {}) /\ UNCHANGED fdVars
  BY DEF FdNewRequest, Recovering
<1>4. FdTypeOK'
  BY <1>3 DEF FdState, FdTypeOK, fdVars, dorVars, timerVars, driveVars, deviceVars
<1>5. CASE queue = <<>>
  <2>1. next_timer = <<>> /\ fdc = {} /\ ~selected
    BY <1>3, <1>5 DEF FdState, FdWorks, ForCurrent, Begun
  <2>2. FdWorks'
    BY <1>2, <1>3, <1>5, <2>1, Restarts DEF fdVars, dorVars, timerVars, deviceVars
  <2> QED BY <1>2, <1>4, <2>2 DEF FdState
<1>6. CASE queue # <<>>
  <2>1. running' = "idle" /\ CURRENT' = CURRENT
    BY <1>2, <1>6
  <2>2. OneThing'
    BY <1>2, <1>3, <1>6, <2>1
       DEF FdState, FdWorks, OneThing, fdVars, timerVars, deviceVars
  <2>3. ForCurrent'
    BY <1>2, <1>3, <1>6, <2>1
       DEF FdState, FdWorks, ForCurrent, Begun, Transferring, HandlesRequest,
           fdVars, dorVars, timerVars, driveVars, deviceVars
  <2>4. next_timer # <<>> => TimerOf(Head(next_timer))'
    BY <1>3, TimerStays DEF fdVars, dorVars, timerVars, driveVars
  <2>5. Motors'
    BY <1>3, <2>1, <2>4 DEF Motors, fdVars, timerVars
  <2> QED BY <1>2, <1>4, <2>2, <2>3, <2>5 DEF FdState, FdWorks
<1> QED BY <1>5, <1>6

\* Every step of the floppy driver and of those around it.
LEMMA FdNextKeeps ==
  ASSUME ~NewInRecovery, FdState, FdNext
  PROVE  FdState'
<1>1. ASSUME unexpected_floppy_interrupt \/ CalmsDown PROVE running = "idle"
  BY <1>1 DEF unexpected_floppy_interrupt, CalmsDown
<1> QED BY <1>1, FdNewRequestKeeps, FdRunsKeeps, FdClockKeeps, FdHandlerKeeps,
           UnexpectedKeeps, FdProcessKeeps DEF FdNext

-----------------------------------------------------------------------------
(* The three drivers together *)

\* Requests for the floppy come when the controller is at rest or at work on
\* another request, and not while it recovers with an empty queue.
NoneInRecovery == NewInRecovery => 2 \notin Major

\* The drivers begin with no request and nothing pending.
LEMMA InitIInv == Init => IInv
<1> SUFFICES ASSUME Init PROVE IInv
  OBVIOUS
<1>1. /\ queue = <<>> /\ running = "idle" /\ result = [r \in Id |-> "none"]
      /\ reset \in BOOLEAN /\ recalibrate \in BOOLEAN /\ major \in Major
      /\ HdInit /\ FdInit
  BY DEF Init
<1>2. Requests
  BY <1>1 DEF Requests, DriverTypeOK, NeverLies
<1>3. HdTypeOK /\ HdWorks /\ device.op = "none"
  BY <1>1, DriverAssumption DEF HdInit, NoCommand, Command, HdTypeOK, HdWorks
<1>4. FdTypeOK
  <2>1. /\ 0 \in 0..SpinUp /\ 0 \in 0..Forever
        /\ 0 \in Drive /\ nr \in [Process -> Drive]
    BY DriverAssumption, FloppyAssumption
  <2>2. /\ mon_timer \in [Drive -> 0..SpinUp] /\ moff_timer \in [Drive -> 0..Forever]
        /\ pc \in [Process -> {"user", "floppy_on", "sleep_motor", "wait_motor",
                              "select", "sleep_select", "wait_select", "done"}]
    BY <1>1, <2>1 DEF FdInit
  <2>3. current_DOR \in [drive : Drive, motors : SUBSET Drive] /\ next_timer \in Seq(Timer)
    BY <1>1, <2>1, EmptySeq DEF FdInit
  <2> QED BY <1>1, <2>1, <2>2, <2>3 DEF FdInit, FdTypeOK
<1>5. next_timer = <<>> /\ fdc = {} /\ ~ticking /\ ~selected
  BY <1>1 DEF FdInit
<1>6. FdWorks
  BY <1>1, <1>5, EmptySeq
     DEF FdWorks, OneThing, ForCurrent, Begun, Transferring, HandlesRequest, Motors
<1> QED BY <1>1, <1>2, <1>3, <1>4, <1>5, <1>6
        DEF IInv, TypeOK, Requests, OthersAreQuiet, RdInv, HdInv, FdInv

\* The ramdisk keeps the invariant.
LEMMA RdPart ==
  ASSUME IInv, major = 1, RdNext, UNCHANGED <<hdVars, fdVars, major>>
  PROVE  IInv'
<1>1. RdState /\ RdState'
  <2>1. RdState
    BY DEF IInv, TypeOK, RdState, Requests, OthersAreQuiet, RdInv
  <2> QED BY <2>1, RdNextKeeps
<1>2. HdTypeOK' /\ FdTypeOK'
  BY DEF IInv, TypeOK, HdTypeOK, FdTypeOK, hdVars, fdVars, dorVars, timerVars, driveVars,
         deviceVars
<1>3. OthersAreQuiet'
  BY <1>1 DEF IInv, OthersAreQuiet, RdState, hdVars, fdVars, dorVars, timerVars, deviceVars
<1> QED BY <1>1, <1>2, <1>3 DEF IInv, TypeOK, RdState, Requests, RdInv, HdInv, FdInv

\* The hard disk keeps the invariant.
LEMMA HdPart ==
  ASSUME IInv, major = 3, HdNext, UNCHANGED <<fdVars, major>>
  PROVE  IInv'
<1>1. HdState /\ HdState'
  <2>1. HdState
    BY DEF IInv, TypeOK, HdState, Requests, OthersAreQuiet, HdInv
  <2> QED BY <2>1, HdNextKeeps
<1>2. FdTypeOK'
  BY DEF IInv, TypeOK, FdTypeOK, fdVars, dorVars, timerVars, driveVars, deviceVars
<1>3. OthersAreQuiet'
  BY <1>1 DEF IInv, OthersAreQuiet, HdState, fdVars, dorVars, timerVars, deviceVars
<1> QED BY <1>1, <1>2, <1>3 DEF IInv, TypeOK, HdState, Requests, RdInv, HdInv, FdInv

\* The floppy keeps the invariant.
LEMMA FdPart ==
  ASSUME NoneInRecovery, IInv, major = 2, FdNext, UNCHANGED <<hdVars, major>>
  PROVE  IInv'
<1>1. FdState /\ FdState'
  <2>1. FdState
    BY DEF IInv, TypeOK, FdState, Requests, FdInv
  <2>2. ~NewInRecovery
    BY DEF NoneInRecovery, IInv, TypeOK
  <2> QED BY <2>1, <2>2, FdNextKeeps
<1>2. HdTypeOK'
  BY DEF IInv, TypeOK, HdTypeOK, hdVars
<1>3. OthersAreQuiet'
  BY DEF IInv, OthersAreQuiet, hdVars
<1> QED BY <1>1, <1>2, <1>3 DEF IInv, TypeOK, FdState, Requests, RdInv, HdInv, FdInv

\* Every step keeps the invariant.
LEMMA StepIInv ==
  ASSUME NoneInRecovery, IInv, [Next]_vars
  PROVE  IInv'
<1>1. CASE Next
  BY <1>1, RdPart, HdPart, FdPart DEF Next
<1>2. CASE UNCHANGED vars
  <2>1. CURRENT' = CURRENT
    BY <1>2 DEF CURRENT, vars, driverVars
  <2>2. TypeOK'
    BY <1>2 DEF IInv, TypeOK, DriverTypeOK, HdTypeOK, FdTypeOK, vars, driverVars, hdVars,
                fdVars, dorVars, timerVars, driveVars, deviceVars
  <2>3. HdInv' /\ RdInv' /\ OthersAreQuiet' /\ NeverLies'
    BY <1>2, <2>1 DEF IInv, HdInv, HdWorks, RdInv, OthersAreQuiet, NeverLies, vars, driverVars,
                      hdVars, fdVars, dorVars, timerVars, deviceVars
  <2>4. FdInv'
    <3>1. OneThing' <=> OneThing
      BY <1>2 DEF OneThing, vars, driverVars, fdVars, timerVars, deviceVars
    <3>2. ForCurrent' <=> ForCurrent
      BY <1>2, <2>1 DEF ForCurrent, Begun, Transferring, HandlesRequest, vars, driverVars,
                        fdVars, dorVars, timerVars, driveVars, deviceVars
    <3>3. Motors' <=> Motors
      BY <1>2 DEF Motors, TimerOf, MotorFor, StaysOn, vars, driverVars,
                  fdVars, dorVars, timerVars, driveVars
    <3> QED BY <1>2, <3>1, <3>2, <3>3 DEF IInv, FdInv, FdWorks, vars
  <2> QED BY <1>2, <2>2, <2>3, <2>4 DEF IInv, vars, driverVars
<1> QED BY <1>1, <1>2

\* The invariant that the theorems follow from.
LEMMA IInvInvariant == NoneInRecovery /\ Spec => []IInv
<1>1. NoneInRecovery /\ IInv /\ [Next]_vars => IInv'
  BY StepIInv
<1>2. NoneInRecovery => NoneInRecovery'
  BY DEF NoneInRecovery
<1> QED BY InitIInv, <1>1, <1>2, PTL DEF Spec

\* What a driver says it has transferred it has transferred, whatever errors,
\* resets and other requests came in between: end_request(1) of blk.h:109-125
\* is called for the request the last command was given for.
THEOREM DriversNeverLie == NoneInRecovery /\ Spec => []NeverLies
<1>1. IInv => NeverLies
  BY DEF IInv
<1> QED BY <1>1, IInvInvariant, PTL

\* A command or a timer, and not both, is one thing.
LEMMA OneIsWaitedFor == IInv => WaitsForOneThing
<1> SUFFICES ASSUME IInv PROVE WaitsForOneThing
  OBVIOUS
<1>1. TypeOK
  BY DEF IInv
<1>2. Cardinality({}) = 0 /\ \A c : Cardinality({c}) = 1
  BY FS_EmptySet, FS_Singleton
<1>3. /\ next_timer \in Seq(Timer) /\ Len(next_timer) \in Nat
      /\ Len(next_timer) = 0 <=> next_timer = <<>>
  BY <1>1, EmptySeq, LenProperties DEF TypeOK, FdTypeOK
<1>4. CASE major = 2
  <2>1. OneThing
    BY <1>4 DEF IInv, FdInv, FdWorks
  <2>2. Cardinality(fdc) = IF fdc = {} THEN 0 ELSE 1
    BY <1>2, <2>1 DEF OneThing
  <2>3. Waits = Cardinality(fdc) + Len(next_timer)
    BY <1>4 DEF Waits
  <2> QED BY <1>1, <1>3, <2>1, <2>2, <2>3 DEF WaitsForOneThing, OneThing
<1>5. CASE major # 2
  <2>1. Waits = IF device.op # "none" THEN 1 ELSE 0
    BY <1>3, <1>5 DEF Waits, IInv, OthersAreQuiet
  <2>2. running = "idle" => (queue # <<>> <=> device.op # "none")
    BY <1>1, <1>5, DriversAssumption
       DEF IInv, TypeOK, OthersAreQuiet, RdInv, HdInv, HdWorks
  <2> QED BY <1>1, <2>1, <2>2 DEF WaitsForOneThing
<1> QED BY <1>4, <1>5

\* There is no timeout in any driver: a driver with requests that has returned
\* waits for one interrupt or one timer, never for none and never for two.
THEOREM DriversWaitForOneThing == NoneInRecovery /\ Spec => []WaitsForOneThing
BY OneIsWaitedFor, IInvInvariant, PTL

\* What has begun for CURRENT has its drive selected and its motor on.
LEMMA DriveIsSetUp == IInv => SetUpForTransfer
<1> SUFFICES ASSUME IInv PROVE SetUpForTransfer
  OBVIOUS
<1>1. CASE major = 2
  <2>1. ForCurrent /\ Motors
    BY <1>1 DEF IInv, FdInv, FdWorks
  <2> QED BY <2>1 DEF SetUpForTransfer, ForCurrent, Begun, Transferring, Motors, MotorFor
<1>2. CASE major # 2
  BY <1>2, DriversAssumption DEF IInv, TypeOK, OthersAreQuiet, SetUpForTransfer
<1> QED BY <1>1, <1>2

\* transfer() of floppy.c:309-338 is called when "the floppy motor is on and the
\* correct floppy is selected", and a selected drive has a request to serve:
\* for any processes in floppy_change() that turn motors on and off meanwhile.
THEOREM TransfersAreSetUp == NoneInRecovery /\ Spec => []SetUpForTransfer
BY DriveIsSetUp, IInvInvariant, PTL
==============================================================================
