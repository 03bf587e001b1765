----------------------------- MODULE CoreProofs -----------------------------
(***************************************************************************)
(* What the camera example, preprocessing and the benchmark do, for every   *)
(* number of frames, every image, input and box, and every number of        *)
(* measured calls.                                                          *)
(*                                                                          *)
(* The camera example: the statistics and the slot are tied to the capture  *)
(* thread's frame counter; with that link the invariants are inductive.     *)
(*                                                                          *)
(* Preprocessing: a rounded size is half a unit off at most, the positions  *)
(* of an axis that are not padded are an interval as long as the resized    *)
(* axis, and the pixels written so far are the rows above the cursor and    *)
(* the cells before it.                                                     *)
(*                                                                          *)
(* The benchmark: the counters of the two loops count the calls and the     *)
(* samples, only the last call can be late, and the percentiles of a sorted *)
(* list interpolate between neighbours of it, from the first to the last.   *)
(***************************************************************************)
EXTENDS CameraDetection, Preprocess, Benchmark, SubsequencesProofs

-----------------------------------------------------------------------------
(* The camera example *)

\* Between two pushes every frame read was accepted; at a push it is the next.
FrameIds ==
    /\ statistics.captured <= frameId
    /\ capturePc \in {"loop", "read", "notify"} => statistics.captured = frameId
    /\ capturePc = "push" => frameId = statistics.captured + 1
    /\ current <= statistics.captured

\* The main thread sleeps only inside waitAndTake and stops for good.
MainOrder ==
    /\ mainPc # "take" => sleeping = {}
    /\ mainPc \in {"closeNotify", "join", "returned"} => closed
    /\ mainPc = "returned" => capturePc = "exited"

IInv == /\ TypeOK
        /\ FrameIds
        /\ MainOrder
        /\ FramesAccounted
        /\ SlotIsNewest
        /\ NoLostWakeup

-----------------------------------------------------------------------------

\* The initial state of the two threads and the empty buffer is a good one.
LEMMA InitIInv == Init => IInv
<1> SUFFICES ASSUME Init PROVE IInv
  OBVIOUS
<1> USE DEF Init, BufferInit, NoFrame
<1>1. TypeOK
  BY DEF TypeOK, CapturePcs, MainPcs
<1>2. FrameIds /\ MainOrder /\ FramesAccounted
  BY DEF FrameIds, MainOrder, FramesAccounted, Occupied
<1>3. SlotIsNewest /\ NoLostWakeup
  BY DEF SlotIsNewest, NoLostWakeup
<1> QED BY <1>1, <1>2, <1>3 DEF IInv

\* Every step of the capture thread keeps the invariant.
LEMMA CaptureKeepsIInv == ASSUME IInv, Capture PROVE IInv'
<1> USE DEF IInv, TypeOK, CapturePcs, MainPcs, FrameIds, MainOrder, FramesAccounted,
            SlotIsNewest, NoLostWakeup, NoFrame,
            captureVars, mainVars, bufferVars
<1>1. CASE CaptureTestStop
  BY <1>1 DEF CaptureTestStop, Occupied
<1>2. CASE CaptureRead
  BY <1>2 DEF CaptureRead, Occupied
<1>3. CASE CaptureReadFails
  BY <1>3 DEF CaptureReadFails, Occupied
<1>4. CASE CapturePush
  <2>1. CASE PushAccepted(frameId) /\ capturePc' = "notify"
    BY <1>4, <2>1 DEF CapturePush, PushAccepted, Occupied
  <2>2. CASE PushRefused /\ capturePc' = "close"
    BY <1>4, <2>2 DEF CapturePush, PushRefused, Occupied
  <2> QED BY <1>4, <2>1, <2>2 DEF CapturePush
<1>5. CASE CaptureNotify
  BY <1>5 DEF CaptureNotify, NotifyOne, Occupied
<1>6. CASE CaptureClose
  BY <1>6 DEF CaptureClose, Close, Occupied
<1>7. CASE CaptureCloseNotify
  BY <1>7 DEF CaptureCloseNotify, NotifyAll, Occupied
<1> QED BY <1>1, <1>2, <1>3, <1>4, <1>5, <1>6, <1>7 DEF Capture

\* Every step of the main thread keeps it.
LEMMA MainKeepsIInv == ASSUME IInv, Main \/ MainSpuriousWakeup PROVE IInv'
<1> USE DEF IInv, TypeOK, CapturePcs, MainPcs, FrameIds, MainOrder, FramesAccounted,
            SlotIsNewest, NoLostWakeup, NoFrame,
            captureVars, mainVars, bufferVars
<1>1. CASE MainTake
  BY <1>1 DEF MainTake, Take, Occupied
<1>2. CASE MainSleep
  BY <1>2 DEF MainSleep, FallAsleep, Occupied
<1>3. CASE MainCancelled
  BY <1>3 DEF MainCancelled, Cancelled, Occupied
<1>4. CASE MainProcess
  BY <1>4 DEF MainProcess, Occupied
<1>5. CASE MainStop
  BY <1>5 DEF MainStop, Occupied
<1>6. CASE MainClose
  BY <1>6 DEF MainClose, Close, Occupied
<1>7. CASE MainCloseNotify
  BY <1>7 DEF MainCloseNotify, NotifyAll, Occupied
<1>8. CASE MainJoin
  BY <1>8 DEF MainJoin, Occupied
<1>9. CASE MainSpuriousWakeup
  BY <1>9 DEF MainSpuriousWakeup, SpuriousWakeup, Occupied
<1> QED BY <1>1, <1>2, <1>3, <1>4, <1>5, <1>6, <1>7, <1>8, <1>9 DEF Main

\* The invariant holds in every reachable state.
LEMMA Inductive == Spec => []IInv
<1>1. IInv /\ UNCHANGED vars => IInv'
  BY DEF vars, bufferVars, IInv, TypeOK, FrameIds, MainOrder, FramesAccounted,
         Occupied, SlotIsNewest, NoLostWakeup
<1>2. IInv /\ [Next]_vars => IInv'
  BY <1>1, CaptureKeepsIInv, MainKeepsIInv DEF Next, Terminated
<1> QED BY InitIInv, <1>2, PTL DEF Spec

-----------------------------------------------------------------------------

\* Types, for every number of frames.
THEOREM TypeCorrect == Spec => []TypeOK
BY Inductive, PTL DEF IInv

\* No accepted frame is lost from the statistics.
THEOREM FramesCorrect == Spec => []FramesAccounted
BY Inductive, PTL DEF IInv

\* None is left in a closed buffer, and the slot always holds a frame newer than
\* any taken before.
THEOREM SlotCorrect == Spec => []SlotIsNewest
BY Inductive, PTL DEF IInv

\* The main thread never sleeps through the event it waits for.
THEOREM WakeupsCorrect == Spec => []NoLostWakeup
BY Inductive, PTL DEF IInv

\* The buffer is destroyed only after the last use of it.
THEOREM DestructionCorrect == Spec => []DestroyedUnused
<1>1. IInv => DestroyedUnused
  BY DEF IInv, MainOrder, DestroyedUnused
<1> QED BY Inductive, <1>1, PTL

\* The two threads and the buffer implement the latest-value mailbox: a push is
\* a Send, a take a Deliver, a close a Discard, and all the rest stutters.
THEOREM ImplementsMailbox == Spec => DeliversNewest
<1> USE DEF Mailbox!nvVars, NoFrame
<1>1. Init => Mailbox!NVInit
  BY DEF Init, BufferInit, Mailbox!NVInit
<1>2. ASSUME IInv, Next
      PROVE  [Mailbox!Send \/ Mailbox!Deliver \/ Mailbox!Discard]_(Mailbox!nvVars)
  <2> USE <1>2 DEF bufferVars, captureVars, mainVars
  <2>1. CASE CapturePush
    <3>1. CASE PushAccepted(frameId) /\ capturePc' = "notify"
      BY <2>1, <3>1 DEF CapturePush, PushAccepted, Mailbox!Send, IInv, TypeOK, FrameIds
    <3>2. CASE PushRefused /\ capturePc' = "close"
      BY <2>1, <3>2 DEF CapturePush, PushRefused
    <3> QED BY <2>1, <3>1, <3>2 DEF CapturePush
  <2>2. CASE MainTake
    BY <2>2 DEF MainTake, Take, Mailbox!Deliver, IInv, TypeOK, SlotIsNewest
  <2>3. CASE CaptureClose \/ MainClose
    BY <2>3 DEF CaptureClose, MainClose, Close, Mailbox!Discard, IInv, TypeOK
  <2>4. CASE CaptureTestStop \/ CaptureRead \/ CaptureReadFails
    BY <2>4 DEF CaptureTestStop, CaptureRead, CaptureReadFails
  <2>5. CASE CaptureNotify \/ CaptureCloseNotify \/ MainCloseNotify
    BY <2>5 DEF CaptureNotify, CaptureCloseNotify, MainCloseNotify, NotifyOne, NotifyAll
  <2>6. CASE MainSleep \/ MainSpuriousWakeup \/ MainCancelled
    BY <2>6 DEF MainSleep, MainSpuriousWakeup, MainCancelled,
                FallAsleep, SpuriousWakeup, Cancelled
  <2>7. CASE MainProcess \/ MainStop \/ MainJoin \/ Terminated
    BY <2>7 DEF MainProcess, MainStop, MainJoin, Terminated, vars
  <2> QED BY <2>1, <2>2, <2>3, <2>4, <2>5, <2>6, <2>7 DEF Next, Capture, Main
<1>3. UNCHANGED vars => UNCHANGED Mailbox!nvVars
  BY DEF vars, bufferVars
<1>4. IInv /\ [Next]_vars
        => [Mailbox!Send \/ Mailbox!Deliver \/ Mailbox!Discard]_(Mailbox!nvVars)
  BY <1>2, <1>3
<1> QED BY <1>1, <1>4, Inductive, PTL DEF Spec, DeliversNewest, Mailbox!NVSpec

-----------------------------------------------------------------------------
(* The geometry of preprocessing *)

GoodAxis(a) == a.original \in Nat \ {0} /\ a.network \in Nat \ {0} /\ a.resized \in 1..a.network

\* Rounding moves by half a unit at most.
LEMMA RoundedNear ==
  ASSUME NEW n \in Nat, NEW d \in Nat \ {0}, NEW r \in Rounded(n, d)
  PROVE  r \in Int /\ 2 * d * r - 2 * n <= d /\ -d <= 2 * d * r - 2 * n
<1> DEFINE t == 2 * n + d
           e == 2 * d
           q == t \div e
           m == t % e
<1>1. e \in Nat \ {0} /\ t \in Nat
  OBVIOUS
<1>2. q \in Int /\ e * q <= 2 * n + d /\ 2 * n + d < e * q + e /\ 2 * n + d = e * q + m
  <2>1. \A a \in Int, b \in Nat \ {0} :
           /\ a \div b \in Int /\ b * (a \div b) <= a /\ a < b * (a \div b) + b
           /\ a = b * (a \div b) + (a % b)
    OBVIOUS
  <2>2. q \in Int /\ e * q <= t /\ t < e * q + e /\ t = e * q + m
    <3> HIDE DEF e, t
    <3> QED BY <1>1, <2>1
  <2> QED BY <2>2
<1>3. r = q \/ (r = q - 1 /\ m = 0)
  BY DEF Rounded
<1> HIDE DEF q, m
<1>4. CASE r = q
  <2>1. e * q = 2 * d * r
    BY <1>2, <1>4
  <2> QED BY <1>2, <1>4, <2>1
<1>5. CASE r = q - 1 /\ m = 0
  <2>1. e * (q - 1) = e * q - e /\ e * q \in Int
    BY <1>1, <1>2
  <2>2. 2 * d * r = e * q - e
    BY <1>2, <1>5, <2>1
  <2> QED BY <1>1, <1>2, <1>5, <2>1, <2>2
<1> QED BY <1>3, <1>4, <1>5

\* A whole number is not moved.
LEMMA RoundedWhole ==
  ASSUME NEW k \in Nat, NEW d \in Nat \ {0}, NEW r \in Rounded(d * k, d)
  PROVE  r = k
<1>1. r \in Int /\ 2 * d * r - 2 * (d * k) <= d /\ -d <= 2 * d * r - 2 * (d * k)
  <2>1. d * k \in Nat
    OBVIOUS
  <2> QED BY <2>1, RoundedNear
<1>2. 2 * d * r - 2 * (d * k) = d * (2 * (r - k))
  BY <1>1
<1>3. CASE r - k >= 1
  <2>1. d * 2 <= d * (2 * (r - k))
    BY <1>1, <1>3
  <2> QED BY <1>1, <1>2, <2>1
<1>4. CASE r - k <= -1
  <2>1. d * (2 * (r - k)) <= d * (-2)
    BY <1>1, <1>4
  <2> QED BY <1>1, <1>2, <2>1
<1> QED BY <1>1, <1>3, <1>4

\* The unpadded positions of an axis are as many as the resized image has.
LEMMA UnpaddedCount ==
  ASSUME NEW a, GoodAxis(a)
  PROVE  LET U == {x \in 0..(a.network - 1) : ~Padded(a, x)}
         IN  IsFiniteSet(U) /\ Cardinality(U) = a.resized
<1> DEFINE U == {x \in 0..(a.network - 1) : ~Padded(a, x)}
           r == a.resized
           p == a.network - a.resized
           m == p \div 2
<1>1. r \in Nat \ {0} /\ p \in Nat /\ a.network = p + r /\ TwicePad(a) = p
  BY DEF GoodAxis, TwicePad
<1>2. m \in Nat /\ (p = 2 * m \/ p = 2 * m + 1)
  BY <1>1
<1>3. U = {x \in 0..(p + r - 1) : 2 * x >= p /\ 2 * x < p + 2 * r}
  BY <1>1 DEF Padded
<1> HIDE DEF U, r, p, m
<1>4. \A i, j \in Int : i <= j => IsFiniteSet(i..j) /\ Cardinality(i..j) = j - i + 1
  BY FS_Interval
<1>5. ASSUME p = 2 * m PROVE IsFiniteSet(U) /\ Cardinality(U) = r
  <2>1. ASSUME NEW x PROVE x \in U <=> x \in m..(m + r - 1)
    BY <1>1, <1>2, <1>3, <1>5
  <2>2. U = m..(m + r - 1)
    BY <2>1
  <2>3. m \in Int /\ m + r - 1 \in Int /\ m <= m + r - 1 /\ (m + r - 1) - m + 1 = r
    BY <1>1, <1>2
  <2> QED BY <1>4, <2>2, <2>3
<1>6. ASSUME p = 2 * m + 1 PROVE IsFiniteSet(U) /\ Cardinality(U) = r
  <2>1. ASSUME NEW x PROVE x \in U <=> x \in (m + 1)..(m + r)
    BY <1>1, <1>2, <1>3, <1>6
  <2>2. U = (m + 1)..(m + r)
    BY <2>1
  <2>3. m + 1 \in Int /\ m + r \in Int /\ m + 1 <= m + r /\ (m + r) - (m + 1) + 1 = r
    BY <1>1, <1>2
  <2> QED BY <1>4, <2>2, <2>3
<1>7. IsFiniteSet(U) /\ Cardinality(U) = r
  BY <1>2, <1>5, <1>6
<1> QED BY <1>7 DEF U, r

\* A letterboxed axis that is scaled by n / d, which is at most its own ratio.
LEMMA ScaledFits ==
  ASSUME NEW original \in Nat \ {0}, NEW network \in Nat \ {0}, NEW n \in Nat \ {0}, NEW d \in Nat \ {0},
         original * n <= network * d, NEW r \in Rounded(original * n, d)
  PROVE  /\ Larger(1, r) \in 1..network
         /\ \/ Larger(1, r) = 1
            \/ 2 * d * Larger(1, r) - 2 * original * n \in -d..d
<1> DEFINE w == original * n
<1>1. w \in Nat /\ w <= network * d
  OBVIOUS
<1>2. r \in Int /\ 2 * d * r - 2 * w <= d /\ -d <= 2 * d * r - 2 * w
  <2> HIDE DEF w
  <2>1. r \in Rounded(w, d)
    BY DEF w
  <2> QED BY <1>1, <2>1, RoundedNear
<1>3. 2 * original * n = 2 * w
  OBVIOUS
<1> HIDE DEF w
<1>4. r <= network
  <2> SUFFICES ASSUME r >= network + 1 PROVE FALSE
    BY <1>2
  <2>1. d * (network + 1) <= d * r
    BY <1>2
  <2>2. d * (network + 1) = network * d + d /\ 2 * d * r = 2 * (d * r) /\ d * r \in Int /\ network * d \in Int
    BY <1>2
  <2> QED BY <1>1, <1>2, <2>1, <2>2
<1>5. Larger(1, r) \in 1..network /\ (Larger(1, r) = 1 \/ Larger(1, r) = r)
  BY <1>2, <1>4 DEF Larger
<1>6. 2 * d * r - 2 * original * n \in -d..d
  BY <1>2, <1>3, <1>1
<1> QED BY <1>5, <1>6

\* A cell of a grid and its number, row by row.
LEMMA Cells ==
  ASSUME NEW w \in Nat \ {0}, NEW h \in Nat, NEW c \in Nat
  PROVE  /\ c % w \in 0..(w - 1) /\ c \div w \in Nat /\ c = w * (c \div w) + (c % w)
         /\ \A x \in 0..(w - 1), y \in Nat : w * y + x = c => x = c % w /\ y = c \div w
         /\ c < w * h => c \div w \in 0..(h - 1)
<1> DEFINE m == c % w
           q == c \div w
<1>1. m \in 0..(w - 1) /\ q \in Nat /\ c = w * q + m
  OBVIOUS
<1> HIDE DEF m, q
<1>2. \A a, b \in Int : w * a < w * b + w => a <= b
  OBVIOUS
<1>3. ASSUME NEW x \in 0..(w - 1), NEW y \in Nat, w * y + x = c PROVE x = m /\ y = q
  <2>1. w * y \in Int /\ w * q \in Int
    BY <1>1
  <2>2. w * y < w * q + w /\ w * q < w * y + w
    BY <1>1, <1>3, <2>1
  <2>3. y = q
    BY <1>1, <1>2, <2>2
  <2>4. w * y = w * q
    BY <2>3
  <2> QED BY <1>1, <1>3, <2>1, <2>3, <2>4
<1>4. ASSUME c < w * h PROVE q \in 0..(h - 1)
  <2>1. w * h = w * (h - 1) + w /\ w * (h - 1) \in Int /\ w * q \in Int
    BY <1>1
  <2>2. w * q < w * (h - 1) + w
    BY <1>1, <1>4, <2>1
  <2>3. q <= h - 1
    BY <1>1, <1>2, <2>2
  <2> QED BY <1>1, <2>3
<1>5. /\ m \in 0..(w - 1) /\ q \in Nat /\ c = w * q + m
      /\ \A x \in 0..(w - 1), y \in Nat : w * y + x = c => x = m /\ y = q
      /\ c < w * h => q \in 0..(h - 1)
  BY <1>1, <1>3, <1>4
<1> QED BY <1>5 DEF m, q

\* Sampling stays between the first and the last pixel of an axis.
LEMMA NeighboursInImage ==
  ASSUME NEW a, GoodAxis(a), NEW x \in Nat
  PROVE  Neighbours(a, x) \subseteq 0..(a.original - 1) /\ Neighbours(a, x) # {}
<1> DEFINE o == a.original
           e == 2 * a.resized
           c == Clamped(a, x)
           first == c \div e
<1>1. o \in Nat \ {0} /\ a.resized \in Nat \ {0} /\ a.network \in Nat \ {0} /\ e \in Nat \ {0}
  BY DEF GoodAxis
<1>2. Source(a, x) \in Int
  BY <1>1 DEF Source, TwicePad
<1>3. e * (o - 1) \in Nat
  BY <1>1
<1>4. c \in 0..(e * (o - 1))
  <2>1. c = Between(0, Source(a, x), e * (o - 1))
    BY DEF Clamped
  <2> DEFINE s == Source(a, x)
             k == e * (o - 1)
  <2> HIDE DEF s, k, c
  <2>2. s \in Int /\ k \in Nat /\ c = Between(0, s, k)
    BY <1>2, <1>3, <2>1 DEF s, k
  <2>3. c \in 0..k
    BY <2>2 DEF Between, Larger, Smaller
  <2> QED BY <2>3 DEF k
<1>5. first \in 0..(o - 1)
  <2> HIDE DEF c, e, o
  <2>1. /\ c \in Nat /\ c <= e * (o - 1) /\ c < e * (o - 1) + e
    BY <1>1, <1>3, <1>4
  <2>2. e * o = e * (o - 1) + e
    BY <1>1
  <2>3. c < e * o
    BY <2>1, <2>2
  <2>4. c \div e \in 0..(o - 1)
    <3>1. o \in Nat
      BY <1>1
    <3>2. c \in Nat
      BY <2>1
    <3> QED BY <1>1, <2>3, <3>1, <3>2, Cells, Zenon
  <2> QED BY <2>4
<1>6. Neighbours(a, x) = {first, Smaller(first + 1, o - 1)}
  BY DEF Neighbours
<1> HIDE DEF first, o
<1> QED BY <1>1, <1>5, <1>6 DEF Smaller, o

\* Where a box coordinate comes back to: a padded position to an edge, a sampled one
\* around the place it was sampled at.
LEMMA RestoredAroundSource ==
  ASSUME NEW a, GoodAxis(a), NEW x \in 0..(a.network - 1)
  PROVE  IF Padded(a, x)
           THEN 2 * x + 2 <= TwicePad(a) \/ 2 * x >= TwicePad(a) + 2 * a.resized => Restored(a, x) = Restored(a, x + 1)
           ELSE /\ Restored(a, x) < Restored(a, x + 1)
                /\ Source(a, x) + a.resized \in Restored(a, x)..Restored(a, x + 1)
<1> DEFINE o == a.original
           r == a.resized
           p == TwicePad(a)
           k == 2 * x - p
           top == 2 * r * o
<1>1. o \in Nat \ {0} /\ r \in Nat \ {0} /\ p \in Int /\ k \in Int
  BY DEF GoodAxis, TwicePad
<1>2. /\ Restored(a, x) = Between(0, k * o, top)
      /\ 2 * (x + 1) - p = k + 2
      /\ Restored(a, x + 1) = Between(0, (k + 2) * o, top)
  <2>1. 2 * (x + 1) - p = k + 2
    BY <1>1
  <2>2. Restored(a, x + 1) = Between(0, (2 * (x + 1) - p) * o, top)
    BY DEF Restored
  <2>3. Restored(a, x) = Between(0, k * o, top)
    BY DEF Restored
  <2> QED BY <2>1, <2>2, <2>3
<1>3. Source(a, x) + r = (k + 1) * o
  <2>1. Source(a, x) = (k + 1) * o - r
    BY DEF Source
  <2>2. (k + 1) * o \in Int
    BY <1>1
  <2> QED BY <1>1, <2>1, <2>2
<1>4. /\ Padded(a, x) <=> k < 0 \/ k >= 2 * r
      /\ 2 * x + 2 <= p <=> k + 2 <= 0
      /\ 2 * x >= p + 2 * r <=> k >= 2 * r
  BY <1>1 DEF Padded
<1> HIDE DEF o, r, p, k
<1>5. /\ k * o \in Int /\ (k + 1) * o \in Int /\ (k + 2) * o \in Int /\ top \in Nat
      /\ k * o < (k + 1) * o /\ (k + 1) * o < (k + 2) * o
  <2>1. (k + 1) * o = k * o + o /\ (k + 2) * o = k * o + 2 * o /\ k * o \in Int
    BY <1>1
  <2> QED BY <1>1, <2>1
<1> DEFINE Ordered(j) == /\ j <= 0 => j * o <= 0
                         /\ j >= 0 => j * o >= 0
                         /\ j >= 2 * r => j * o >= top
                         /\ j <= 2 * r => j * o <= top
                         /\ j < 2 * r => j * o < top
<1>6. Ordered(k) /\ Ordered(k + 1) /\ Ordered(k + 2)
  <2>1. ASSUME NEW j \in Int PROVE Ordered(j)
    BY <1>1
  <2>2. k \in Int /\ k + 1 \in Int /\ k + 2 \in Int
    BY <1>1
  <2> HIDE DEF Ordered
  <2> QED BY <2>1, <2>2
<1> HIDE DEF top
<1>7. \A u \in Int : Between(0, u, top) = IF u <= 0 THEN 0 ELSE IF u >= top THEN top ELSE u
  BY <1>5 DEF Between, Larger, Smaller
<1> DEFINE u == k * o
           v == (k + 1) * o
           w == (k + 2) * o
<1>8. CASE Padded(a, x)
  <2> SUFFICES ASSUME k + 2 <= 0 \/ k >= 2 * r PROVE Restored(a, x) = Restored(a, x + 1)
    BY <1>4, <1>8 DEF p, r
  <2>1. (u <= 0 /\ w <= 0) \/ (u >= top /\ w >= top)
    BY <1>1, <1>6
  <2>2. u \in Int /\ w \in Int
    BY <1>5
  <2>3. Restored(a, x) = Between(0, u, top) /\ Restored(a, x + 1) = Between(0, w, top)
    BY <1>2
  <2> HIDE DEF u, w
  <2> QED BY <1>5, <1>7, <2>1, <2>2, <2>3
<1>9. CASE ~Padded(a, x)
  <2>1. k >= 0 /\ k < 2 * r /\ k + 1 <= 2 * r
    BY <1>1, <1>4, <1>9
  <2>2. u >= 0 /\ u < top /\ v <= top
    BY <1>1, <1>6, <2>1
  <2>3. u \in Int /\ v \in Int /\ w \in Int /\ u < v /\ v < w
    BY <1>5
  <2>4. Restored(a, x) = Between(0, u, top) /\ Restored(a, x + 1) = Between(0, w, top) /\ Source(a, x) + r = v
    BY <1>2, <1>3
  <2> HIDE DEF u, v, w
  <2>5. Restored(a, x) = u /\ Restored(a, x + 1) \in {top, w} /\ Restored(a, x + 1) >= v
    BY <1>5, <1>7, <2>2, <2>3, <2>4
  <2>6. Restored(a, x) < Restored(a, x + 1) /\ Source(a, x) + r \in Restored(a, x)..Restored(a, x + 1)
    BY <1>5, <2>2, <2>3, <2>4, <2>5
  <2> QED BY <1>9, <2>6 DEF r
<1> QED BY <1>8, <1>9

-----------------------------------------------------------------------------
(* The runs of preprocessing *)

Unpadded(a) == {x \in 0..(a.network - 1) : ~Padded(a, x)}
SampledUpTo(t, c) == {at \in Unpadded(t.width) \X Unpadded(t.height) : t.width.network * at[2] + at[1] < c}

\* One axis of the transform fills the input and the other keeps the ratio with it.
FillsWithRatio(t) ==
    \E a \in {t.width, t.height} :
        /\ a.resized = a.network
        /\ \A b \in {t.width, t.height} :
              b.resized = 1 \/ 2 * a.original * b.resized - 2 * b.original * a.resized \in -a.original..a.original

\* The transform is of this image and this input.
TransformIsOf(t, r) ==
    /\ t.width.original = r.width /\ t.width.network = r.inWidth
    /\ t.height.original = r.height /\ t.height.network = r.inHeight
    /\ r.letterbox => FillsWithRatio(t)

PreInv ==
    /\ request \in Requests
    /\ stage \in {"check", "resize", "fill", "done", "error"}
    /\ cursor \in Nat
    /\ GoodAxis(transform.width) /\ GoodAxis(transform.height)
    /\ stage \in {"resize", "fill", "done"} => ImageValid /\ InputValid
    /\ ~Resized => cursor = 0 /\ sampled = {}
    /\ Resized => /\ TransformIsOf(transform, request)
                  /\ cursor <= request.inWidth * request.inHeight
                  /\ sampled = SampledUpTo(transform, cursor)
    /\ stage = "done" => cursor = request.inWidth * request.inHeight

\* The initial state satisfies the invariant.
LEMMA PreInitInv == PreInit => PreInv
<1> SUFFICES ASSUME PreInit PROVE PreInv
  OBVIOUS
<1>1. GoodAxis(NoTransform.width) /\ GoodAxis(NoTransform.height)
  BY DEF NoTransform, Axis, GoodAxis
<1> QED BY <1>1 DEF PreInit, PreInv, Resized

\* What a request that has passed the checks looks like.
LEMMA CheckedRequest ==
  ASSUME PreInv, stage \in {"resize", "fill", "done"}
  PROVE  /\ request.width \in Nat \ {0} /\ request.height \in Nat \ {0}
         /\ request.inWidth \in Nat \ {0} /\ request.inHeight \in Nat \ {0}
         /\ request.payload = request.width * request.height * 3
         /\ request.letterbox \in BOOLEAN
<1>1. ImageValid /\ InputValid /\ RequestOK(request)
  BY RequestsAssumption DEF PreInv
<1>2. request.inWidth \in 1..LargestInput /\ request.inHeight \in 1..LargestInput
  BY <1>1 DEF InputValid
<1>3. request.inWidth > 0 /\ request.inHeight > 0
  <2>1. \A limit : \A k \in 1..limit : k > 0
    OBVIOUS
  <2> QED BY <1>2, <2>1
<1> QED BY <1>1, <1>3 DEF ImageValid, RequestOK

\* The transform keeps the ratio, whichever axis is the tighter one.
LEMMA ResizeKeepsInv ==
  ASSUME PreInv, Resize
  PROVE  PreInv'
<1> DEFINE w == request.width
           h == request.height
           inW == request.inWidth
           inH == request.inHeight
<1>1. /\ w \in Nat \ {0} /\ h \in Nat \ {0} /\ inW \in Nat \ {0} /\ inH \in Nat \ {0}
      /\ request.letterbox \in BOOLEAN
  BY CheckedRequest DEF Resize
<1>2. ASSUME request.letterbox
      PROVE  \E t : /\ transform' = t /\ GoodAxis(t.width) /\ GoodAxis(t.height)
                    /\ TransformIsOf(t, request)
  <2>1. CASE inW * h <= inH * w
    <3>1. PICK rw \in Rounded(w * inW, w), rh \in Rounded(h * inW, w) :
             transform' = [width |-> Axis(w, inW, Larger(1, rw)), height |-> Axis(h, inH, Larger(1, rh))]
      BY <1>2, <2>1 DEF Resize
    <3>2. rw = inW /\ Larger(1, rw) = inW
      BY <1>1, RoundedWhole DEF Larger
    <3> DEFINE r == Larger(1, rh)
    <3>3. r \in 1..inH /\ (r = 1 \/ 2 * w * r - 2 * h * inW \in -w..w)
      <4>1. h * inW <= inH * w
        BY <1>1, <2>1
      <4> QED BY <1>1, <4>1, ScaledFits
    <3> DEFINE a == Axis(w, inW, inW)
               b == Axis(h, inH, r)
               t == [width |-> a, height |-> b]
    <3>4. transform' = t
      BY <3>1, <3>2
    <3> HIDE DEF w, h, inW, inH, r
    <3>5. GoodAxis(a) /\ GoodAxis(b)
      BY <1>1, <3>3 DEF GoodAxis, Axis
    <3>6. 2 * w * inW - 2 * w * inW \in -w..w
      BY <1>1
    <3>7. FillsWithRatio(t)
      BY <3>3, <3>6 DEF FillsWithRatio, Axis
    <3>8. TransformIsOf(t, request)
      BY <3>7 DEF TransformIsOf, Axis, w, h, inW, inH
    <3> HIDE DEF a, b
    <3>9. GoodAxis(t.width) /\ GoodAxis(t.height)
      BY <3>5
    <3> QED BY <3>4, <3>8, <3>9
  <2>2. CASE ~(inW * h <= inH * w)
    <3>1. PICK rw \in Rounded(w * inH, h), rh \in Rounded(h * inH, h) :
             transform' = [width |-> Axis(w, inW, Larger(1, rw)), height |-> Axis(h, inH, Larger(1, rh))]
      BY <1>2, <2>2 DEF Resize
    <3>2. rh = inH /\ Larger(1, rh) = inH
      BY <1>1, RoundedWhole DEF Larger
    <3> DEFINE r == Larger(1, rw)
    <3>3. r \in 1..inW /\ (r = 1 \/ 2 * h * r - 2 * w * inH \in -h..h)
      <4>1. w * inH <= inW * h
        BY <1>1, <2>2
      <4> QED BY <1>1, <4>1, ScaledFits
    <3> DEFINE a == Axis(w, inW, r)
               b == Axis(h, inH, inH)
               t == [width |-> a, height |-> b]
    <3>4. transform' = t
      BY <3>1, <3>2
    <3> HIDE DEF w, h, inW, inH, r
    <3>5. GoodAxis(a) /\ GoodAxis(b)
      BY <1>1, <3>3 DEF GoodAxis, Axis
    <3>6. 2 * h * inH - 2 * h * inH \in -h..h
      BY <1>1
    <3>7. FillsWithRatio(t)
      BY <3>3, <3>6 DEF FillsWithRatio, Axis
    <3>8. TransformIsOf(t, request)
      BY <3>7 DEF TransformIsOf, Axis, w, h, inW, inH
    <3> HIDE DEF a, b
    <3>9. GoodAxis(t.width) /\ GoodAxis(t.height)
      BY <3>5
    <3> QED BY <3>4, <3>8, <3>9
  <2> QED BY <2>1, <2>2
<1>3. ASSUME ~request.letterbox
      PROVE  \E t : /\ transform' = t /\ GoodAxis(t.width) /\ GoodAxis(t.height)
                    /\ TransformIsOf(t, request)
  <2> DEFINE a == Axis(w, inW, inW)
             b == Axis(h, inH, inH)
             t == [width |-> a, height |-> b]
  <2>1. transform' = t
    BY <1>3 DEF Resize, Stretched
  <2>2. GoodAxis(a) /\ GoodAxis(b)
    BY <1>1 DEF GoodAxis, Axis
  <2>3. TransformIsOf(t, request)
    BY <1>3 DEF TransformIsOf, Axis
  <2> HIDE DEF a, b
  <2> QED BY <2>1, <2>2, <2>3
<1>4. GoodAxis(transform.width)' /\ GoodAxis(transform.height)' /\ TransformIsOf(transform, request)'
  <2>1. request' = request
    BY DEF Resize
  <2> QED BY <1>1, <1>2, <1>3, <2>1
<1>5. /\ stage = "resize" /\ stage' = "fill" /\ UNCHANGED <<request, cursor, sampled>>
      /\ cursor = 0 /\ sampled = {}
  BY DEF Resize, PreInv, Resized
<1>6. sampled' = SampledUpTo(transform, cursor)'
  <2>1. \A x, y \in Nat : ~(transform'.width.network * y + x < 0)
    BY <1>4 DEF GoodAxis
  <2>2. Unpadded(transform'.width) \subseteq Nat /\ Unpadded(transform'.height) \subseteq Nat
    BY <1>4 DEF Unpadded, GoodAxis
  <2>3. SampledUpTo(transform', 0) = {}
    BY <2>1, <2>2 DEF SampledUpTo
  <2> QED BY <1>5, <2>3
<1>7. cursor' <= request'.inWidth * request'.inHeight
  BY <1>1, <1>5
<1> QED BY <1>4, <1>5, <1>6, <1>7 DEF PreInv, Resized, ImageValid, InputValid

\* The pixel under the cursor is sampled exactly when it is not padded.
LEMMA FillKeepsInv ==
  ASSUME PreInv, Fill
  PROVE  PreInv'
<1> DEFINE W == request.inWidth
           H == request.inHeight
           x == Column
           y == Row
           wide == transform.width
           high == transform.height
           new == IF BytesRead = {} THEN {} ELSE {<<x, y>>}
<1>1. /\ stage = "fill" /\ stage' = "fill" /\ cursor < W * H /\ cursor' = cursor + 1
      /\ UNCHANGED <<request, transform>> /\ sampled' = sampled \cup new
  BY DEF Fill
<1>2. /\ W \in Nat \ {0} /\ H \in Nat \ {0} /\ cursor \in Nat
      /\ GoodAxis(wide) /\ GoodAxis(high) /\ wide.network = W /\ high.network = H
      /\ sampled = SampledUpTo(transform, cursor)
  BY <1>1, CheckedRequest DEF PreInv, Resized, TransformIsOf
<1>3. /\ x \in 0..(W - 1) /\ y \in 0..(H - 1) /\ cursor = W * y + x
      /\ \A i \in 0..(W - 1), j \in Nat : W * j + i = cursor => i = x /\ j = y
  <2>1. H \in Nat
    BY <1>2
  <2> QED BY <1>1, <1>2, <2>1, Cells DEF Column, Row
<1>4. BytesRead = {} <=> Padded(wide, x) \/ Padded(high, y)
  <2>1. CASE Padded(wide, x) \/ Padded(high, y)
    BY <2>1 DEF BytesRead
  <2>2. CASE ~(Padded(wide, x) \/ Padded(high, y))
    <3>1. x \in Nat /\ y \in Nat
      BY <1>2, <1>3
    <3>2. Neighbours(wide, x) # {} /\ Neighbours(high, y) # {}
      BY <1>2, <3>1, NeighboursInImage
    <3>3. PICK row \in Neighbours(high, y), column \in Neighbours(wide, x) : TRUE
      BY <3>2
    <3>4. (row * request.width + column) * 3 + SourceForOutput(0) \in BytesRead
      BY <2>2, <3>3 DEF BytesRead
    <3> QED BY <2>2, <3>4
  <2> QED BY <2>1, <2>2
<1> HIDE DEF W, H, x, y, wide, high
<1>5. SampledUpTo(transform, cursor + 1) = SampledUpTo(transform, cursor) \cup new
  <2>1. ASSUME NEW i \in Unpadded(wide), NEW j \in Unpadded(high)
        PROVE  W * j + i < cursor + 1 <=> W * j + i < cursor \/ (i = x /\ j = y)
    <3>1. i \in 0..(W - 1) /\ j \in Nat
      BY <1>2 DEF Unpadded
    <3>2. W * j + i \in Int
      BY <1>2, <3>1
    <3>3. W * j + i = cursor => i = x /\ j = y
      BY <1>3, <3>1
    <3> QED BY <1>2, <1>3, <3>2, <3>3
  <2>2. new = IF x \in Unpadded(wide) /\ y \in Unpadded(high) THEN {<<x, y>>} ELSE {}
    BY <1>2, <1>3, <1>4 DEF Unpadded
  <2> HIDE DEF new
  <2>3. \A c : SampledUpTo(transform, c) = {at \in Unpadded(wide) \X Unpadded(high) : W * at[2] + at[1] < c}
    BY <1>2 DEF SampledUpTo, wide, high
  <2>4. SampledUpTo(transform, cursor + 1)
          = SampledUpTo(transform, cursor) \cup {at \in Unpadded(wide) \X Unpadded(high) : at[1] = x /\ at[2] = y}
    BY <2>1, <2>3
  <2>5. {at \in Unpadded(wide) \X Unpadded(high) : at[1] = x /\ at[2] = y} = new
    BY <2>2
  <2> QED BY <2>4, <2>5
<1>6. sampled' = SampledUpTo(transform, cursor)'
  BY <1>1, <1>2, <1>5
<1>7. cursor' \in Nat /\ cursor' <= W * H
  <2>1. W * H \in Nat
    BY <1>2
  <2> QED BY <1>1, <1>2, <2>1
<1> QED BY <1>1, <1>6, <1>7 DEF PreInv, Resized, ImageValid, InputValid, W, H

\* The invariant holds in every state.
THEOREM PreprocessCorrect == PreSpec => []PreInv
<1>1. PreInit => PreInv
  BY PreInitInv
<1>2. PreInv /\ [PreNext]_preVars => PreInv'
  <2> SUFFICES ASSUME PreInv, [PreNext]_preVars PROVE PreInv'
    OBVIOUS
  <2>1. CASE Check
    BY <2>1 DEF Check, PreInv, Resized, ImageValid, InputValid
  <2>2. CASE Resize
    BY <2>2, ResizeKeepsInv
  <2>3. CASE Fill
    BY <2>3, FillKeepsInv
  <2>4. CASE Filled
    BY <2>4 DEF Filled, PreInv, Resized, ImageValid, InputValid
  <2>5. CASE UNCHANGED preVars
    BY <2>5 DEF preVars, PreInv, Resized, ImageValid, InputValid
  <2> QED BY <2>1, <2>2, <2>3, <2>4, <2>5 DEF PreNext
<1> QED BY <1>1, <1>2, PTL DEF PreSpec

\* Letterboxing keeps the ratio, and as many pixels are sampled as the resized image has.
THEOREM RatioAlwaysKept == PreSpec => []RatioKept
<1>1. PreInv => RatioKept
  <2> SUFFICES ASSUME PreInv PROVE RatioKept
    OBVIOUS
  <2>1. \A a \in Axes : a.resized \in 1..a.network
    BY DEF PreInv, Axes, GoodAxis
  <2>2. ASSUME stage = "done" PROVE Cardinality(sampled) = transform.width.resized * transform.height.resized
    <3> DEFINE A == Unpadded(transform.width)
               B == Unpadded(transform.height)
               W == request.inWidth
               H == request.inHeight
    <3>1. /\ GoodAxis(transform.width) /\ GoodAxis(transform.height)
          /\ transform.width.network = W /\ transform.height.network = H
          /\ cursor = W * H /\ sampled = SampledUpTo(transform, cursor)
      BY <2>2 DEF PreInv, Resized, TransformIsOf
    <3>2. /\ IsFiniteSet(A) /\ Cardinality(A) = transform.width.resized
          /\ IsFiniteSet(B) /\ Cardinality(B) = transform.height.resized
      BY <3>1, UnpaddedCount DEF Unpadded
    <3>3. W \in Nat \ {0} /\ H \in Nat \ {0}
      BY <3>1 DEF GoodAxis
    <3>4. A \subseteq 0..(W - 1) /\ B \subseteq 0..(H - 1)
      BY <3>1 DEF Unpadded
    <3> HIDE DEF A, B, W, H
    <3>5. \A i \in 0..(W - 1), j \in 0..(H - 1) : W * j + i < W * H
      <4> SUFFICES ASSUME NEW i \in 0..(W - 1), NEW j \in 0..(H - 1) PROVE W * j + i < W * H
        OBVIOUS
      <4>1. W * j <= W * (H - 1) /\ W * (H - 1) = W * H - W /\ W * H \in Int /\ W * j \in Int
        BY <3>3
      <4> QED BY <3>3, <4>1
    <3>6. sampled = {at \in A \X B : W * at[2] + at[1] < W * H}
      BY <3>1 DEF SampledUpTo, A, B, W, H
    <3>7. sampled = A \X B
      BY <3>4, <3>5, <3>6
    <3> QED BY <3>2, <3>7, FS_Product
  <2>3. Resized /\ request.letterbox =>
        \E a \in Axes :
            /\ a.resized = a.network
            /\ \A b \in Axes :
                  b.resized = 1 \/ 2 * a.original * b.resized - 2 * b.original * a.resized \in -a.original..a.original
    BY DEF PreInv, Axes, TransformIsOf, FillsWithRatio
  <2> QED BY <2>1, <2>2, <2>3 DEF RatioKept
<1> QED BY <1>1, PreprocessCorrect, PTL

\* Sampling stays in the payload of the image, in the order of the model.
LEMMA SamplingStaysInImage ==
  ASSUME PreInv
  PROVE  SamplesTheImage
<1>1. \A channel \in 0..2 : SourceForOutput(channel) \in 0..2
  BY DEF SourceForOutput
<1>2. \A channel \in 0..2 : Colour(request.format, SourceForOutput(channel)) = Colour(request.colorOrder, channel)
  <2>1. request.format \in {"RGB", "BGR"} /\ request.colorOrder \in {"RGB", "BGR"}
    BY RequestsAssumption DEF PreInv, RequestOK
  <2> SUFFICES ASSUME NEW channel \in 0..2
               PROVE  Colour(request.format, SourceForOutput(channel)) = Colour(request.colorOrder, channel)
    OBVIOUS
  <2>2. channel = 0 \/ channel = 1 \/ channel = 2
    OBVIOUS
  <2> QED BY <2>1, <2>2 DEF Colour, SourceForOutput
<1>3. ASSUME stage = "fill", cursor < request.inWidth * request.inHeight
      PROVE  BytesRead \subseteq 0..(request.payload - 1)
  <2> DEFINE w == request.width
             h == request.height
  <2>1. /\ w \in Nat \ {0} /\ h \in Nat \ {0} /\ request.payload = w * h * 3
        /\ GoodAxis(transform.width) /\ GoodAxis(transform.height)
        /\ transform.width.original = w /\ transform.height.original = h
        /\ request.inWidth \in Nat \ {0} /\ cursor \in Nat
    BY <1>3, CheckedRequest DEF PreInv, Resized, TransformIsOf
  <2>2. Column \in Nat /\ Row \in Nat
    BY <2>1 DEF Column, Row
  <2>3. Neighbours(transform.height, Row) \subseteq 0..(h - 1) /\ Neighbours(transform.width, Column) \subseteq 0..(w - 1)
    BY <2>1, <2>2, NeighboursInImage
  <2> HIDE DEF w, h
  <2>4. ASSUME NEW row \in 0..(h - 1), NEW column \in 0..(w - 1), NEW channel \in 0..2
        PROVE  (row * w + column) * 3 + channel \in 0..(w * h * 3 - 1)
    <3>1. row * w \in Nat /\ row * w <= (h - 1) * w /\ (h - 1) * w = w * h - w /\ w * h \in Nat
      BY <2>1
    <3> DEFINE p == row * w
               q == w * h
    <3>2. p \in Nat /\ q \in Nat /\ p <= q - w /\ w \in Nat
      BY <2>1, <3>1
    <3> HIDE DEF p, q
    <3>3. (p + column) * 3 + channel \in 0..(q * 3 - 1)
      BY <3>2
    <3> QED BY <3>3 DEF p, q
  <2>5. ASSUME NEW byte \in BytesRead PROVE byte \in 0..(request.payload - 1)
    <3>1. PICK row \in Neighbours(transform.height, Row), column \in Neighbours(transform.width, Column), channel \in 0..2 :
             byte = (row * w + column) * 3 + SourceForOutput(channel)
      BY <2>5 DEF BytesRead, w
    <3>2. row \in 0..(h - 1) /\ column \in 0..(w - 1) /\ SourceForOutput(channel) \in 0..2
      BY <1>1, <2>3
    <3> QED BY <2>1, <2>4, <3>1, <3>2
  <2> QED BY <2>5
<1> QED BY <1>2, <1>3 DEF SamplesTheImage

\* Restoring a box undoes the sampling of its pixels.
THEOREM RestoringUndoesSampling == PreSpec => []RestoreUndoesSampling
<1>1. PreInv => RestoreUndoesSampling
  <2> SUFFICES ASSUME PreInv PROVE RestoreUndoesSampling
    OBVIOUS
  <2>1. \A a \in Axes : GoodAxis(a)
    BY DEF PreInv, Axes
  <2>2. SamplesTheImage
    BY SamplingStaysInImage
  <2> QED BY <2>1, <2>2, RestoredAroundSource DEF RestoreUndoesSampling
<1> QED BY <1>1, PreprocessCorrect, PTL

-----------------------------------------------------------------------------
(* The statistics of a benchmark *)

\* What division by a positive number gives.
LEMMA Division ==
  ASSUME NEW n \in Int, NEW d \in Nat \ {0}
  PROVE  /\ n \div d \in Int
         /\ d * (n \div d) <= n /\ n < d * (n \div d) + d
OBVIOUS

\* A quotient is at least what its divisor fits into the dividend that often.
LEMMA QuotientBetween ==
  ASSUME NEW n \in Int, NEW d \in Nat \ {0}, NEW low \in Int, NEW high \in Int,
         d * low <= n, n <= d * high
  PROVE  low <= n \div d /\ n \div d <= high
<1> DEFINE q == n \div d
<1>1. q \in Int /\ d * q <= n /\ n < d * q + d
  BY Division
<1> HIDE DEF q
<1>2. \A a, b \in Int : d * a < d * b + d => a <= b
  OBVIOUS
<1>3. d * low \in Int /\ d * q \in Int /\ d * high \in Int
  BY <1>1
<1>4. d * low < d * q + d /\ d * q < d * high + d
  BY <1>1, <1>3
<1> QED BY <1>1, <1>2, <1>4 DEF q

\* A mean in hundredths lies where the numbers do.
LEMMA MeanBetween ==
  ASSUME NEW n \in Nat \ {0}, NEW sum \in Int, NEW low \in Int, NEW high \in Int,
         n * low <= sum, sum <= n * high
  PROVE  100 * low <= (100 * sum) \div n /\ (100 * sum) \div n <= 100 * high
<1> DEFINE hundredfold == 100 * sum
           least == 100 * low
           most == 100 * high
<1>1. \A a \in Int : n * a \in Int /\ n * (100 * a) = 100 * (n * a)
  OBVIOUS
<1>2. n * least = 100 * (n * low) /\ n * most = 100 * (n * high)
  BY <1>1
<1>3. \A x, y \in Int : x <= y => 100 * x <= 100 * y
  OBVIOUS
<1>4. 100 * (n * low) <= hundredfold /\ hundredfold <= 100 * (n * high)
  BY <1>1, <1>3
<1>5. hundredfold \in Int /\ least \in Int /\ most \in Int
  OBVIOUS
<1> HIDE DEF hundredfold, least, most
<1>6. n * least <= hundredfold /\ hundredfold <= n * most
  BY <1>2, <1>4
<1>7. least <= hundredfold \div n /\ hundredfold \div n <= most
  BY <1>5, <1>6, QuotientBetween
<1> QED BY <1>7 DEF hundredfold, least, most

\* Numbers that never fall.
Rising(s, n) ==
    /\ n \in Nat \ {0} /\ s \in Seq(Int) /\ Len(s) = n
    /\ \A k, l \in 1..n : k <= l => s[k] <= s[l]

\* The position of a percentile and its two neighbours are in the list.
PositionOf(percent, n) == percent * (n - 1)
Located(percent, n, lower, fraction) ==
    /\ lower \in 0..(n - 1) /\ fraction \in 0..99
    /\ fraction # 0 => lower + 1 \in 0..(n - 1)
    /\ PositionOf(percent, n) = 100 * lower + fraction

LEMMA PositionInList ==
  ASSUME NEW n \in Nat \ {0}, NEW percent \in 0..100
  PROVE  Located(percent, n, PositionOf(percent, n) \div 100, PositionOf(percent, n) % 100)
<1> DEFINE index == PositionOf(percent, n)
           lower == index \div 100
           fraction == index % 100
<1>1. index \in Nat /\ index <= 100 * (n - 1)
  <2>1. \A p \in Nat, m \in Nat : p <= 100 => p * m \in Nat /\ p * m <= 100 * m
    OBVIOUS
  <2> QED BY <2>1 DEF PositionOf
<1>2. lower \in Nat /\ fraction \in 0..99 /\ index = 100 * lower + fraction
  <2> HIDE DEF index
  <2> QED BY <1>1
<1> HIDE DEF index, lower, fraction
<1>3. lower <= n - 1 /\ (fraction # 0 => lower + 1 <= n - 1)
  BY <1>1, <1>2
<1>4. index \in Nat /\ lower \in 0..(n - 1) /\ fraction \in 0..99
      /\ (fraction # 0 => lower + 1 \in 0..(n - 1)) /\ index = 100 * lower + fraction
  BY <1>1, <1>2, <1>3
<1> QED BY <1>4, Zenon DEF Located, index, lower, fraction

\* Between two numbers, a later point has no smaller value.
Mix(a, b, f) == a * (100 - f) + b * f

LEMMA Interpolation ==
  ASSUME NEW a \in Int, NEW b \in Int, a <= b, NEW f \in 0..99, NEW g \in 0..99, f <= g
  PROVE  /\ Mix(a, b, f) \in Int /\ 100 * a <= Mix(a, b, f)
         /\ Mix(a, b, f) <= Mix(a, b, g) /\ Mix(a, b, g) <= 100 * b
<1> DEFINE d == b - a
<1>1. d \in Nat /\ b = a + d
  OBVIOUS
<1> HIDE DEF d
<1>2. \A h \in 0..99 : a * (100 - h) + b * h = 100 * a + d * h
  <2>1. \A h \in 0..99 : a * (100 - h) = 100 * a - a * h
    OBVIOUS
  <2>2. \A h \in 0..99 : (a + d) * h = a * h + d * h
    BY <1>1
  <2>3. \A h \in 0..99 : a * h \in Int /\ d * h \in Int
    BY <1>1
  <2>4. \A h \in 0..99 : b * h = a * h + d * h
    BY <1>1, <2>2
  <2> QED BY <1>1, <2>1, <2>3, <2>4
<1>3. 0 <= d * f /\ d * f <= d * g /\ d * g <= 100 * d /\ d * f \in Int /\ d * g \in Int
  BY <1>1
<1> QED BY <1>1, <1>2, <1>3 DEF Mix

\* A percentile r of s, with its two neighbours at l and u and what it is past l.
Interpolates(s, n, r, l, u, f) ==
    /\ PositionOf(r, n) = 100 * (l - 1) + f
    /\ f = 0 => u = l
    /\ f # 0 => u = l + 1
    /\ Percentile(s, r) = Mix(s[l], s[u], f)
    /\ s[l] \in Int /\ s[u] \in Int /\ s[l] <= s[u]
    /\ s[1] \in Int /\ s[n] \in Int /\ s[1] <= s[l] /\ s[u] <= s[n]
    /\ Percentile(s, r) \in Int
    /\ 100 * s[l] <= Percentile(s, r) /\ Percentile(s, r) <= 100 * s[u]

\* A percentile is interpolated between two neighbours in the list.
LEMMA PercentileValue ==
  ASSUME NEW n, NEW s, Rising(s, n), NEW r \in 0..100
  PROVE  \E l \in 1..n, u \in 1..n, f \in 0..99 : Interpolates(s, n, r, l, u, f)
<1> DEFINE lower == PositionOf(r, n) \div 100
           f == PositionOf(r, n) % 100
           l == lower + 1
           u == (IF f = 0 THEN lower ELSE lower + 1) + 1
<1>1. n \in Nat \ {0} /\ Len(s) = n /\ \A k, m \in 1..n : k <= m => s[k] <= s[m]
  BY DEF Rising
<1>2. \A k \in 1..n : s[k] \in Int
  BY DEF Rising
<1>3. Percentile(s, r) = Mix(s[l], s[u], f)
  BY <1>1 DEF Percentile, PositionOf, Mix
<1>4. /\ lower \in 0..(n - 1) /\ f \in 0..99
      /\ f # 0 => lower + 1 \in 0..(n - 1)
      /\ PositionOf(r, n) = 100 * lower + f
  <2>1. Located(r, n, lower, f)
    BY <1>1, PositionInList, Zenon
  <2> HIDE DEF lower, f
  <2> QED BY <2>1 DEF Located
<1> HIDE DEF f, lower
<1>5. /\ l \in 1..n /\ u \in 1..n /\ 1 \in 1..n /\ n \in 1..n
      /\ l <= u /\ 1 <= l /\ u <= n
      /\ lower = l - 1 /\ (f = 0 => u = l) /\ (f # 0 => u = l + 1)
  BY <1>1, <1>4
<1> HIDE DEF l, u
<1>6. /\ s[l] \in Int /\ s[u] \in Int /\ s[l] <= s[u]
      /\ s[1] \in Int /\ s[n] \in Int /\ s[1] <= s[l] /\ s[u] <= s[n]
  BY <1>1, <1>2, <1>5
<1>7. /\ Percentile(s, r) \in Int
      /\ 100 * s[l] <= Percentile(s, r) /\ Percentile(s, r) <= 100 * s[u]
  <2> DEFINE a == s[l]
             b == s[u]
  <2>1. a \in Int /\ b \in Int /\ a <= b /\ f \in 0..99 /\ f <= f
    BY <1>4, <1>6
  <2>2. Percentile(s, r) = Mix(a, b, f)
    BY <1>3
  <2> HIDE DEF a, b
  <2>3. Mix(a, b, f) \in Int /\ 100 * a <= Mix(a, b, f) /\ Mix(a, b, f) <= 100 * b
    BY <2>1, Interpolation
  <2>4. Percentile(s, r) \in Int /\ 100 * a <= Percentile(s, r) /\ Percentile(s, r) <= 100 * b
    BY <2>2, <2>3, Zenon
  <2> QED BY <2>4 DEF a, b
<1>8. PositionOf(r, n) = 100 * (l - 1) + f
  BY <1>4, <1>5
<1>9. Interpolates(s, n, r, l, u, f)
  BY <1>3, <1>4, <1>5, <1>6, <1>7, <1>8, Zenon DEF Interpolates
<1> QED BY <1>4, <1>5, <1>9

\* Percentiles of a sorted list grow with the percentage and lie in the list.
LEMMA PercentileGrows ==
  ASSUME NEW n, NEW s, Rising(s, n), NEW p \in 0..100, NEW q \in 0..100, p <= q
  PROVE  /\ Percentile(s, p) \in Int
         /\ 100 * s[1] <= Percentile(s, p)
         /\ Percentile(s, p) <= Percentile(s, q)
         /\ Percentile(s, q) <= 100 * s[n]
<1> DEFINE Vp == Percentile(s, p)
           Vq == Percentile(s, q)
<1>1. n \in Nat \ {0} /\ \A k, m \in 1..n : k <= m => s[k] <= s[m]
  BY DEF Rising
<1>2. PICK l \in 1..n, u \in 1..n, f \in 0..99 : Interpolates(s, n, p, l, u, f)
  BY PercentileValue, Zenon
<1>3. PICK lq \in 1..n, uq \in 1..n, g \in 0..99 : Interpolates(s, n, q, lq, uq, g)
  BY PercentileValue, Zenon
<1>4. /\ PositionOf(p, n) = 100 * (l - 1) + f
      /\ (f = 0 => u = l) /\ (f # 0 => u = l + 1)
      /\ Vp = Mix(s[l], s[u], f)
      /\ s[l] \in Int /\ s[u] \in Int /\ s[l] <= s[u]
      /\ s[1] \in Int /\ s[n] \in Int /\ s[1] <= s[l]
      /\ Vp \in Int /\ 100 * s[l] <= Vp /\ Vp <= 100 * s[u]
  BY <1>2, Zenon DEF Interpolates
<1>5. /\ PositionOf(q, n) = 100 * (lq - 1) + g
       /\ (g = 0 => uq = lq) /\ (g # 0 => uq = lq + 1)
       /\ Vq = Mix(s[lq], s[uq], g)
       /\ s[lq] \in Int /\ s[uq] \in Int /\ s[lq] <= s[uq] /\ s[uq] <= s[n]
       /\ Vq \in Int /\ 100 * s[lq] <= Vq /\ Vq <= 100 * s[uq]
  BY <1>3, Zenon DEF Interpolates
<1> HIDE DEF Vp, Vq
<1>6. PositionOf(p, n) <= PositionOf(q, n)
  BY <1>1 DEF PositionOf
<1>7. l < lq \/ (l = lq /\ f <= g)
  <2>1. l \in Int /\ lq \in Int /\ f \in 0..99 /\ g \in 0..99 /\ 100 * (l - 1) + f <= 100 * (lq - 1) + g
    BY <1>1, <1>4, <1>5, <1>6
  <2> QED BY <2>1
<1>8. Vp <= Vq
  <2>1. CASE l < lq
    <3>1. u <= lq
      BY <1>1, <1>4, <2>1
    <3>2. s[u] <= s[lq]
      BY <1>1, <3>1
    <3> DEFINE b == s[u]
               c == s[lq]
    <3>3. b \in Int /\ c \in Int /\ b <= c /\ Vp \in Int /\ Vq \in Int /\ Vp <= 100 * b /\ 100 * c <= Vq
      BY <1>4, <1>5, <3>2
    <3> HIDE DEF b, c
    <3> QED BY <3>3
  <2>2. CASE l = lq /\ f <= g /\ f = 0
    <3> DEFINE a == s[l]
    <3>1. a \in Int /\ Vp \in Int /\ Vq \in Int /\ Vp <= 100 * a /\ 100 * a <= Vq
      BY <1>4, <1>5, <2>2
    <3> HIDE DEF a
    <3> QED BY <3>1
  <2>3. CASE l = lq /\ f <= g /\ f # 0
    <3>1. g # 0 /\ u = uq
      BY <1>4, <1>5, <2>3
    <3> DEFINE a == s[l]
               b == s[u]
    <3>2. /\ a \in Int /\ b \in Int /\ a <= b /\ f \in 0..99 /\ g \in 0..99 /\ f <= g
          /\ Vp = Mix(a, b, f) /\ Vq = Mix(a, b, g)
      BY <1>4, <1>5, <2>3, <3>1
    <3> HIDE DEF a, b
    <3>3. Mix(a, b, f) <= Mix(a, b, g)
      BY <3>2, Interpolation
    <3> QED BY <3>2, <3>3
  <2> QED BY <1>7, <2>1, <2>2, <2>3
<1>9. 100 * s[1] <= Vp /\ Vq <= 100 * s[n]
  <2> DEFINE a == s[1]
             b == s[l]
             c == s[uq]
             d == s[n]
  <2>1. /\ a \in Int /\ b \in Int /\ c \in Int /\ d \in Int /\ Vp \in Int /\ Vq \in Int
        /\ a <= b /\ 100 * b <= Vp /\ Vq <= 100 * c /\ c <= d
    BY <1>4, <1>5
  <2> HIDE DEF a, b, c, d
  <2>2. 100 * a <= Vp /\ Vq <= 100 * d
    BY <2>1
  <2> QED BY <2>2 DEF a, d
<1>10. Vp \in Int
  BY <1>4
<1> QED BY <1>8, <1>9, <1>10 DEF Vp, Vq

\* The samples in rising order: the same values, from the least to the greatest.
LEMMA SortedRises ==
  ASSUME NEW values \in Seq(Int), values # <<>>
  PROVE  /\ Rising(Sorted(values), Len(values))
         /\ \A i \in 1..Len(values) : \E k \in 1..Len(values) : values[i] = Sorted(values)[k]
<1> DEFINE n == Len(values)
           place == SortedPlaces(values)
           s == Sorted(values)
<1>1. n \in Nat \ {0} /\ DOMAIN values = 1..n /\ values \in [1..n -> Int]
  OBVIOUS
<1>2. s = [k \in 1..n |-> values[place[k]]]
  BY <1>1 DEF Sorted
<1> HIDE DEF place, s, n
<1>3. /\ place \in [1..n -> 1..n]
      /\ \A i \in 1..n : \E k \in 1..n : place[k] = i
      /\ \A k, l \in 1..n : k < l => values[place[k]] <= values[place[l]]
  <2>1. n \in Nat
    BY <1>1
  <2> QED BY <1>1, <2>1, SortedPlacesRise, Zenon DEF place
<1>4. \A k \in 1..n : s[k] = values[place[k]] /\ s[k] \in Int
  BY <1>1, <1>2, <1>3
<1>5. s \in Seq(Int) /\ Len(s) = n
  <2>1. s \in [1..n -> Int]
    BY <1>2, <1>4
  <2> QED BY <1>1, <2>1
<1>6. ASSUME NEW k \in 1..n, NEW l \in 1..n, k <= l PROVE s[k] <= s[l]
  <2>1. CASE k = l
    BY <1>4, <2>1
  <2>2. CASE k < l
    BY <1>3, <1>4, <2>2
  <2> QED BY <1>1, <1>6, <2>1, <2>2
<1>7. Rising(s, n)
  BY <1>1, <1>5, <1>6 DEF Rising
<1>8. ASSUME NEW i \in 1..n PROVE \E k \in 1..n : values[i] = s[k]
  <2>1. PICK k \in 1..n : place[k] = i
    BY <1>3
  <2>2. s[k] = values[place[k]]
    BY <1>4
  <2> QED BY <2>1, <2>2, Zenon
<1> QED BY <1>7, <1>8 DEF s, n

\* The statistics of any values, in any order and of any number, are in order.
LEMMA StatisticsInOrder ==
  ASSUME NEW values \in Seq(Int), values # <<>>
  PROVE  InOrder(Statistics(values), values)
<1> DEFINE n == Len(values)
           s == Sorted(values)
           st == Statistics(values)
<1>1. n \in Nat \ {0} /\ DOMAIN values = 1..n
  OBVIOUS
<1>2. Rising(s, n) /\ \A i \in 1..n : \E k \in 1..n : values[i] = s[k]
  BY SortedRises
<1> HIDE DEF s, n
<1>3. /\ s \in Seq(Int) /\ Len(s) = n /\ s # <<>>
      /\ \A k \in 1..n : s[k] \in Int /\ s[1] <= s[k] /\ s[k] <= s[n]
      /\ s[1] \in Int /\ s[n] \in Int
  <2>1. s \in Seq(Int) /\ Len(s) = n /\ \A k \in 1..n : s[k] \in Int
    BY <1>1, <1>2 DEF Rising
  <2>2. 1 \in 1..n /\ n \in 1..n /\ \A k \in 1..n : 1 <= k /\ k <= n
    BY <1>1
  <2>3. \A k \in 1..n : s[1] <= s[k] /\ s[k] <= s[n]
    BY <1>2, <2>2 DEF Rising
  <2>4. s # <<>>
    BY <1>1, <2>1
  <2> QED BY <2>1, <2>2, <2>3, <2>4
<1>4. st = [mean |-> (100 * SumOf(s)) \div n, minimum |-> 100 * s[1], maximum |-> 100 * s[n],
            p50 |-> Percentile(s, 50), p95 |-> Percentile(s, 95), p99 |-> Percentile(s, 99)]
  <2>1. Head(s) = s[1] /\ Last(s) = s[n]
    BY <1>3 DEF Last
  <2> QED BY <1>3, <2>1 DEF Statistics, s
<1>5. 100 * s[1] <= st.mean /\ st.mean <= 100 * s[n]
  <2>1. SumOf(s) \in Int /\ n * s[1] <= SumOf(s) /\ SumOf(s) <= n * s[n]
    BY <1>1, <1>3, SumBetween
  <2> DEFINE sum == SumOf(s)
             low == s[1]
             high == s[n]
  <2>2. low \in Int /\ high \in Int /\ sum \in Int /\ n * low <= sum /\ sum <= n * high
    BY <1>3, <2>1
  <2>3. st.mean = (100 * sum) \div n
    BY <1>4
  <2> HIDE DEF sum, low, high, st
  <2>4. 100 * low <= (100 * sum) \div n /\ (100 * sum) \div n <= 100 * high
    BY <1>1, <2>2, MeanBetween
  <2> QED BY <2>3, <2>4 DEF low, high
<1>6. /\ 100 * s[1] <= Percentile(s, 50) /\ Percentile(s, 50) <= Percentile(s, 95)
      /\ Percentile(s, 95) <= Percentile(s, 99) /\ Percentile(s, 99) <= 100 * s[n]
  <2> DEFINE P(q) == Percentile(s, q)
             low == 100 * s[1]
             high == 100 * s[n]
  <2>1. \A p, q \in 0..100 : p <= q => low <= P(p) /\ P(p) <= P(q) /\ P(q) <= high
    BY <1>2, PercentileGrows, Zenon
  <2> HIDE DEF P, low, high
  <2>2. low <= P(50) /\ P(50) <= P(95) /\ P(95) <= P(99) /\ P(99) <= high
    BY <2>1, SMTT(30)
  <2> QED BY <2>2 DEF P, low, high
<1>7. \A i \in DOMAIN values : 100 * values[i] \in (100 * s[1])..(100 * s[n])
  <2> SUFFICES ASSUME NEW i \in 1..n PROVE 100 * values[i] \in (100 * s[1])..(100 * s[n])
    BY <1>1
  <2> DEFINE low == s[1]
             high == s[n]
             value == values[i]
  <2>1. PICK k \in 1..n : value = s[k]
    BY <1>2
  <2>2. low \in Int /\ high \in Int /\ value \in Int /\ low <= value /\ value <= high
    BY <1>3, <2>1
  <2> HIDE DEF low, high, value
  <2>3. 100 * value \in (100 * low)..(100 * high)
    BY <2>2
  <2> QED BY <2>3 DEF low, high, value
<1>8. /\ st.minimum = 100 * s[1] /\ st.maximum = 100 * s[n] /\ st.p50 = Percentile(s, 50)
      /\ st.p95 = Percentile(s, 95) /\ st.p99 = Percentile(s, 99)
  BY <1>4
<1> HIDE DEF st
<1>9. InOrder(st, values)
  BY <1>5, <1>6, <1>7, <1>8 DEF InOrder
<1> QED BY <1>9 DEF st

-----------------------------------------------------------------------------
(* The runs of the benchmark *)

BenchmarkTypeOK ==
    /\ config \in Configurations
    /\ phase \in {"start", "warmup", "warmupCall", "measure", "measureCall", "statistics", "finished",
                  "buffered", "written", "writeFailed", "cancelled", "failed"}
    /\ iteration \in Nat /\ cancelled \in BOOLEAN
    /\ calls \in Seq([time : Latencies, late : BOOLEAN])
    /\ samples \in Seq(Latencies)

Finished == {"finished", "buffered", "written", "writeFailed"}
Collecting == {"measure", "measureCall", "statistics"} \cup Finished

\* What has been called and collected when the loops are where they are.
CallsCounted ==
    /\ phase = "start" => calls = <<>> /\ samples = <<>> /\ iteration = 0
    /\ phase \in {"warmup", "warmupCall"} =>
          samples = <<>> /\ Len(calls) = iteration /\ iteration <= config.warmup
    /\ phase = "warmupCall" => iteration < config.warmup
    /\ phase \in {"measure", "measureCall"} =>
          Len(samples) = iteration /\ Len(calls) = config.warmup + iteration /\ iteration <= config.measured
    /\ phase = "measureCall" => iteration < config.measured
    /\ phase \in {"statistics"} \cup Finished =>
          Len(samples) = config.measured /\ Len(calls) = config.warmup + config.measured
    /\ phase \in Collecting => \A i \in 1..Len(samples) : samples[i] = calls[config.warmup + i].time
    /\ phase \in {"warmup", "warmupCall"} \cup Collecting => config.measured > 0

\* Only the last call may have begun after the cancellation, and then none follows.
LateIsLast ==
    /\ \A i \in 1..(Len(calls) - 1) : ~calls[i].late
    /\ calls # <<>> /\ calls[Len(calls)].late => cancelled
    /\ phase \in {"warmupCall", "measureCall"} => \A i \in 1..Len(calls) : ~calls[i].late

\* A result is there, and an older file is touched, once the statistics are made.
ResultOfSamples ==
    /\ phase \in Finished => result.measured = config.measured /\ InOrder(result.total, samples)
    /\ phase \notin Finished => file = OldFile

BenchmarkInv == BenchmarkTypeOK /\ CallsCounted /\ LateIsLast /\ ResultOfSamples

\* What appending does.
LEMMA Appended ==
  ASSUME NEW U, NEW s \in Seq(U), NEW e \in U
  PROVE  /\ Append(s, e) \in Seq(U) /\ Append(s, e) # <<>>
         /\ Len(s) \in Nat /\ Len(Append(s, e)) = Len(s) + 1
         /\ \A i \in 1..Len(s) : Append(s, e)[i] = s[i]
         /\ Append(s, e)[Len(s) + 1] = e
OBVIOUS

\* Before anything was called the invariant holds.
LEMMA BenchmarkInitInv == BenchmarkInit => BenchmarkInv
<1> SUFFICES ASSUME BenchmarkInit PROVE BenchmarkInv
  OBVIOUS
<1> USE DEF BenchmarkInit
<1>1. BenchmarkTypeOK
  <2>1. iteration \in Nat /\ cancelled \in BOOLEAN /\ config \in Configurations
    OBVIOUS
  <2>2. calls \in Seq([time : Latencies, late : BOOLEAN]) /\ samples \in Seq(Latencies)
    OBVIOUS
  <2> QED BY <2>1, <2>2 DEF BenchmarkTypeOK
<1>2. CallsCounted
  BY DEF CallsCounted, Finished, Collecting
<1>3. LateIsLast
  BY DEF LateIsLast
<1>4. ResultOfSamples
  BY DEF ResultOfSamples, Finished
<1> QED BY <1>1, <1>2, <1>3, <1>4 DEF BenchmarkInv

\* A step that calls nothing and collects nothing.
NothingCalled == UNCHANGED <<config, calls, samples>>

\* Cancelling, starting and the tests of the loops.
LEMMA ControlKeepsInv ==
  ASSUME BenchmarkInv, Cancel \/ Start \/ IterateWarmup \/ IterateMeasure \/ CallFails
  PROVE  BenchmarkInv'
<1> USE DEF BenchmarkInv
<1>1. /\ config.warmup \in Nat /\ config.measured \in Nat /\ Len(calls) \in Nat /\ iteration \in Nat
      /\ calls = <<>> => Len(calls) = 0
  BY ConfigurationsAssumption DEF BenchmarkTypeOK
<1>2. NothingCalled /\ UNCHANGED <<result, file>>
  BY DEF Cancel, Start, IterateWarmup, IterateMeasure, Iterate, CallFails, NothingCalled
<1>3. BenchmarkTypeOK'
  <2>1. phase' \in {"warmup", "warmupCall", "measure", "measureCall", "statistics", "cancelled", "failed"}
    BY DEF BenchmarkTypeOK, Cancel, Start, IterateWarmup, IterateMeasure, Iterate, CallFails
  <2>2. iteration' \in {iteration, 0} /\ cancelled' \in {cancelled, TRUE}
    BY DEF Cancel, Start, IterateWarmup, IterateMeasure, Iterate, CallFails
  <2>3. cancelled' \in BOOLEAN
    BY <2>2, Zenon DEF BenchmarkTypeOK
  <2>4. iteration' \in Nat
    BY <1>1, <2>2
  <2>5. config' \in Configurations /\ calls' \in Seq([time : Latencies, late : BOOLEAN])
        /\ samples' \in Seq(Latencies)
    BY <1>2 DEF BenchmarkTypeOK, NothingCalled
  <2> QED BY <2>1, <2>3, <2>4, <2>5 DEF BenchmarkTypeOK
<1>4. CallsCounted'
  <2> USE DEF CallsCounted, NothingCalled, Finished, Collecting
  <2>1. CASE Cancel
    BY <1>2, <2>1 DEF Cancel
  <2>2. CASE Start
    <3>1. phase' \in {"warmup", "failed"} /\ (phase' = "warmup" => config.measured > 0)
      BY <1>1, <2>2 DEF Start, CountsValid
    <3> QED BY <1>1, <1>2, <2>2, <3>1 DEF Start
  <2>3. CASE IterateWarmup
    BY <1>1, <1>2, <2>3 DEF IterateWarmup, Iterate
  <2>4. CASE IterateMeasure
    BY <1>1, <1>2, <2>4 DEF IterateMeasure, Iterate
  <2>5. CASE CallFails
    BY <1>2, <2>5 DEF CallFails
  <2> QED BY <2>1, <2>2, <2>3, <2>4, <2>5
<1>5. LateIsLast'
  <2> USE DEF LateIsLast, NothingCalled
  <2>1. phase' \in {"warmupCall", "measureCall"} /\ phase' # phase => ~cancelled
    BY DEF Cancel, Start, IterateWarmup, IterateMeasure, Iterate, CallFails
  <2>2. cancelled => cancelled'
    BY DEF Cancel, Start, IterateWarmup, IterateMeasure, Iterate, CallFails
  <2>3. ~cancelled => \A i \in 1..Len(calls) : ~calls[i].late
    BY <1>1
  <2> QED BY <1>2, <2>1, <2>2, <2>3
<1>6. ResultOfSamples'
  <2>1. phase' \notin Finished /\ phase \notin Finished
    BY DEF Cancel, Start, IterateWarmup, IterateMeasure, Iterate, CallFails, Finished
  <2> QED BY <1>2, <2>1 DEF ResultOfSamples
<1> QED BY <1>3, <1>4, <1>5, <1>6

\* Counting the warm-up calls and the measured ones apart, or together.
LEMMA OneMoreCall ==
  ASSUME NEW warmup \in Nat, NEW measured \in Nat
  PROVE  warmup + measured + 1 = warmup + (measured + 1)
OBVIOUS

\* The calls of detect().
LEMMA CallsKeepInv ==
  ASSUME BenchmarkInv, WarmupCall \/ MeasureCall
  PROVE  BenchmarkInv'
<1> USE DEF BenchmarkInv
<1>1. PICK time \in Latencies :
         /\ calls' = Append(calls, [time |-> time, late |-> cancelled])
         /\ phase = "measureCall" => samples' = Append(samples, time)
  BY DEF WarmupCall, MeasureCall, Call
<1>2. /\ config.warmup \in Nat /\ config.measured \in Nat /\ iteration \in Nat
      /\ Len(calls) \in Nat /\ Len(samples) \in Nat /\ cancelled \in BOOLEAN
  BY ConfigurationsAssumption DEF BenchmarkTypeOK
<1>3. /\ calls' \in Seq([time : Latencies, late : BOOLEAN]) /\ calls' # <<>>
      /\ Len(calls') = Len(calls) + 1
      /\ \A i \in 1..Len(calls) : calls'[i] = calls[i]
      /\ calls'[Len(calls) + 1] = [time |-> time, late |-> cancelled]
  <2>1. calls \in Seq([time : Latencies, late : BOOLEAN])
    BY DEF BenchmarkTypeOK
  <2>2. [time |-> time, late |-> cancelled] \in [time : Latencies, late : BOOLEAN]
    BY <1>2
  <2> QED BY <1>1, <2>1, <2>2, Appended
<1>4. phase = "measureCall" =>
         /\ samples' \in Seq(Latencies) /\ Len(samples') = Len(samples) + 1
         /\ \A i \in 1..Len(samples) : samples'[i] = samples[i]
         /\ samples'[Len(samples) + 1] = time
  <2> SUFFICES ASSUME phase = "measureCall"
               PROVE  /\ samples' \in Seq(Latencies) /\ Len(samples') = Len(samples) + 1
                      /\ \A i \in 1..Len(samples) : samples'[i] = samples[i]
                      /\ samples'[Len(samples) + 1] = time
    OBVIOUS
  <2>1. samples \in Seq(Latencies)
    BY DEF BenchmarkTypeOK
  <2>2. samples' = Append(samples, time)
    BY <1>1
  <2> QED BY <2>1, <2>2, Appended
<1>5. /\ config' = config /\ cancelled' = cancelled /\ result' = result /\ file' = file
      /\ iteration' = iteration + 1
      /\ \/ phase = "warmupCall" /\ phase' = "warmup" /\ samples' = samples
         \/ phase = "measureCall" /\ phase' = "measure"
  BY DEF WarmupCall, MeasureCall
<1>6. BenchmarkTypeOK'
  BY <1>2, <1>3, <1>4, <1>5 DEF BenchmarkTypeOK
<1>7. CallsCounted'
  <2>1. CASE phase = "warmupCall"
    BY <1>2, <1>3, <1>5, <2>1 DEF CallsCounted, Finished, Collecting
  <2>2. CASE phase = "measureCall"
    <3>1. /\ Len(samples) = iteration /\ Len(calls) = config.warmup + iteration
          /\ iteration < config.measured /\ config.measured > 0
          /\ \A i \in 1..Len(samples) : samples[i] = calls[config.warmup + i].time
      BY <2>2 DEF CallsCounted, Collecting
    <3>2. ASSUME NEW i \in 1..Len(samples') PROVE samples'[i] = calls'[config.warmup + i].time
      <4>1. CASE i \in 1..Len(samples)
        <5>1. config.warmup + i \in 1..Len(calls)
          BY <1>2, <3>1, <4>1
        <5>2. calls'[config.warmup + i] = calls[config.warmup + i] /\ samples'[i] = samples[i]
          BY <1>3, <1>4, <2>2, <4>1, <5>1
        <5> QED BY <3>1, <4>1, <5>2
      <4>2. CASE i = Len(samples) + 1
        <5>1. config.warmup + i = Len(calls) + 1
          <6>1. Len(samples) = iteration /\ Len(calls) = config.warmup + iteration
            BY <3>1
          <6> QED BY <1>2, <4>2, <6>1
        <5>2. calls'[config.warmup + i] = [time |-> time, late |-> cancelled] /\ samples'[i] = time
          BY <1>3, <1>4, <2>2, <4>2, <5>1
        <5> QED BY <5>2
      <4> QED BY <1>2, <1>4, <2>2, <3>2, <4>1, <4>2
    <3>3. Len(samples') = iteration' /\ Len(calls') = config.warmup + iteration' /\ iteration' <= config.measured
      <4>1. Len(samples') = Len(samples) + 1 /\ Len(calls') = Len(calls) + 1 /\ iteration' = iteration + 1
        BY <1>3, <1>4, <1>5, <2>2
      <4>2. Len(samples) = iteration /\ Len(calls) = config.warmup + iteration /\ iteration < config.measured
        BY <3>1
      <4>3. config.warmup \in Nat /\ config.measured \in Nat /\ iteration \in Nat
        BY <1>2
      <4>4. Len(samples') = iteration' /\ Len(calls') = config.warmup + iteration'
        BY <4>1, <4>2, <4>3, OneMoreCall
      <4>5. iteration' <= config.measured
        BY <4>1, <4>2, <4>3
      <4> QED BY <4>4, <4>5
    <3> QED BY <1>5, <2>2, <3>1, <3>2, <3>3 DEF CallsCounted, Collecting, Finished
  <2> QED BY <1>5, <2>1, <2>2
<1>8. LateIsLast'
  <2>1. \A i \in 1..Len(calls) : ~calls[i].late
    BY <1>5 DEF LateIsLast
  <2>2. \A i \in 1..(Len(calls') - 1) : ~calls'[i].late
    BY <1>2, <1>3, <2>1
  <2>3. calls'[Len(calls')].late = cancelled
    BY <1>3
  <2> QED BY <1>5, <2>2, <2>3 DEF LateIsLast
<1>9. ResultOfSamples'
  BY <1>5 DEF ResultOfSamples, Finished
<1> QED BY <1>6, <1>7, <1>8, <1>9

\* The statistics, of samples that are all finite.
LEMMA SummariseKeepsInv ==
  ASSUME BenchmarkInv, Summarise
  PROVE  BenchmarkInv'
<1> USE DEF BenchmarkInv
<1>1. UNCHANGED <<config, iteration, cancelled, calls, samples, file>> /\ phase = "statistics"
      /\ phase' \in {"failed", "finished"}
  BY DEF Summarise
<1>2. phase' = "finished" => result'.measured = config.measured /\ InOrder(result'.total, samples)
  <2> SUFFICES ASSUME phase' = "finished"
               PROVE  result'.measured = config.measured /\ InOrder(result'.total, samples)
    OBVIOUS
  <2>1. Invalid \notin Range(samples)
    BY DEF Summarise
  <2>2. samples \in Seq(Latencies) /\ Len(samples) = config.measured /\ config.measured > 0
    BY <1>1 DEF BenchmarkTypeOK, CallsCounted, Collecting
  <2>3. samples \in Seq(Int) /\ samples # <<>>
    <3>1. \A i \in 1..Len(samples) : samples[i] \in Latencies /\ samples[i] # Invalid
      BY <2>1, <2>2 DEF Range
    <3>2. \A i \in 1..Len(samples) : samples[i] \in Int
      BY <3>1, LatenciesAssumption
    <3>3. samples = [i \in 1..Len(samples) |-> samples[i]] /\ Len(samples) \in Nat
      BY <2>2
    <3>4. samples \in Seq(Int)
      BY <3>2, <3>3
    <3>5. samples # <<>>
      BY <2>2
    <3> QED BY <3>4, <3>5
  <2>4. InOrder(Statistics(samples), samples)
    BY <2>3, StatisticsInOrder
  <2>5. result'.measured = config.measured /\ result'.total = Statistics(samples)
    BY <2>1 DEF Summarise, EmptyResult
  <2> QED BY <2>4, <2>5, Zenon
<1>3. BenchmarkTypeOK'
  BY <1>1 DEF BenchmarkTypeOK
<1>4. CallsCounted'
  BY <1>1 DEF CallsCounted, Finished, Collecting
<1>5. LateIsLast'
  BY <1>1 DEF LateIsLast
<1>6. ResultOfSamples'
  <2>1. phase' \notin Finished => file' = OldFile
    BY <1>1 DEF ResultOfSamples, Finished
  <2>2. phase' \in Finished => phase' = "finished"
    BY <1>1 DEF Finished
  <2> QED BY <1>1, <1>2, <2>1, <2>2 DEF ResultOfSamples
<1> QED BY <1>3, <1>4, <1>5, <1>6

\* The file.
LEMMA WritingKeepsInv ==
  ASSUME BenchmarkInv, OpenFails \/ Open \/ WriteFails \/ Written
  PROVE  BenchmarkInv'
<1> USE DEF BenchmarkInv
<1>1. /\ UNCHANGED <<config, iteration, cancelled, calls, samples, result>>
      /\ phase \in {"finished", "buffered"} /\ phase' \in {"buffered", "written", "writeFailed"}
  BY DEF OpenFails, Open, WriteFails, Written
<1>2. BenchmarkTypeOK'
  BY <1>1 DEF BenchmarkTypeOK
<1>3. CallsCounted'
  BY <1>1 DEF CallsCounted, Finished, Collecting
<1>4. LateIsLast'
  BY <1>1 DEF LateIsLast
<1>5. ResultOfSamples'
  <2>1. phase \in Finished /\ phase' \in Finished
    BY <1>1 DEF Finished
  <2> QED BY <1>1, <2>1 DEF ResultOfSamples
<1> QED BY <1>2, <1>3, <1>4, <1>5

\* What was called, collected and summarised fits together in every state.
THEOREM BenchmarkCorrect == BenchmarkSpec => []BenchmarkInv
<1>1. BenchmarkInit => BenchmarkInv
  BY BenchmarkInitInv
<1>2. BenchmarkInv /\ [BenchmarkNext]_benchmarkVars => BenchmarkInv'
  <2> SUFFICES ASSUME BenchmarkInv, [BenchmarkNext]_benchmarkVars PROVE BenchmarkInv'
    OBVIOUS
  <2>1. CASE Cancel \/ Start \/ IterateWarmup \/ IterateMeasure \/ CallFails
    BY <2>1, ControlKeepsInv
  <2>2. CASE WarmupCall \/ MeasureCall
    BY <2>2, CallsKeepInv
  <2>3. CASE Summarise
    BY <2>3, SummariseKeepsInv
  <2>4. CASE OpenFails \/ Open \/ WriteFails \/ Written
    BY <2>4, WritingKeepsInv
  <2>5. CASE UNCHANGED benchmarkVars
    BY <2>5 DEF benchmarkVars, BenchmarkInv, BenchmarkTypeOK, CallsCounted, LateIsLast, ResultOfSamples
  <2> QED BY <2>1, <2>2, <2>3, <2>4, <2>5 DEF BenchmarkNext
<1> QED BY <1>1, <1>2, PTL DEF BenchmarkSpec

\* A finished benchmark has measured what it says.
THEOREM FinishedAlwaysMeasured == BenchmarkSpec => []FinishedIsMeasured
<1>1. BenchmarkInv => FinishedIsMeasured
  <2> SUFFICES ASSUME BenchmarkInv PROVE FinishedIsMeasured
    OBVIOUS
  <2> USE DEF BenchmarkInv
  <2>1. phase = "finished" \/ file # OldFile => MeasuredOnly /\ StatisticsOrdered
    <3> SUFFICES ASSUME phase \in Finished PROVE MeasuredOnly /\ StatisticsOrdered
      BY DEF ResultOfSamples, Finished
    <3>1. /\ Len(samples) = config.measured /\ Len(calls) = config.warmup + config.measured
          /\ \A i \in 1..Len(samples) : samples[i] = calls[config.warmup + i].time
      BY DEF CallsCounted, Collecting
    <3>2. samples \in Seq(Latencies)
      BY DEF BenchmarkTypeOK
    <3>3. samples = [i \in 1..config.measured |-> calls[config.warmup + i].time]
      <4>1. samples = [i \in 1..Len(samples) |-> samples[i]]
        BY <3>2
      <4> QED BY <3>1, <4>1
    <3>4. result.measured = config.measured /\ InOrder(result.total, samples)
      BY DEF ResultOfSamples
    <3> QED BY <3>1, <3>3, <3>4 DEF MeasuredOnly, StatisticsOrdered
  <2>2. Cardinality({i \in DOMAIN calls : calls[i].late}) <= 1
    <3> DEFINE Late == {i \in DOMAIN calls : calls[i].late}
    <3>1. DOMAIN calls = 1..Len(calls) /\ Len(calls) \in Nat
      BY DEF BenchmarkTypeOK
    <3>2. Late \in SUBSET {Len(calls)}
      <4>1. \A i \in 1..(Len(calls) - 1) : ~calls[i].late
        BY DEF LateIsLast
      <4>2. ASSUME NEW i \in 1..Len(calls), calls[i].late PROVE i = Len(calls)
        <5>1. i \notin 1..(Len(calls) - 1)
          BY <4>1, <4>2
        <5>2. \A n \in Nat : \A k \in 1..n : k \notin 1..(n - 1) => k = n
          OBVIOUS
        <5> QED BY <3>1, <4>2, <5>1, <5>2, Zenon
      <4> QED BY <3>1, <4>2
    <3> HIDE DEF Late
    <3>3. IsFiniteSet({Len(calls)}) /\ Cardinality({Len(calls)}) = 1
      BY FS_Singleton
    <3>4. Cardinality(Late) <= 1
      BY <3>2, <3>3, FS_Subset
    <3> QED BY <3>4 DEF Late
  <2>3. \A i \in 1..(Len(calls) - 1) : ~calls[i].late
    BY DEF LateIsLast
  <2> QED BY <2>1, <2>2, <2>3 DEF FinishedIsMeasured
<1> QED BY <1>1, BenchmarkCorrect, PTL
=============================================================================
