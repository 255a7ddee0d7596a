-------------------------- MODULE LogReadingProofs --------------------------
(***************************************************************************)
(* Proofs about the log, for one of any length.  Its copy: whatever fails, *)
(* the controller's copy has no gap; it is complete when the thread ends,  *)
(* unless its last batch was refused; and if nothing ever failed, each     *)
(* piece is in it once.  And its reader: what a client that follows it     *)
(* page by page has been given is always a prefix of the lines the         *)
(* controller has, unless the results overtake the forwarder, and, if no   *)
(* append fails, of the lines that the test has written.                   *)
(***************************************************************************)
EXTENDS LogReading, SequenceTheorems, FiniteSetTheorems, WellFoundedInduction, TLAPS

(* The piece before the next one to be sent is stored.                     *)
Reached == position = 0 \/ \E j \in DOMAIN stored : stored[j] = position

BatchOK == pc = "post" => position <= to

GapInv == ForwardTypeOK /\ BatchOK /\ Reached /\ NoGaps

-----------------------------------------------------------------------------
(* Appending pieces in order, from the last one reached or from a piece    *)
(* that is stored, leaves no gap.                                          *)
LEMMA PiecesTyped ==
  ASSUME NEW m \in Nat, NEW n \in Nat, NEW w \in Nat, m <= n, n <= w
  PROVE  /\ Pieces(m, n) \in Seq(1..w)
         /\ Len(Pieces(m, n)) = n - m
         /\ \A i \in 1..(n - m) : Pieces(m, n)[i] = m + i
<1>1. n - m \in Nat
  OBVIOUS
<1>2. \A i \in 1..(n - m) : m + i \in 1..w
  OBVIOUS
<1> QED
  BY <1>1, <1>2, IsASeq DEF Pieces

LEMMA AppendPieces ==
  ASSUME ForwardTypeOK, Reached, NoGaps,
         NEW part \in Nat, position <= part, part <= written,
         stored' = stored \o Pieces(position, part)
  PROVE  /\ stored' \in Seq(1..written)
         /\ \A i \in DOMAIN stored : i \in DOMAIN stored' /\ stored'[i] = stored[i]
         /\ NoGaps'
         /\ part = 0 \/ \E j \in DOMAIN stored' : stored'[j] = part
         /\ \A k \in 1..part : k > position => \E j \in DOMAIN stored' : stored'[j] = k
<1> DEFINE p == Pieces(position, part)
           n == part - position
           L == Len(stored)
<1>1. position \in Nat /\ written \in Nat /\ part \in Nat /\ n \in Nat
  BY BoundsAssumption DEF ForwardTypeOK
<1>2. p \in Seq(1..written) /\ Len(p) = n /\ \A i \in 1..n : p[i] = position + i
  BY <1>1, PiecesTyped
<1>3. stored \in Seq(1..written) /\ L \in Nat /\ DOMAIN stored = 1..L
  BY DEF ForwardTypeOK
<1>4. stored' = stored \o p
  OBVIOUS
<1> HIDE DEF p
<1>5. /\ stored' \in Seq(1..written) /\ Len(stored') = L + n
      /\ \A i \in 1..(L + n) : stored'[i] = IF i <= L THEN stored[i] ELSE p[i - L]
  <2>1. /\ stored \o p \in Seq(1..written)
        /\ Len(stored \o p) = Len(stored) + Len(p)
        /\ \A i \in 1..(Len(stored) + Len(p)) :
              (stored \o p)[i] = IF i <= Len(stored) THEN stored[i] ELSE p[i - Len(stored)]
    BY <1>2, <1>3, ConcatProperties, Zenon
  <2> QED
    BY <2>1, <1>2, <1>4
<1>6. DOMAIN stored' = 1..(L + n)
  BY <1>5
<1> HIDE DEF n, L
<1>7. \A i \in 1..L : i \in DOMAIN stored' /\ stored'[i] = stored[i]
  BY <1>1, <1>3, <1>5, <1>6
<1>8. \A i \in 1..n : L + i \in DOMAIN stored' /\ stored'[L + i] = position + i
  <2> SUFFICES ASSUME NEW i \in 1..n
               PROVE  L + i \in DOMAIN stored' /\ stored'[L + i] = position + i
    OBVIOUS
  <2>1. L + i \in 1..(L + n) /\ ~(L + i <= L) /\ (L + i) - L = i
    BY <1>1, <1>3
  <2>2. stored'[L + i] = p[i]
    BY <2>1, <1>5
  <2> QED
    BY <2>1, <2>2, <1>2, <1>6
<1>9. NoGaps'
  <2> SUFFICES ASSUME NEW i \in DOMAIN stored'
               PROVE  stored'[i] = 1 \/ \E j \in 1..(i - 1) : stored'[j] + 1 = stored'[i]
    BY DEF NoGaps
  <2>1. CASE i \in 1..L
    <3>1. stored[i] = 1 \/ \E j \in 1..(i - 1) : stored[j] + 1 = stored[i]
      BY <2>1, <1>3 DEF NoGaps
    <3>2. \A j \in 1..(i - 1) : j \in 1..L
      BY <2>1, <1>3
    <3> QED
      BY <2>1, <3>1, <3>2, <1>7
  <2>2. CASE i = L + 1 /\ 1 \in 1..n
    <3>1. stored'[i] = position + 1
      BY <2>2, <1>8
    <3>2. CASE position = 0
      BY <3>1, <3>2
    <3>3. CASE position # 0
      <4>1. PICK j \in 1..L : stored[j] = position
        BY <3>3, <1>3 DEF Reached
      <4> QED
        BY <2>2, <3>1, <4>1, <1>3, <1>7
    <3> QED
      BY <3>2, <3>3
  <2>3. ASSUME NEW k \in 1..n, k # 1, i = L + k
        PROVE  \E j \in 1..(i - 1) : stored'[j] + 1 = stored'[i]
    <3>1. k - 1 \in 1..n /\ L + (k - 1) \in 1..(i - 1)
      BY <2>3, <1>1, <1>3
    <3>2. stored'[L + (k - 1)] = position + (k - 1) /\ stored'[i] = position + k
      BY <2>3, <3>1, <1>8
    <3>3. stored'[L + (k - 1)] + 1 = stored'[i]
      <4>1. (position + (k - 1)) + 1 = position + k
        BY <1>1
      <4> QED
        BY <3>2, <4>1
    <3> QED
      BY <3>1, <3>3, Zenon
  <2>4. i \in 1..L \/ \E k \in 1..n : i = L + k
    <3>1. i \in 1..(L + n)
      BY <1>6
    <3>2. i <= L => i \in 1..L
      BY <3>1, <1>1, <1>3
    <3>3. i > L => i - L \in 1..n /\ i = L + (i - L)
      BY <3>1, <1>1, <1>3
    <3>4. i <= L \/ i > L
      BY <3>1, <1>1, <1>3
    <3> QED
      BY <3>2, <3>3, <3>4, Zenon
  <2> QED
    BY <2>1, <2>2, <2>3, <2>4
<1>10. part = 0 \/ \E j \in DOMAIN stored' : stored'[j] = part
  <2>1. CASE part = position
    BY <2>1, <1>3, <1>7 DEF Reached
  <2>2. CASE part # position
    <3>1. n \in 1..n /\ part = position + n
      BY <2>2, <1>1 DEF n
    <3> QED
      BY <3>1, <1>8
  <2> QED
    BY <2>1, <2>2
<1>11. ASSUME NEW k \in 1..part, k > position
       PROVE  \E j \in DOMAIN stored' : stored'[j] = k
  <2>1. k - position \in 1..n /\ position + (k - position) = k
    BY <1>1, <1>11 DEF n
  <2> QED
    BY <2>1, <1>8
<1> QED
  BY <1>3, <1>5, <1>7, <1>9, <1>10, <1>11

(* A post leaves the copy as it is, or opens it and appends up to a place  *)
(* of the batch.                                                           *)
LEMMA PostAppends ==
  ASSUME GapInv, pc = "post", AppendFails \/ Appends(to)
  PROVE  /\ broken' \subseteq broken \cup {Len(stored')}
         /\ \/ UNCHANGED <<exists, stored>>
            \/ /\ exists' = TRUE
               /\ \E part \in Nat : /\ position <= part /\ part <= written
                                   /\ stored' = stored \o Pieces(position, part)
<1>1. position \in Nat /\ to \in Nat /\ written \in Nat /\ position <= to /\ to <= written
  BY BoundsAssumption DEF GapInv, ForwardTypeOK, BatchOK
<1>2. \A part \in position..to : part \in Nat /\ position <= part /\ part <= written
  BY <1>1
<1>3. \A part \in position..(to - 1) : part \in position..to
  BY <1>1
<1>4. to \in position..to
  BY <1>1
<1>5. CASE UNCHANGED copyVars
  BY <1>5 DEF copyVars
<1>6. ASSUME NEW part \in position..to, Appends(part)
      PROVE  broken' = broken /\ exists' = TRUE /\ stored' = stored \o Pieces(position, part)
  BY <1>6 DEF Appends
<1> QED
  BY <1>2, <1>3, <1>4, <1>5, <1>6 DEF AppendFails

LEMMA PostKeeps ==
  ASSUME GapInv, pc = "post", AppendFails \/ Appends(to)
  PROVE  /\ stored' \in Seq(1..written) /\ NoGaps'
         /\ \A i \in DOMAIN stored : i \in DOMAIN stored' /\ stored'[i] = stored[i]
         /\ exists' \in BOOLEAN /\ broken' \subseteq Nat
<1>1. CASE UNCHANGED <<exists, stored>>
  <2>1. Len(stored') \in Nat /\ broken' \subseteq broken \cup {Len(stored')}
    BY <1>1, PostAppends DEF GapInv, ForwardTypeOK
  <2> QED
    BY <1>1, <2>1 DEF GapInv, ForwardTypeOK, NoGaps
<1>2. CASE ~UNCHANGED <<exists, stored>>
  <2>1. PICK part \in Nat : /\ position <= part /\ part <= written
                           /\ stored' = stored \o Pieces(position, part)
    BY <1>2, PostAppends
  <2>2. stored' \in Seq(1..written) /\ NoGaps'
        /\ \A i \in DOMAIN stored : i \in DOMAIN stored' /\ stored'[i] = stored[i]
    BY <2>1, AppendPieces DEF GapInv
  <2>3. broken' \subseteq broken \cup {Len(stored')} /\ exists' = TRUE
    BY <1>2, PostAppends
  <2>4. Len(stored') \in Nat
    BY <2>2, LenProperties
  <2> QED
    BY <2>2, <2>3, <2>4 DEF GapInv, ForwardTypeOK
<1> QED
  BY <1>1, <1>2

LEMMA GapInit == ForwardInit => GapInv
<1> SUFFICES ASSUME ForwardInit PROVE GapInv
  OBVIOUS
<1>1. stored = <<>> /\ stored \in Seq(1..written) /\ DOMAIN stored = {}
  BY DEF ForwardInit
<1>2. written \in 0..MaxPieces /\ position \in 0..written /\ to \in 0..written
  BY BoundsAssumption DEF ForwardInit
<1>3. stopped \in BOOLEAN /\ last \in BOOLEAN /\ pc = "check" /\ exists \in BOOLEAN /\ broken = {}
  BY DEF ForwardInit
<1>4. Reached /\ NoGaps
  BY <1>1 DEF ForwardInit, Reached, NoGaps
<1> QED
  BY <1>1, <1>2, <1>3, <1>4 DEF GapInv, ForwardTypeOK, BatchOK

(* A step of the test, of its end or of the thread preserves GapInv.       *)
LEMMA GapStep == GapInv /\ [ForwardNext]_forwardVars => GapInv'
<1> SUFFICES ASSUME GapInv, [ForwardNext]_forwardVars PROVE GapInv'
  OBVIOUS
<1> USE BoundsAssumption DEF GapInv, BatchOK
<1>1. CASE UNCHANGED forwardVars
  BY <1>1 DEF forwardVars, ForwardTypeOK, Reached, NoGaps
<1> USE DEF copyVars
<1>2. CASE Write
  <2>1. written' \in 0..MaxPieces /\ 0..written \subseteq 0..written'
        /\ 1..written \subseteq 1..written'
    BY <1>2 DEF Write, ForwardTypeOK
  <2>2. stored' \in Seq(1..written')
    BY <1>2, <2>1 DEF Write, ForwardTypeOK
  <2> QED
    BY <1>2, <2>1, <2>2 DEF Write, ForwardTypeOK, Reached, NoGaps
<1>3. CASE Stop \/ Check \/ Read \/ ReadRaises
  <2>1. written \in Nat /\ position \in Nat
    BY DEF ForwardTypeOK
  <2>2. UNCHANGED <<written, position, copyVars>>
    BY <1>3 DEF Stop, Check, Read, ReadRaises
  <2>3. stopped' \in BOOLEAN /\ last' \in BOOLEAN
        /\ pc' \in {"check", "read", "post", "ended", "dead"}
    BY <1>3 DEF Stop, Check, Read, ReadRaises, Return, ForwardTypeOK
  <2>4. to' \in 0..written /\ (pc' = "post" => position <= to')
    BY <1>3, <2>1 DEF Stop, Check, Read, ReadRaises, Return, ForwardTypeOK
  <2>5. ForwardTypeOK' /\ BatchOK'
    BY <2>2, <2>3, <2>4 DEF ForwardTypeOK
  <2> QED
    BY <2>2, <2>5 DEF Reached, NoGaps
<1>4. CASE Accepted
  <2>1. to \in Nat /\ position <= to /\ to <= written
        /\ stored' = stored \o Pieces(position, to)
    BY <1>4 DEF Accepted, Appends, ForwardTypeOK
  <2>2. stored' \in Seq(1..written) /\ NoGaps'
        /\ (to = 0 \/ \E j \in DOMAIN stored' : stored'[j] = to)
    BY <2>1, AppendPieces
  <2> QED
    BY <1>4, <2>2 DEF Accepted, Appends, Return, ForwardTypeOK, Reached
<1>5. CASE Refused \/ PostRaises
  <2>1. CASE UNCHANGED copyVars
    BY <1>5, <2>1 DEF Refused, PostRaises, Return, ForwardTypeOK, Reached, NoGaps
  <2>2. CASE AppendFails \/ Appends(to)
    <3>1. pc = "post"
      BY <1>5 DEF Refused, PostRaises
    <3>2. /\ stored' \in Seq(1..written) /\ NoGaps'
          /\ \A i \in DOMAIN stored : i \in DOMAIN stored' /\ stored'[i] = stored[i]
          /\ exists' \in BOOLEAN /\ broken' \subseteq Nat
      BY <2>2, <3>1, PostKeeps
    <3>3. pc' \in {"check", "ended", "dead"}
          /\ UNCHANGED <<written, stopped, position, last, to>>
      BY <1>5 DEF Refused, PostRaises, Return
    <3> QED
      BY <3>2, <3>3 DEF ForwardTypeOK, Reached
  <2> QED
    BY <1>5, <2>1, <2>2 DEF Refused, PostRaises
<1> QED
  BY <1>1, <1>2, <1>3, <1>4, <1>5 DEF ForwardNext, LogClient

(* The controller's copy never skips a piece of the log, under every       *)
(* perturbation and for a log of any length.                               *)
THEOREM NothingSkipped == ForwardSpec => []NoGaps
<1>1. GapInv => NoGaps
  BY DEF GapInv
<1> QED
  BY <1>1, GapInit, GapStep, PTL DEF ForwardSpec

-----------------------------------------------------------------------------
(* Every piece up to the position is stored, and the last read, which comes*)
(* after the end of the test, goes to the end of the log.                  *)
AllReached == \A k \in 1..position : \E j \in DOMAIN stored : stored[j] = k

LostInv ==
    /\ AllReached
    /\ last => stopped
    /\ pc \in {"post", "ended"} /\ last => to = written
    /\ pc = "ended" => last

(* A step that leaves the position keeps what is stored up to it.          *)
LEMMA StillReached ==
  ASSUME AllReached, position' = position,
         \A i \in DOMAIN stored : i \in DOMAIN stored' /\ stored'[i] = stored[i]
  PROVE  AllReached'
  BY DEF AllReached

LEMMA LostInit == ForwardInit => LostInv
<1> SUFFICES ASSUME ForwardInit PROVE LostInv
  OBVIOUS
<1>1. position = 0 /\ last = FALSE /\ pc = "check"
  BY DEF ForwardInit
<1>2. 1..position = {}
  BY <1>1
<1> QED
  BY <1>1, <1>2 DEF LostInv, AllReached

LEMMA LostStep ==
  ~May("orphan") /\ GapInv /\ LostInv /\ [ForwardNext]_forwardVars => LostInv'
<1> SUFFICES ASSUME ~May("orphan"), GapInv, LostInv, [ForwardNext]_forwardVars
             PROVE  LostInv'
  OBVIOUS
<1> USE DEF LostInv
<1>1. CASE UNCHANGED forwardVars
  BY <1>1 DEF forwardVars, AllReached
<1> USE DEF copyVars
<1>2. CASE Write \/ Stop
  <2>1. AllReached'
    BY <1>2, StillReached DEF Write, Stop
  <2> QED
    BY <1>2, <2>1 DEF Write, Stop
<1>3. CASE Check \/ ReadRaises
  <2>1. AllReached'
    BY <1>3, StillReached DEF Check, ReadRaises
  <2> QED
    BY <1>3, <2>1 DEF Check, ReadRaises
<1>4. CASE Read
  <2>1. AllReached'
    BY <1>4, StillReached DEF Read
  <2> QED
    BY <1>4, <2>1 DEF Read, Return
<1>5. CASE Accepted
  <2>1. /\ position \in Nat /\ to \in Nat /\ position <= to /\ to <= written
        /\ stored' = stored \o Pieces(position, to)
    BY <1>5, BoundsAssumption DEF Accepted, Appends, GapInv, BatchOK, ForwardTypeOK
  <2>2. /\ \A i \in DOMAIN stored : i \in DOMAIN stored' /\ stored'[i] = stored[i]
        /\ \A k \in 1..to : k > position => \E j \in DOMAIN stored' : stored'[j] = k
    BY <2>1, AppendPieces DEF GapInv
  <2>3. ASSUME NEW k \in 1..to PROVE \E j \in DOMAIN stored' : stored'[j] = k
    <3>1. CASE k > position
      BY <2>2, <3>1
    <3>2. CASE ~(k > position)
      <4>1. k \in 1..position
        BY <2>1, <3>2
      <4> QED
        BY <2>2, <4>1 DEF AllReached
    <3> QED
      BY <3>1, <3>2
  <2>4. AllReached'
    BY <1>5, <2>3 DEF Accepted, AllReached
  <2> QED
    BY <1>5, <2>4 DEF Accepted, Return
<1>6. CASE Refused \/ PostRaises
  <2>1. pc = "post" /\ (UNCHANGED copyVars \/ AppendFails \/ Appends(to))
    BY <1>6 DEF Refused, PostRaises
  <2>2. \A i \in DOMAIN stored : i \in DOMAIN stored' /\ stored'[i] = stored[i]
    BY <2>1, PostKeeps
  <2>3. AllReached'
    BY <1>6, <2>2, StillReached DEF Refused, PostRaises
  <2> QED
    BY <1>6, <2>3 DEF Refused, PostRaises, Return
<1> QED
  BY <1>1, <1>2, <1>3, <1>4, <1>5, <1>6 DEF ForwardNext, LogClient

(* Whatever was refused or lost before: if the thread ends, and not at a   *)
(* batch that was refused, the copy has every piece of the log, for a log  *)
(* of any length that only the test writes.                                *)
THEOREM NothingLost == ~May("orphan") => (ForwardSpec => []LogIsComplete)
<1> SUFFICES ASSUME ~May("orphan") PROVE ForwardSpec => []LogIsComplete
  OBVIOUS
<1>1. ForwardInit => GapInv /\ LostInv
  BY GapInit, LostInit
<1>2. GapInv /\ LostInv /\ [ForwardNext]_forwardVars => (GapInv /\ LostInv)'
  BY GapStep, LostStep
<1>3. GapInv /\ LostInv => LogIsComplete
  BY DEF LostInv, AllReached, LogIsComplete
<1> QED
  BY <1>1, <1>2, <1>3, PTL DEF ForwardSpec

-----------------------------------------------------------------------------
Faultless == ~May("disk") /\ ~May("net") /\ ~May("file") /\ ~May("orphan")

(* The copy is what the position says, and the last read, which comes      *)
(* after the end of the test, goes to the end of the log.                  *)
CompleteInv ==
    /\ ForwardTypeOK /\ BatchOK
    /\ stored = Pieces(0, position)
    /\ last => stopped
    /\ pc = "post" /\ last => to = written
    /\ pc = "ended" => last /\ position = written
    /\ pc # "dead"

LEMMA PiecesJoin ==
  ASSUME NEW m \in Nat, NEW n \in Nat, m <= n
  PROVE  Pieces(0, m) \o Pieces(m, n) = Pieces(0, n)
<1> DEFINE a == Pieces(0, m)
           b == Pieces(m, n)
           c == Pieces(0, n)
<1>1. /\ a \in Seq(1..n) /\ Len(a) = m /\ \A i \in 1..m : a[i] = i
      /\ b \in Seq(1..n) /\ Len(b) = n - m /\ \A i \in 1..(n - m) : b[i] = m + i
      /\ c \in Seq(1..n) /\ Len(c) = n /\ \A i \in 1..n : c[i] = i
  <2> 0 \in Nat /\ 0 <= m /\ 0 <= n /\ n <= n
    OBVIOUS
  <2>1. Pieces(0, m) \in Seq(1..n) /\ Len(Pieces(0, m)) = m - 0
        /\ \A i \in 1..(m - 0) : Pieces(0, m)[i] = 0 + i
    BY PiecesTyped
  <2>2. Pieces(m, n) \in Seq(1..n) /\ Len(Pieces(m, n)) = n - m
        /\ \A i \in 1..(n - m) : Pieces(m, n)[i] = m + i
    BY PiecesTyped
  <2>3. Pieces(0, n) \in Seq(1..n) /\ Len(Pieces(0, n)) = n - 0
        /\ \A i \in 1..(n - 0) : Pieces(0, n)[i] = 0 + i
    BY PiecesTyped
  <2> QED
    BY <2>1, <2>2, <2>3
<1> HIDE DEF a, b, c
<1>2. /\ a \o b \in Seq(1..n)
      /\ Len(a \o b) = Len(a) + Len(b)
      /\ \A i \in 1..(Len(a) + Len(b)) :
            (a \o b)[i] = IF i <= Len(a) THEN a[i] ELSE b[i - Len(a)]
  <2>1. a \in Seq(1..n) /\ b \in Seq(1..n)
    BY <1>1
  <2> QED
    BY <2>1, ConcatProperties, Zenon
<1>3. Len(a \o b) = Len(c) /\ \A i \in 1..Len(a \o b) : (a \o b)[i] = c[i]
  <2>1. Len(a \o b) = n
    BY <1>1, <1>2
  <2> SUFFICES ASSUME NEW i \in 1..n PROVE (a \o b)[i] = c[i]
    BY <2>1, <1>1
  <2>2. CASE i <= m
    BY <2>2, <1>1, <1>2
  <2>3. CASE ~(i <= m)
    <3>1. i - m \in 1..(n - m) /\ m + (i - m) = i
      BY <2>3
    <3>2. i \in 1..(Len(a) + Len(b)) /\ Len(a) = m
      BY <1>1
    <3>3. (a \o b)[i] = b[i - m]
      BY <2>3, <3>2, <1>2
    <3> QED
      BY <3>1, <3>3, <1>1
  <2> QED
    BY <2>2, <2>3
<1>4. a \o b = c
  BY <1>1, <1>2, <1>3, SeqEqual
<1> QED
  BY <1>4 DEF a, b, c

LEMMA CompleteInit == ForwardInit => CompleteInv
<1> SUFFICES ASSUME ForwardInit PROVE CompleteInv
  OBVIOUS
<1>1. ForwardTypeOK /\ BatchOK
  BY GapInit DEF GapInv
<1>2. stored = Pieces(0, position)
  BY DEF ForwardInit, Pieces
<1> QED
  BY <1>1, <1>2 DEF ForwardInit, CompleteInv

LEMMA CompleteStep ==
  Faultless /\ CompleteInv /\ GapInv' /\ [ForwardNext]_forwardVars => CompleteInv'
<1> SUFFICES ASSUME Faultless, CompleteInv, ForwardTypeOK', BatchOK', [ForwardNext]_forwardVars
             PROVE  CompleteInv'
  BY DEF GapInv
<1> USE DEF CompleteInv
<1>1. CASE UNCHANGED forwardVars
  BY <1>1 DEF forwardVars
<1> USE DEF copyVars
<1>2. CASE Write \/ Stop
  BY <1>2 DEF Write, Stop, Faultless
<1>3. CASE Check
  BY <1>3 DEF Check
<1>4. CASE Read
  <2>1. position <= written /\ written \in Nat /\ position \in Nat
    BY BoundsAssumption DEF ForwardTypeOK
  <2>2. CASE written > position
    BY <1>4, <2>2 DEF Read
  <2>3. CASE ~(written > position)
    <3>1. position = written
      BY <2>1, <2>3
    <3> QED
      BY <1>4, <2>3, <3>1 DEF Read, Return
  <2> QED
    BY <2>2, <2>3
<1>5. CASE Accepted
  <2>1. stored' = Pieces(0, position) \o Pieces(position, to)
    BY <1>5 DEF Accepted, Appends
  <2>2. position \in Nat /\ to \in Nat /\ position <= to
    BY <1>5 DEF Accepted, ForwardTypeOK, BatchOK
  <2>3. stored' = Pieces(0, to)
    BY <2>1, <2>2, PiecesJoin
  <2> QED
    BY <1>5, <2>3 DEF Accepted, Return
<1> QED
  BY <1>1, <1>2, <1>3, <1>4, <1>5
     DEF ForwardNext, LogClient, Refused, PostRaises, ReadRaises, Faultless

ExactCopy == pc = "ended" => stored = Pieces(0, written)

(* Without failures the controller's copy is the log, each piece once, when*)
(* the thread ends, for a log of any length.                               *)
THEOREM NothingRepeated == Faultless => (ForwardSpec => []ExactCopy)
<1> SUFFICES ASSUME Faultless PROVE ForwardSpec => []ExactCopy
  OBVIOUS
<1>2. ForwardInit => GapInv /\ CompleteInv
  BY GapInit, CompleteInit
<1>3. GapInv /\ CompleteInv /\ [ForwardNext]_forwardVars => (GapInv /\ CompleteInv)'
  BY GapStep, CompleteStep
<1>4. CompleteInv => ExactCopy
  BY DEF CompleteInv, ExactCopy
<1> QED
  BY <1>2, <1>3, <1>4, PTL DEF ForwardSpec

-----------------------------------------------------------------------------
(* Counting newlines                                                       *)

(* Numbers have a least one, since there is no endless chain of intervals  *)
(* 0..n inside each other.                                                 *)
LEMMA LeastNumber ==
  ASSUME NEW T, T \subseteq Nat, T # {}
  PROVE  \E x \in T : \A y \in T : x <= y
<1> DEFINE R == StrictSubsetOrdering(Nat)
           F == {0..n : n \in T}
<1>1. IsWellFoundedOn(R, FiniteSubsetsOf(Nat))
  BY FS_StrictSubsetOrderingWellFounded
<1>2. F \subseteq FiniteSubsetsOf(Nat) /\ F # {}
  <2>1. \A n \in T : IsFiniteSet(0..n) /\ 0..n \subseteq Nat
    BY FS_Interval
  <2> QED
    BY <2>1 DEF FiniteSubsetsOf
<1>3. \E a \in F : \A b \in F : <<b, a>> \notin R
  <2> HIDE DEF F, R
  <2> QED
    BY <1>1, <1>2, WFMin
<1>4. PICK x \in T : \A y \in T : <<0..y, 0..x>> \notin R
  BY <1>3
<1>5. \A y \in T : y < x => <<0..y, 0..x>> \in R
  <2>1. ASSUME NEW y \in T, y < x PROVE 0..y \subseteq 0..x /\ 0..y # 0..x
    <3>1. x \in 0..x /\ x \notin 0..y
      BY <2>1
    <3> QED
      BY <2>1, <3>1
  <2> QED
    BY <2>1 DEF StrictSubsetOrdering
<1> HIDE DEF R
<1>6. \A y \in T : ~(y < x)
  BY <1>4, <1>5
<1>7. \A y \in T : y \in Nat /\ x \in Nat
  OBVIOUS
<1> QED
  BY <1>6, <1>7

LEMMA UpToIsFinite ==
  ASSUME NEW N, N \subseteq Nat, NEW i \in Nat
  PROVE  /\ IsFiniteSet(UpTo(N, i)) /\ Cardinality(UpTo(N, i)) \in Nat
         /\ i + 1 \in N => Cardinality(UpTo(N, i + 1)) = Cardinality(UpTo(N, i)) + 1
         /\ i + 1 \notin N => UpTo(N, i + 1) = UpTo(N, i)
<1>1. IsFiniteSet(UpTo(N, i))
  <2>1. UpTo(N, i) \in SUBSET Nat /\ \A j \in UpTo(N, i) : j <= i
    BY DEF UpTo
  <2> QED
    BY <2>1, FS_BoundedSetOfNaturals
<1>2. Cardinality(UpTo(N, i)) \in Nat
  BY <1>1, FS_CardinalityType
<1>3. \A j \in N : j <= i + 1 <=> j <= i \/ j = i + 1
  <2>1. \A j \in Nat : j <= i + 1 <=> j <= i \/ j = i + 1
    OBVIOUS
  <2> QED
    BY <2>1
<1>4. ASSUME i + 1 \in N PROVE Cardinality(UpTo(N, i + 1)) = Cardinality(UpTo(N, i)) + 1
  <2>1. UpTo(N, i + 1) = UpTo(N, i) \cup {i + 1}
    BY <1>3, <1>4, Zenon DEF UpTo
  <2>2. i + 1 \notin UpTo(N, i)
    BY DEF UpTo
  <2> QED
    BY <1>1, <2>1, <2>2, FS_AddElement
<1>5. ASSUME i + 1 \notin N PROVE UpTo(N, i + 1) = UpTo(N, i)
  BY <1>3, <1>5, Zenon DEF UpTo
<1> QED
  BY <1>1, <1>2, <1>4, <1>5

(* Any number up to that of the newlines is the count at one of them.      *)
LEMMA KthExists ==
  ASSUME NEW N, N \subseteq Nat \ {0}, NEW n \in Nat, \A j \in N : j <= n,
         NEW k \in 1..Cardinality(N)
  PROVE  \E i \in N : Cardinality(UpTo(N, i)) = k
<1> DEFINE c(i) == Cardinality(UpTo(N, i))
           T == {i \in Nat : k <= c(i)}
<1>1. c(n) = Cardinality(N) /\ n \in T /\ c(n) \in Nat
  <2>1. UpTo(N, n) = N
    BY DEF UpTo
  <2>2. Cardinality(N) \in Nat
    BY <2>1, UpToIsFinite
  <2> QED
    BY <2>1, <2>2
<1>2. PICK x \in T : \A y \in T : x <= y
  BY <1>1, LeastNumber
<1>3. x # 0
  <2>1. \A j \in N : ~(j <= 0)
    <3>1. \A j \in Nat \ {0} : ~(j <= 0)
      OBVIOUS
    <3> QED
      BY <3>1
  <2>2. UpTo(N, 0) = {}
    BY <2>1, Zenon DEF UpTo
  <2>3. c(0) = 0
    BY <2>2, FS_EmptySet
  <2>4. ~(k <= 0)
    BY <1>1
  <2> QED
    BY <1>2, <2>3, <2>4
<1>4. x - 1 \in Nat /\ x - 1 \notin T /\ (x - 1) + 1 = x /\ x \in Nat
  BY <1>2, <1>3
<1>5. c(x - 1) \in Nat /\ c(x - 1) < k /\ k <= c(x) /\ k \in Nat
  <2>1. c(x - 1) \in Nat /\ N \subseteq Nat
    BY <1>4, UpToIsFinite
  <2>2. k \in Nat /\ ~(k <= c(x - 1)) /\ k <= c(x)
    BY <1>1, <1>4
  <2> HIDE DEF c
  <2> QED
    BY <2>1, <2>2
<1>6. x \in N /\ c(x) = c(x - 1) + 1
  BY <1>4, <1>5, UpToIsFinite
<1>7. c(x) = k
  <2> HIDE DEF c
  <2> QED
    BY <1>5, <1>6
<1> QED
  BY <1>6, <1>7

(* Different newlines have different counts.                               *)
LEMMA KthIsOne ==
  ASSUME NEW N, N \subseteq Nat, NEW i \in N, NEW j \in N,
         Cardinality(UpTo(N, i)) = Cardinality(UpTo(N, j))
  PROVE  i = j
<1>1. ASSUME NEW a \in N, NEW b \in N, a < b,
             Cardinality(UpTo(N, a)) = Cardinality(UpTo(N, b))
      PROVE  FALSE
  <2>1. IsFiniteSet(UpTo(N, b)) /\ UpTo(N, a) \in SUBSET UpTo(N, b)
    <3>1. \A x \in N : x <= a => x <= b
      BY <1>1
    <3>2. b \in Nat
      OBVIOUS
    <3> QED
      BY <3>1, <3>2, UpToIsFinite DEF UpTo
  <2>2. UpTo(N, a) = UpTo(N, b)
    BY <1>1, <2>1, FS_Subset
  <2>3. b \in UpTo(N, b) /\ b \notin UpTo(N, a)
    BY <1>1 DEF UpTo
  <2> QED
    BY <2>2, <2>3
<1> QED
  BY <1>1

-----------------------------------------------------------------------------
(* The lines of a growing copy                                             *)

LEMMA NewlinesAre ==
  ASSUME NEW s \in Seq(Nat)
  PROVE  /\ Newlines(s) \subseteq 1..Len(s) /\ Newlines(s) \subseteq Nat \ {0}
         /\ IsFiniteSet(Newlines(s)) /\ Cardinality(Newlines(s)) \in Nat
<1>1. Newlines(s) \subseteq 1..Len(s) /\ Len(s) \in Nat
  BY DEF Newlines
<1>2. IsFiniteSet(1..Len(s))
  BY <1>1, FS_Interval
<1> QED
  BY <1>1, <1>2, FS_Subset, FS_CardinalityType

(* CHOOSE finds the end of every line that has one.                        *)
LEMMA LineEndIs ==
  ASSUME NEW s \in Seq(Nat), NEW k \in 1..Cardinality(Newlines(s))
  PROVE  LineEnd(s, k) \in Newlines(s) /\ Cardinality(UpTo(Newlines(s), LineEnd(s, k))) = k
<1>1. Len(s) \in Nat /\ \A j \in Newlines(s) : j <= Len(s)
  BY NewlinesAre
<1>2. \E i \in Newlines(s) : Cardinality(UpTo(Newlines(s), i)) = k
  BY <1>1, NewlinesAre, KthExists
<1> QED
  BY <1>2 DEF LineEnd

LEMMA LineStartIs ==
  ASSUME NEW s \in Seq(Nat), NEW k \in 1..Cardinality(Newlines(s))
  PROVE  LineStart(s, k) \in 1..Len(s)
<1> DEFINE N == Newlines(s)
<1>1. N \subseteq Nat /\ N \subseteq 1..Len(s) /\ Cardinality(N) \in Nat
  BY NewlinesAre
<1>2. CASE k = 1
  <2>1. LineEnd(s, k) \in 1..Len(s)
    BY <1>1, LineEndIs
  <2> QED
    BY <1>2, <2>1 DEF LineStart
<1>3. CASE k # 1
  <2>1. k - 1 \in 1..Cardinality(N)
    BY <1>1, <1>3
  <2> DEFINE a == LineEnd(s, k - 1)
             b == LineEnd(s, k)
  <2>2. /\ a \in N /\ Cardinality(UpTo(N, a)) = k - 1
        /\ b \in N /\ Cardinality(UpTo(N, b)) = k
    BY <2>1, LineEndIs
  <2> HIDE DEF a, b, N
  <2>3. ASSUME b <= a PROVE FALSE
    <3>1. \A j \in N : j <= b => j <= a
      BY <1>1, <2>2, <2>3
    <3>2. UpTo(N, b) \in SUBSET UpTo(N, a) /\ IsFiniteSet(UpTo(N, a))
      BY <1>1, <2>2, <3>1, UpToIsFinite DEF UpTo
    <3>3. k <= k - 1
      BY <2>2, <3>2, FS_Subset
    <3> QED
      BY <1>1, <3>3
  <2>4. a + 1 \in 1..Len(s)
    BY <1>1, <2>2, <2>3
  <2>5. LineStart(s, k) = a + 1
    BY <1>3 DEF LineStart, a
  <2> QED
    BY <2>4, <2>5
<1> QED
  BY <1>2, <1>3

(* What is appended leaves the newlines, their counts and the lines that   *)
(* were complete as they are.                                              *)
LEMMA NewlinesKept ==
  ASSUME NEW s \in Seq(Nat), NEW t \in Seq(Nat)
  PROVE  /\ s \o t \in Seq(Nat)
         /\ Newlines(s) \subseteq Newlines(s \o t)
         /\ \A j \in Newlines(s \o t) : j <= Len(s) => j \in Newlines(s)
         /\ Cardinality(Newlines(s)) <= Cardinality(Newlines(s \o t))
         /\ \A k \in 1..Cardinality(Newlines(s)) : k \in 1..Cardinality(Newlines(s \o t))
<1>1. /\ s \o t \in Seq(Nat) /\ Len(s) \in Nat /\ Len(t) \in Nat
      /\ Len(s \o t) = Len(s) + Len(t)
      /\ \A i \in 1..(Len(s) + Len(t)) : (s \o t)[i] = IF i <= Len(s) THEN s[i] ELSE t[i - Len(s)]
  BY ConcatProperties
<1>2. DOMAIN s = 1..Len(s) /\ DOMAIN (s \o t) = 1..(Len(s) + Len(t))
  BY <1>1, LenProperties
<1>3. \A i \in 1..(Len(s) + Len(t)) : i <= Len(s) => (s \o t)[i] = s[i] /\ i \in 1..Len(s)
  BY <1>1
<1>4. \A i \in 1..Len(s) : i \in 1..(Len(s) + Len(t)) /\ i <= Len(s)
  BY <1>1
<1>5. Newlines(s) \subseteq Newlines(s \o t)
  BY <1>2, <1>3, <1>4, Zenon DEF Newlines
<1>6. \A j \in Newlines(s \o t) : j <= Len(s) => j \in Newlines(s)
  BY <1>2, <1>3, Zenon DEF Newlines
<1>7. Cardinality(Newlines(s)) <= Cardinality(Newlines(s \o t))
  BY <1>1, <1>5, NewlinesAre, FS_Subset
<1>8. \A k \in 1..Cardinality(Newlines(s)) : k \in 1..Cardinality(Newlines(s \o t))
  <2>1. Cardinality(Newlines(s)) \in Nat /\ Cardinality(Newlines(s \o t)) \in Nat
    BY <1>1, NewlinesAre
  <2> QED
    BY <1>7, <2>1
<1> QED
  BY <1>1, <1>5, <1>6, <1>7, <1>8

LEMMA LineEndKept ==
  ASSUME NEW s \in Seq(Nat), NEW t \in Seq(Nat), NEW k \in 1..Cardinality(Newlines(s))
  PROVE  LineEnd(s \o t, k) = LineEnd(s, k)
<1> DEFINE u == s \o t
           i == LineEnd(s, k)
           j == LineEnd(u, k)
<1>1. i \in Newlines(s) /\ Cardinality(UpTo(Newlines(s), i)) = k
  BY LineEndIs
<1>2. k \in 1..Cardinality(Newlines(u)) /\ u \in Seq(Nat)
  BY NewlinesKept, Zenon
<1>3. j \in Newlines(u) /\ Cardinality(UpTo(Newlines(u), j)) = k
  BY <1>2, LineEndIs
<1>4. i \in Newlines(u) /\ UpTo(Newlines(u), i) = UpTo(Newlines(s), i)
  <2>1. i \in 1..Len(s) /\ Len(s) \in Nat
    BY <1>1, NewlinesAre
  <2>2. \A a \in Newlines(u) : a \in Nat
    BY <1>2, NewlinesAre
  <2>3. \A a \in Newlines(u) : a <= i => a <= Len(s)
    BY <2>1, <2>2
  <2> QED
    BY <1>1, <2>3, NewlinesKept, Zenon DEF UpTo
<1>5. Newlines(u) \subseteq Nat
  BY <1>2, NewlinesAre
<1> HIDE DEF u, i, j
<1>6. i = j
  BY <1>1, <1>3, <1>4, <1>5, KthIsOne
<1> QED
  BY <1>6 DEF u, i, j

LEMMA SplitKept ==
  ASSUME NEW s \in Seq(Nat), NEW t \in Seq(Nat)
  PROVE  /\ Split(s) \in Seq(Seq(Nat)) /\ Split(s \o t) \in Seq(Seq(Nat))
         /\ Len(Split(s)) <= Len(Split(s \o t))
         /\ \A k \in 1..Len(Split(s)) : Split(s \o t)[k] = Split(s)[k]
<1>1. ASSUME NEW u \in Seq(Nat)
      PROVE  Split(u) \in Seq(Seq(Nat)) /\ Len(Split(u)) = Cardinality(Newlines(u))
  <2> DEFINE n == Cardinality(Newlines(u))
  <2>1. n \in Nat
    BY NewlinesAre
  <2>2. ASSUME NEW k \in 1..n PROVE SubSeq(u, LineStart(u, k), LineEnd(u, k)) \in Seq(Nat)
    <3>1. LineStart(u, k) \in 1..Len(u) /\ LineEnd(u, k) \in 1..Len(u)
      BY LineStartIs, LineEndIs, NewlinesAre
    <3> QED
      BY <3>1
  <2>3. Split(u) \in [1..n -> Seq(Nat)]
    BY <2>2, Zenon DEF Split
  <2> HIDE DEF n
  <2>4. Split(u) \in Seq(Seq(Nat))
    <3>1. [1..n -> Seq(Nat)] \in {[1..m -> Seq(Nat)] : m \in Nat}
      BY <2>1
    <3>2. Split(u) \in UNION {[1..m -> Seq(Nat)] : m \in Nat}
      BY <2>3, <3>1, Zenon
    <3> QED
      BY <3>2, SeqDef, Zenon
  <2>5. DOMAIN Split(u) = 1..n
    BY <2>3, Zenon
  <2>6. Len(Split(u)) \in Nat /\ DOMAIN Split(u) = 1..Len(Split(u))
    BY <2>4, LenProperties
  <2> HIDE DEF Split
  <2>7. Len(Split(u)) = n
    BY <2>1, <2>5, <2>6
  <2> QED
    BY <2>4, <2>7 DEF n
<1>2. s \o t \in Seq(Nat)
  BY NewlinesKept
<1>3. ASSUME NEW k \in 1..Cardinality(Newlines(s)) PROVE Split(s \o t)[k] = Split(s)[k]
  <2>1. k \in 1..Cardinality(Newlines(s \o t))
    BY NewlinesKept, Zenon
  <2>2. LineEnd(s \o t, k) = LineEnd(s, k)
    BY LineEndKept
  <2>3. LineStart(s \o t, k) = LineStart(s, k)
    <3>1. CASE k = 1
      BY <3>1 DEF LineStart
    <3>2. CASE k # 1
      <4>1. k - 1 \in 1..Cardinality(Newlines(s))
        BY <3>2, NewlinesAre
      <4> QED
        BY <3>2, <4>1, LineEndKept DEF LineStart
    <3> QED
      BY <3>1, <3>2
  <2>4. LineStart(s, k) \in 1..Len(s) /\ LineEnd(s, k) \in 1..Len(s)
    BY LineStartIs, LineEndIs, NewlinesAre
  <2>5. SubSeq(s \o t, LineStart(s, k), LineEnd(s, k)) = SubSeq(s, LineStart(s, k), LineEnd(s, k))
    BY <2>4, SubSeqOfConcat1
  <2>6. /\ Split(s \o t)[k] = SubSeq(s \o t, LineStart(s \o t, k), LineEnd(s \o t, k))
        /\ Split(s)[k] = SubSeq(s, LineStart(s, k), LineEnd(s, k))
    BY <2>1 DEF Split
  <2> QED
    BY <2>2, <2>3, <2>5, <2>6
<1> QED
  BY <1>1, <1>2, <1>3, NewlinesKept

-----------------------------------------------------------------------------
(* Following the lines                                                     *)

Line == Seq(Nat) \cup {<<"archive", k>> : k \in Nat}

(* The client is inside the file that it is served from, and this file     *)
(* does not change under it: the archive is only read when nothing is      *)
(* appended any more.                                                      *)
ReadInv ==
    /\ got \in Seq(Line) /\ archived \in BOOLEAN
    /\ archived => pc \in {"ended", "dead"}
    /\ ReadsTheLog

LEMMA PrefixIs ==
  ASSUME NEW S, NEW g \in Seq(S), NEW f \in Seq(S)
  PROVE  IsPrefix(g, f) <=> Len(g) <= Len(f) /\ \A i \in 1..Len(g) : g[i] = f[i]
<1>1. Len(g) \in Nat /\ Len(f) \in Nat
  OBVIOUS
<1>2. SubSeq(g, 1, Len(g)) = g
  BY SubSeqFull
<1>3. ASSUME Len(g) <= Len(f)
      PROVE  g = SubSeq(f, 1, Len(g)) <=> \A i \in 1..Len(g) : g[i] = f[i]
  <2> DEFINE h == SubSeq(f, 1, Len(g))
  <2>1. \A i \in 1..Len(g) : f[i] \in S
    BY <1>1, <1>3
  <2>2. h \in Seq(S) /\ Len(h) = Len(g) /\ \A i \in 1..Len(g) : h[i] = f[i]
    BY <1>1, <1>3
  <2> HIDE DEF h
  <2>3. (\A i \in 1..Len(g) : g[i] = h[i]) => g = h
    BY <2>2, SeqEqual
  <2> QED
    BY <2>2, <2>3 DEF h
<1> QED
  BY <1>2, <1>3 DEF IsPrefix

LEMMA EmptyIsPrefix ==
  ASSUME NEW S, NEW f \in Seq(S)
  PROVE  IsPrefix(<<>>, f)
<1> DEFINE e == <<>>
<1>1. e \in Seq(S) /\ Len(e) = 0 /\ Len(f) \in Nat
  OBVIOUS
<1> HIDE DEF e
<1>2. Len(e) <= Len(f) /\ \A i \in 1..Len(e) : e[i] = f[i]
  BY <1>1
<1>3. IsPrefix(e, f)
  BY <1>1, <1>2, PrefixIs
<1> QED
  BY <1>3 DEF e

LEMMA StoredTyped == ForwardTypeOK => stored \in Seq(Nat)
<1>1. ASSUME ForwardTypeOK PROVE stored \in Seq(1..written) /\ 1..written \subseteq Nat
  BY <1>1, BoundsAssumption DEF ForwardTypeOK
<1> QED
  BY <1>1, SeqMonotonic

LogFileOK == LogFile \in Seq(Line)

LEMMA LogFileTyped == ForwardTypeOK => LogFileOK
<1> SUFFICES ASSUME ForwardTypeOK PROVE LogFile \in Seq(Line)
  BY DEF LogFileOK
<1>1. Split(stored) \in Seq(Seq(Nat))
  BY StoredTyped, SplitKept
<1>2. Split(stored) \in Seq(Line)
  BY <1>1, SeqMonotonic DEF Line
<1>3. Archive \in Seq(Line)
  BY PagesAssumption DEF Archive, Line
<1> QED
  BY <1>2, <1>3 DEF LogFile, LinesOf

LEMMA NextLogFileTyped == ForwardTypeOK' => LogFileOK'
BY LogFileTyped, PTL

(* A page starts where the client is and ends inside the file.             *)
LEMMA PageIs ==
  ASSUME NEW f \in Seq(Line), NEW index \in Nat
  PROVE  \E m \in Nat : m <= Len(f) /\ Sed(f, index, PageSize) = SubSeq(f, index, m)
<1>1. Len(f) \in Nat /\ PageSize \in Nat
  BY PagesAssumption
<1>2. ASSUME NEW a \in Nat, NEW b \in Nat
      PROVE  Max({a, b}) \in Nat /\ Min({a, b}) \in Nat /\ Min({a, b}) <= b
  <2>1. \E x \in {a, b} : \A y \in {a, b} : x >= y
    OBVIOUS
  <2>2. \E x \in {a, b} : \A y \in {a, b} : x <= y
    OBVIOUS
  <2> QED
    BY <2>1, <2>2 DEF Max, Min
<1>3. CASE PageSize < 1
  BY <1>1, <1>3 DEF Sed
<1>4. CASE ~(PageSize < 1)
  BY <1>1, <1>2, <1>4 DEF Sed
<1> QED
  BY <1>3, <1>4

LEMMA GetLogKeeps == ForwardTypeOK /\ ReadInv /\ GetLog => ReadInv'
<1> SUFFICES ASSUME ForwardTypeOK, ReadInv, GetLog PROVE ReadInv'
  OBVIOUS
<1> DEFINE f == LogFile
           n == Len(got)
<1>1. f \in Seq(Line) /\ got \in Seq(Line) /\ n \in Nat /\ Len(f) \in Nat
  BY LogFileTyped DEF ReadInv, LogFileOK
<1>2. n <= Len(f) /\ \A i \in 1..n : got[i] = f[i]
  BY <1>1, PrefixIs DEF ReadInv, ReadsTheLog
<1>3. LogFile' = f
  BY DEF GetLog, forwardVars, LogFile, LinesOf, Split, Newlines, LineStart, LineEnd
<1> SUFFICES ASSUME ~Undecodable(n + 1, PageSize) PROVE ReadInv'
  BY <1>3 DEF GetLog, ReadInv, ReadsTheLog, forwardVars
<1>4. PICK m \in Nat : m <= Len(f) /\ got' = got \o SubSeq(f, n + 1, m)
  <2>1. n + 1 \in Nat
    BY <1>1
  <2>2. \E m \in Nat : m <= Len(f) /\ Sed(f, n + 1, PageSize) = SubSeq(f, n + 1, m)
    BY <1>1, <2>1, PageIs
  <2>3. got' = got \o Sed(f, n + 1, PageSize)
    BY DEF GetLog
  <2> QED
    BY <2>2, <2>3
<1> HIDE DEF f
<1> DEFINE page == SubSeq(f, n + 1, m)
           k == IF n + 1 <= m THEN m - n ELSE 0
<1>5. /\ page \in Seq(Line) /\ Len(page) = k /\ k \in Nat /\ n + k <= Len(f)
      /\ \A i \in 1..k : page[i] = f[n + i]
  <2>1. \A i \in (n + 1)..m : f[i] \in Line
    BY <1>1, <1>4
  <2>2. /\ page \in Seq(Line) /\ Len(page) = (IF n + 1 <= m THEN m - (n + 1) + 1 ELSE 0)
        /\ \A i \in 1..(m - (n + 1) + 1) : page[i] = f[(n + 1) + i - 1]
    BY <1>1, <2>1, SubSeqProperties
  <2> HIDE DEF page
  <2> QED
    BY <1>1, <1>2, <1>4, <2>2
<1> HIDE DEF page, k
<1>6. /\ got \o page \in Seq(Line) /\ Len(got \o page) = n + k
      /\ \A i \in 1..(n + k) : (got \o page)[i] = IF i <= n THEN got[i] ELSE page[i - n]
  BY <1>1, <1>5, ConcatProperties
<1>7. got' = got \o page
  BY <1>4 DEF page
<1>8. \A i \in 1..(n + k) : (got \o page)[i] = f[i]
  <2> SUFFICES ASSUME NEW i \in 1..(n + k) PROVE (got \o page)[i] = f[i]
    OBVIOUS
  <2>1. CASE i <= n
    BY <1>1, <1>2, <1>5, <1>6, <2>1
  <2>2. CASE ~(i <= n)
    <3>1. i - n \in 1..k /\ n + (i - n) = i
      BY <1>1, <1>5, <2>2
    <3> QED
      BY <1>5, <1>6, <2>2, <3>1
  <2> QED
    BY <2>1, <2>2
<1>9. IsPrefix(got \o page, f)
  BY <1>1, <1>5, <1>6, <1>8, PrefixIs
<1> QED
  BY <1>3, <1>6, <1>7, <1>9 DEF ReadInv, ReadsTheLog, GetLog, forwardVars

(* The copy only grows, and only while the forwarder's thread posts.       *)
LEMMA CopyGrows ==
  ASSUME GapInv, [ForwardNext]_forwardVars
  PROVE  \/ UNCHANGED <<exists, stored>>
         \/ pc = "post" /\ exists' = TRUE /\ \E t \in Seq(Nat) : stored' = stored \o t
<1>1. ASSUME NEW part \in Nat, position <= part, part <= written
      PROVE  Pieces(position, part) \in Seq(Nat)
  <2>1. position \in Nat /\ written \in Nat
    BY BoundsAssumption DEF GapInv, ForwardTypeOK
  <2>2. Pieces(position, part) \in Seq(1..written)
    BY <1>1, <2>1, PiecesTyped
  <2> QED
    BY <2>1, <2>2, SeqMonotonic
<1>2. CASE pc = "post" /\ (AppendFails \/ Appends(to))
  BY <1>1, <1>2, PostAppends
<1>3. CASE UNCHANGED copyVars
  BY <1>3 DEF copyVars
<1>4. Accepted \/ Refused \/ PostRaises
      => UNCHANGED copyVars \/ (pc = "post" /\ (AppendFails \/ Appends(to)))
  BY DEF Accepted, Refused, PostRaises
<1>5. UNCHANGED forwardVars \/ Write \/ Stop \/ Check \/ Read \/ ReadRaises
      => UNCHANGED copyVars
  BY DEF Write, Stop, Check, Read, ReadRaises, forwardVars, copyVars
<1> QED
  BY <1>2, <1>3, <1>4, <1>5 DEF ForwardNext, LogClient

(* A thread that has ended or died stays so.                               *)
LEMMA EndedStays ==
  [ForwardNext]_forwardVars /\ pc \in {"ended", "dead"} => pc' = pc
BY DEF ForwardNext, LogClient, Write, Stop, Check, Read, Accepted, Refused, PostRaises,
       ReadRaises, forwardVars

LEMMA ForwardKeeps ==
  ASSUME GapInv, GapInv', ReadInv, [ForwardNext]_forwardVars, UNCHANGED readVars
  PROVE  ReadInv'
<1>1. archived' = archived /\ got' = got
  BY DEF readVars
<1>2. CASE UNCHANGED <<exists, stored>>
  <2>1. LogFile' = LogFile
    BY <1>1, <1>2 DEF LogFile, LinesOf, Split, Newlines, LineStart, LineEnd
  <2> QED
    BY <1>1, <2>1, EndedStays DEF ReadInv, ReadsTheLog
<1>3. ASSUME pc = "post", exists' = TRUE, NEW t \in Seq(Nat), stored' = stored \o t PROVE ReadInv'
  <2>1. ~archived /\ got \in Seq(Line)
    BY <1>3 DEF ReadInv
  <2>2. stored \in Seq(Nat) /\ LogFile \in Seq(Line) /\ LogFile' \in Seq(Line)
    <3>1. ForwardTypeOK /\ ForwardTypeOK'
      BY DEF GapInv
    <3> QED
      BY <3>1, StoredTyped, LogFileTyped, NextLogFileTyped DEF LogFileOK
  <2>3. CASE ~exists
    <3>1. LogFile = <<>>
      BY <2>1, <2>3 DEF LogFile
    <3>2. Len(got) <= Len(LogFile)
      BY <2>1, <2>2, PrefixIs DEF ReadInv, ReadsTheLog
    <3>3. got = <<>>
      BY <2>1, <3>1, <3>2
    <3>4. IsPrefix(got, LogFile')
      BY <2>2, <3>3, EmptyIsPrefix
    <3> QED
      BY <1>1, <2>1, <3>4 DEF ReadInv, ReadsTheLog
  <2>4. CASE exists
    <3>2. LogFile = Split(stored) /\ LogFile' = Split(stored \o t)
      BY <1>3, <2>4 DEF LogFile, LinesOf
    <3>3. /\ Len(LogFile) <= Len(LogFile')
          /\ \A k \in 1..Len(LogFile) : LogFile'[k] = LogFile[k]
      BY <2>2, <3>2, SplitKept, Zenon
    <3>4. Len(got) <= Len(LogFile) /\ \A k \in 1..Len(got) : got[k] = LogFile[k]
      BY <2>1, <2>2, PrefixIs DEF ReadInv, ReadsTheLog
    <3>5. Len(got) \in Nat /\ Len(LogFile) \in Nat /\ Len(LogFile') \in Nat
      BY <2>1, <2>2
    <3>6. Len(got) <= Len(LogFile') /\ \A k \in 1..Len(got) : got[k] = LogFile'[k]
      BY <3>3, <3>4, <3>5
    <3>7. IsPrefix(got, LogFile')
      BY <2>1, <2>2, <3>6, PrefixIs
    <3> QED
      BY <1>1, <2>1, <3>7 DEF ReadInv, ReadsTheLog
  <2> QED
    BY <2>3, <2>4
<1> QED
  BY <1>2, <1>3, CopyGrows

LEMMA PostZipKeeps ==
  ASSUME ~May("earlyzip"), ForwardTypeOK, ReadInv, PostZip
  PROVE  ReadInv'
<1>1. pc \in {"ended", "dead"} /\ pc' = pc /\ archived' = TRUE /\ ~archived /\ got' = got
      /\ stored' = stored /\ exists' = exists
  BY DEF PostZip, forwardVars
<1>2. CASE exists
  <2>1. LogFile' = LogFile
    BY <1>1, <1>2 DEF LogFile, LinesOf, Split, Newlines, LineStart, LineEnd
  <2> QED
    BY <1>1, <2>1 DEF ReadInv, ReadsTheLog
<1>3. CASE ~exists
  <2>1. LogFile = <<>> /\ LogFile' = Archive
    BY <1>1, <1>3 DEF LogFile, Archive
  <2>2. got \in Seq(Line) /\ LogFile \in Seq(Line) /\ Archive \in Seq(Line)
    BY LogFileTyped, PagesAssumption DEF LogFileOK, ReadInv, Archive, Line
  <2>3. Len(got) <= Len(LogFile)
    BY <2>2, PrefixIs DEF ReadInv, ReadsTheLog
  <2>4. got = <<>>
    BY <2>1, <2>2, <2>3
  <2>5. IsPrefix(got, Archive)
    BY <2>2, <2>4, EmptyIsPrefix
  <2> QED
    BY <1>1, <2>1, <2>2, <2>5 DEF ReadInv, ReadsTheLog
<1> QED
  BY <1>2, <1>3

(* Every step of forwarder, service and client keeps the client inside.    *)
LEMMA ReadInvHolds == ~May("earlyzip") => (Spec => [](GapInv /\ ReadInv))
<1> SUFFICES ASSUME ~May("earlyzip") PROVE Spec => [](GapInv /\ ReadInv)
  OBVIOUS
<1>1. Init => GapInv /\ ReadInv
  <2> SUFFICES ASSUME Init PROVE GapInv /\ ReadInv
    OBVIOUS
  <2>1. GapInv
    BY GapInit DEF Init
  <2>2. got = <<>> /\ got \in Seq(Line) /\ archived = FALSE /\ LogFile = <<>>
    BY DEF Init, ForwardInit, LogFile
  <2>3. IsPrefix(got, LogFile)
    BY <2>2, EmptyIsPrefix
  <2> QED
    BY <2>1, <2>2, <2>3 DEF ReadInv, ReadsTheLog
<1>2. GapInv /\ ReadInv /\ [Next]_vars => GapInv' /\ ReadInv'
  <2> SUFFICES ASSUME GapInv, ReadInv, [Next]_vars PROVE GapInv' /\ ReadInv'
    OBVIOUS
  <2>1. [ForwardNext]_forwardVars
    BY DEF Next, PostZip, GetLog, vars
  <2>2. GapInv'
    BY <2>1, GapStep
  <2>3. CASE PostZip
    BY <2>2, <2>3, PostZipKeeps DEF GapInv
  <2>4. CASE GetLog
    BY <2>2, <2>4, GetLogKeeps DEF GapInv
  <2>5. CASE UNCHANGED readVars
    BY <2>1, <2>2, <2>5, ForwardKeeps
  <2> QED
    BY <2>2, <2>3, <2>4, <2>5 DEF Next, vars, readVars
<1> QED
  BY <1>1, <1>2, PTL DEF Spec

(* Whatever fails on the way, and however many lines a request asks for:   *)
(* the client never sees a line twice, out of order, or cut in the middle. *)
THEOREM FollowsTheLog == ~May("earlyzip") => (Spec => []ReadsTheLog)
<1>1. GapInv /\ ReadInv => ReadsTheLog
  BY DEF ReadInv
<1> QED
  BY <1>1, ReadInvHolds, PTL

-----------------------------------------------------------------------------
(* From the test to the client                                             *)

(* The copy is a beginning of the log, and until the thread dies the       *)
(* position is its end.                                                    *)
BeginningInv ==
    \E m \in 0..written : stored = Pieces(0, m) /\ (pc # "dead" => m = position)

LEMMA BeginningInit == ForwardInit => BeginningInv
<1> SUFFICES ASSUME ForwardInit PROVE BeginningInv
  OBVIOUS
<1>1. stored = Pieces(0, 0) /\ 0 \in 0..written /\ position = 0
  BY DEF ForwardInit, Pieces
<1> QED
  BY <1>1 DEF BeginningInv

(* A request that arrives appends what follows the copy, also when its     *)
(* answer is lost.                                                         *)
LEMMA BeginningStep ==
  ASSUME ~May("disk"), GapInv, BeginningInv, [ForwardNext]_forwardVars
  PROVE  BeginningInv'
<1>1. position \in Nat /\ to \in Nat /\ written \in Nat /\ to <= written
      /\ (pc = "post" => position <= to)
  BY BoundsAssumption DEF GapInv, ForwardTypeOK, BatchOK
<1>2. PICK m \in 0..written : stored = Pieces(0, m) /\ (pc # "dead" => m = position)
  BY DEF BeginningInv
<1>3. pc = "post" => stored \o Pieces(position, to) = Pieces(0, to)
  BY <1>1, <1>2, PiecesJoin
<1> USE DEF copyVars, Appends
<1>4. CASE Accepted
  <2>1. stored' = Pieces(0, to) /\ position' = to /\ to \in 0..written /\ written' = written
    BY <1>1, <1>3, <1>4 DEF Accepted
  <2> QED
    BY <2>1 DEF BeginningInv
<1>5. CASE PostRaises
  <2>1. pc' = "dead" /\ written' = written /\ stored' \in {Pieces(0, m), Pieces(0, to)}
    BY <1>2, <1>3, <1>5 DEF PostRaises
  <2>2. to \in 0..written
    BY <1>1
  <2> QED
    BY <1>2, <2>1, <2>2 DEF BeginningInv
<1>6. CASE UNCHANGED <<stored, position>> /\ written' \in {written, written + 1} /\ (pc = "dead" => pc' = "dead")
  <2>1. m \in 0..written' /\ stored' = Pieces(0, m) /\ (pc' # "dead" => m = position')
    BY <1>1, <1>2, <1>6
  <2> QED
    BY <2>1 DEF BeginningInv
<1> QED
  BY <1>4, <1>5, <1>6
     DEF ForwardNext, LogClient, Write, Stop, Check, Read, ReadRaises, Refused, forwardVars

(* What the test has written, line by line.                                *)
TestLog == LinesOf(Pieces(0, written))

(* The client has lines of the test's own log, or, if none was ever posted,*)
(* of the one that came with the results.                                  *)
ReadsTheTest == IsPrefix(got, IF ~exists /\ archived THEN Archive ELSE TestLog)

LEMMA BeginningIsRead == GapInv /\ ReadInv /\ BeginningInv => ReadsTheTest
<1> SUFFICES ASSUME GapInv, ReadInv, BeginningInv PROVE ReadsTheTest
  OBVIOUS
<1>1. PICK m \in 0..written : stored = Pieces(0, m)
  BY DEF BeginningInv
<1>2. written \in Nat /\ m \in Nat /\ m <= written /\ stored \in Seq(Nat)
  BY <1>1, StoredTyped, BoundsAssumption DEF GapInv, ForwardTypeOK
<1>3. Pieces(m, written) \in Seq(Nat)
  <2>1. Pieces(m, written) \in Seq(1..written)
    BY <1>2, PiecesTyped
  <2>2. 1..written \subseteq Nat
    BY <1>2
  <2> QED
    BY <2>1, <2>2, SeqMonotonic
<1>4. Pieces(0, written) = stored \o Pieces(m, written)
  BY <1>1, <1>2, PiecesJoin
<1>5. /\ Split(stored) \in Seq(Seq(Nat)) /\ TestLog \in Seq(Seq(Nat))
      /\ Len(Split(stored)) <= Len(TestLog)
      /\ \A k \in 1..Len(Split(stored)) : TestLog[k] = Split(stored)[k]
  BY <1>2, <1>3, <1>4, SplitKept, Zenon DEF TestLog, LinesOf
<1>6. Split(stored) \in Seq(Line) /\ TestLog \in Seq(Line) /\ got \in Seq(Line)
  BY <1>5, SeqMonotonic DEF Line, ReadInv
<1>7. CASE exists
  <2>1. IsPrefix(got, Split(stored))
    BY <1>7 DEF ReadInv, ReadsTheLog, LogFile, LinesOf
  <2>2. Len(got) <= Len(Split(stored)) /\ \A k \in 1..Len(got) : got[k] = Split(stored)[k]
    BY <1>6, <2>1, PrefixIs
  <2>3. Len(got) \in Nat /\ Len(Split(stored)) \in Nat /\ Len(TestLog) \in Nat
    BY <1>6
  <2>4. Len(got) <= Len(TestLog) /\ \A k \in 1..Len(got) : got[k] = TestLog[k]
    BY <1>5, <2>2, <2>3
  <2> QED
    BY <1>6, <1>7, <2>4, PrefixIs DEF ReadsTheTest
<1>8. CASE ~exists /\ archived
  BY <1>8 DEF ReadsTheTest, ReadInv, ReadsTheLog, LogFile
<1>9. CASE ~exists /\ ~archived
  <2>1. IsPrefix(got, <<>>)
    BY <1>9 DEF ReadInv, ReadsTheLog, LogFile
  <2>2. <<>> \in Seq(Line) /\ Len(<<>>) = 0
    OBVIOUS
  <2>3. Len(got) <= 0
    BY <1>6, <2>1, <2>2, PrefixIs
  <2>4. got = <<>>
    BY <1>6, <2>3
  <2> QED
    BY <1>6, <1>9, <2>4, EmptyIsPrefix DEF ReadsTheTest
<1> QED
  BY <1>7, <1>8, <1>9

(* From the file pytest writes to the pages a client reads: as long as no  *)
(* append fails, each line the client has been given is the line at this   *)
(* place of the test's own log, though requests, answers and reads of the  *)
(* file are lost and the log grows meanwhile.                              *)
THEOREM ReadsLinesOfTheTest ==
    ~May("disk") /\ ~May("earlyzip") => (Spec => []ReadsTheTest)
<1> SUFFICES ASSUME ~May("disk"), ~May("earlyzip") PROVE Spec => []ReadsTheTest
  OBVIOUS
<1>1. Init => BeginningInv
  BY BeginningInit DEF Init
<1>2. GapInv /\ BeginningInv /\ [Next]_vars => BeginningInv'
  <2> SUFFICES ASSUME GapInv, BeginningInv, [Next]_vars PROVE BeginningInv'
    OBVIOUS
  <2>1. [ForwardNext]_forwardVars
    BY DEF Next, PostZip, GetLog, vars
  <2> QED
    BY <2>1, BeginningStep
<1> QED
  BY <1>1, <1>2, ReadInvHolds, BeginningIsRead, PTL DEF Spec

=============================================================================
