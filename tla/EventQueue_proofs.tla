-------------------------- MODULE EventQueue_proofs --------------------------
(***************************************************************************)
(* What holds of all calls of a queue holds of them after a call was       *)
(* posted, served or cancelled.  S is the set of the calls a program may   *)
(* have waiting.                                                           *)
(***************************************************************************)
EXTENDS EventQueue, Integers, SequenceTheorems, FiniteSetTheorems, TLAPS

LEMMA PostIn ==
    ASSUME NEW S, NEW q \in Seq(S), NEW c \in S
    PROVE  post(q, c) \in Seq(S) /\ Len(post(q, c)) = Len(q) + 1
BY AppendProperties DEF post

LEMMA ServedIn ==
    ASSUME NEW S, NEW q \in Seq(S), NEW p \in DOMAIN q
    PROVE  q[p] \in S /\ RemoveAt(q, p) \in Seq(S) /\ Len(RemoveAt(q, p)) = Len(q) - 1
<1>1. Len(q) \in Nat /\ p \in 1..Len(q) /\ \A i \in 1..Len(q) : q[i] \in S
    BY LenProperties, ElementOfSeq
<1>2. SubSeq(q, 1, p - 1) \in Seq(S) /\ Len(SubSeq(q, 1, p - 1)) = p - 1
    <2>1. 1 \in Int /\ p - 1 \in Int /\ \A i \in 1..(p - 1) : q[i] \in S
        BY <1>1
    <2>2. QED
        BY <1>1, <2>1, SubSeqProperties
<1>3. SubSeq(q, p + 1, Len(q)) \in Seq(S) /\ Len(SubSeq(q, p + 1, Len(q))) = Len(q) - p
    <2>1. p + 1 \in Int /\ Len(q) \in Int /\ \A i \in (p + 1)..Len(q) : q[i] \in S
        BY <1>1
    <2>2. QED
        BY <1>1, <2>1, SubSeqProperties
<1>4. /\ RemoveAt(q, p) \in Seq(S)
      /\ Len(RemoveAt(q, p)) = Len(SubSeq(q, 1, p - 1)) + Len(SubSeq(q, p + 1, Len(q)))
    BY <1>2, <1>3, ConcatProperties, Zenon DEF RemoveAt
<1>5. (p - 1) + (Len(q) - p) = Len(q) - 1
    BY <1>1
<1>6. QED
    BY <1>1, <1>2, <1>3, <1>4, <1>5, Zenon

(* The mark of _cancel_handle moves to the new call.                       *)
LEMMA PostHeldIn ==
    ASSUME NEW S, NEW q \in Seq(S), NEW c,
           \A d \in S : [d EXCEPT !.held = FALSE] \in S, [c EXCEPT !.held = TRUE] \in S
    PROVE  post_held(q, c) \in Seq(S)
<1> DEFINE cleared == [i \in DOMAIN q |-> [q[i] EXCEPT !.held = FALSE]]
           h == [c EXCEPT !.held = TRUE]
<1>1. Len(q) \in Nat /\ DOMAIN q = 1..Len(q) /\ \A i \in 1..Len(q) : q[i] \in S
    BY LenProperties, ElementOfSeq
<1>2. cleared \in [1..Len(q) -> S]
    BY <1>1
<1>3. cleared \in Seq(S)
    BY <1>1, <1>2, SeqDef
<1>4. post_held(q, c) = Append(cleared, h) /\ h \in S
    BY DEF post_held
<1> HIDE DEF cleared, h
<1>5. QED
    BY <1>3, <1>4, AppendProperties

LEMMA CancelIn ==
    ASSUME NEW S, NEW q \in Seq(S)
    PROVE  cancel(q) \in Seq(S)
<1> DEFINE held == {p \in DOMAIN q : q[p].held}
<1>1. CASE held = {}
    BY <1>1 DEF cancel
<1>2. CASE held # {}
    <2>1. (CHOOSE p \in held : TRUE) \in DOMAIN q
        BY <1>2
    <2>2. RemoveAt(q, CHOOSE p \in held : TRUE) \in Seq(S)
        BY <2>1, ServedIn
    <2>3. QED
        BY <1>2, <2>2 DEF cancel
<1>3. QED
    BY <1>1, <1>2

-----------------------------------------------------------------------------
(* Which calls wait, how many of them, and in which order.                 *)

Some(q, S) == \E i \in DOMAIN q : q[i] \in S

AtMostOne(q, S) == \A i, j \in DOMAIN q : q[i] \in S /\ q[j] \in S => i = j

Before(q, S, T) == \A i, j \in DOMAIN q : q[i] \in S /\ q[j] \in T => i < j

LEMMA PostAt ==
    ASSUME NEW A, NEW q \in Seq(A), NEW c
    PROVE  /\ DOMAIN q = 1..Len(q) /\ Len(q) \in Nat
           /\ DOMAIN post(q, c) = 1..(Len(q) + 1)
           /\ \A i \in 1..(Len(q) + 1) : post(q, c)[i] = IF i <= Len(q) THEN q[i] ELSE c
<1>1. DOMAIN q = 1..Len(q) /\ Len(q) \in Nat
    BY LenProperties
<1>2. q \in Seq(A \union {c}) /\ c \in A \union {c}
    BY SeqMonotonic
<1>3. /\ Len(Append(q, c)) = Len(q) + 1 /\ Append(q, c) \in Seq(A \union {c})
      /\ \A i \in 1..Len(q) : Append(q, c)[i] = q[i]
      /\ Append(q, c)[Len(q) + 1] = c
    BY <1>2, AppendProperties
<1>4. DOMAIN Append(q, c) = 1..Len(Append(q, c))
    BY <1>3, LenProperties
<1>5. QED
    BY <1>1, <1>3, <1>4 DEF post

LEMMA PostSome ==
    ASSUME NEW A, NEW q \in Seq(A), NEW c, NEW S
    PROVE  Some(post(q, c), S) <=> Some(q, S) \/ c \in S
<1>1. ASSUME Some(q, S)
      PROVE  Some(post(q, c), S)
    BY <1>1, PostAt DEF Some
<1>2. ASSUME c \in S
      PROVE  Some(post(q, c), S)
    BY <1>2, PostAt DEF Some
<1>3. ASSUME Some(post(q, c), S), c \notin S
      PROVE  Some(q, S)
    BY <1>3, PostAt DEF Some
<1>4. QED
    BY <1>1, <1>2, <1>3

LEMMA PostAtMostOne ==
    ASSUME NEW A, NEW q \in Seq(A), NEW c, NEW S,
           AtMostOne(q, S), c \in S => ~Some(q, S)
    PROVE  AtMostOne(post(q, c), S)
BY PostAt DEF AtMostOne, Some

LEMMA PostBefore ==
    ASSUME NEW A, NEW q \in Seq(A), NEW c, NEW S, NEW T,
           Before(q, S, T), c \in S => c \notin T /\ ~Some(q, T)
    PROVE  Before(post(q, c), S, T)
BY PostAt DEF Before, Some

(* A call that was served leaves the order of the others as it was.        *)
LEMMA ServedAt ==
    ASSUME NEW A, NEW q \in Seq(A), NEW p \in DOMAIN q
    PROVE  /\ DOMAIN q = 1..Len(q) /\ Len(q) \in Nat /\ Len(q) > 0
           /\ DOMAIN RemoveAt(q, p) = 1..(Len(q) - 1)
           /\ \A i \in 1..(Len(q) - 1) : RemoveAt(q, p)[i] = IF i < p THEN q[i] ELSE q[i + 1]
<1>1. Len(q) \in Nat /\ DOMAIN q = 1..Len(q) /\ p \in 1..Len(q) /\ \A i \in 1..Len(q) : q[i] \in A
    BY LenProperties, ElementOfSeq
<1> DEFINE front == SubSeq(q, 1, p - 1)
           back == SubSeq(q, p + 1, Len(q))
<1>2. front \in Seq(A) /\ Len(front) = p - 1 /\ \A i \in 1..(p - 1) : front[i] = q[i]
    <2>1. 1 \in Int /\ p - 1 \in Int /\ \A i \in 1..(p - 1) : q[i] \in A
        BY <1>1
    <2>2. QED
        BY <1>1, <2>1, SubSeqProperties
<1>3. back \in Seq(A) /\ Len(back) = Len(q) - p /\ \A i \in 1..(Len(q) - p) : back[i] = q[p + i]
    <2>1. p + 1 \in Int /\ Len(q) \in Int /\ \A i \in (p + 1)..Len(q) : q[i] \in A
        BY <1>1
    <2>2. QED
        BY <1>1, <2>1, SubSeqProperties
<1> HIDE DEF front, back
<1>4. /\ front \o back \in Seq(A) /\ Len(front \o back) = Len(front) + Len(back)
      /\ \A i \in 1..(Len(front) + Len(back)) :
            (front \o back)[i] = IF i <= Len(front) THEN front[i] ELSE back[i - Len(front)]
    BY <1>2, <1>3, ConcatProperties
<1>5. DOMAIN (front \o back) = 1..Len(front \o back)
    BY <1>4, LenProperties
<1>6. Len(front) + Len(back) = Len(q) - 1
    BY <1>1, <1>2, <1>3
<1>7. ASSUME NEW i \in 1..(Len(q) - 1)
      PROVE  (front \o back)[i] = IF i < p THEN q[i] ELSE q[i + 1]
    <2>1. CASE i < p
        BY <1>1, <1>2, <1>4, <1>6, <2>1
    <2>2. CASE ~(i < p)
        <3>1. i - (p - 1) \in 1..(Len(q) - p) /\ p + (i - (p - 1)) = i + 1 /\ ~(i <= p - 1)
            BY <1>1, <2>2
        <3>2. back[i - (p - 1)] = q[i + 1]
            BY <1>3, <3>1
        <3>3. (front \o back)[i] = back[i - (p - 1)]
            BY <1>2, <1>4, <1>6, <3>1
        <3>4. QED
            BY <2>2, <3>2, <3>3
    <2>3. QED
        BY <2>1, <2>2
<1>8. RemoveAt(q, p) = front \o back
    BY DEF RemoveAt, front, back
<1>9. DOMAIN RemoveAt(q, p) = 1..(Len(q) - 1)
    BY <1>4, <1>5, <1>6, <1>8
<1>10. \A i \in 1..(Len(q) - 1) : RemoveAt(q, p)[i] = IF i < p THEN q[i] ELSE q[i + 1]
    BY <1>7, <1>8
<1>11. Len(q) > 0
    BY <1>1
<1>12. QED
    BY <1>1, <1>9, <1>10, <1>11

LEMMA ServedSome ==
    ASSUME NEW A, NEW q \in Seq(A), NEW p \in DOMAIN q, NEW S
    PROVE  /\ Some(RemoveAt(q, p), S) => Some(q, S)
           /\ q[p] \notin S => (Some(RemoveAt(q, p), S) <=> Some(q, S))
           /\ q[p] \in S /\ AtMostOne(q, S) => ~Some(RemoveAt(q, p), S)
<1> DEFINE r == RemoveAt(q, p)
<1>1. /\ DOMAIN q = 1..Len(q) /\ Len(q) \in Nat /\ p \in 1..Len(q)
      /\ DOMAIN r = 1..(Len(q) - 1)
      /\ \A i \in 1..(Len(q) - 1) : r[i] = IF i < p THEN q[i] ELSE q[i + 1]
    BY ServedAt
<1> HIDE DEF r
<1>2. ASSUME NEW i \in DOMAIN r, r[i] \in S
      PROVE  \E j \in DOMAIN q : j # p /\ q[j] \in S
    <2>1. CASE i < p
        BY <1>1, <1>2, <2>1
    <2>2. CASE ~(i < p)
        <3>1. i \in 1..(Len(q) - 1) /\ r[i] = q[i + 1]
            BY <1>1, <1>2, <2>2
        <3>2. i + 1 \in 1..Len(q) /\ i + 1 # p
            BY <1>1, <2>2, <3>1
        <3>3. QED
            BY <1>1, <1>2, <3>1, <3>2
    <2>3. QED
        BY <2>1, <2>2
<1>3. ASSUME NEW j \in DOMAIN q, j # p, q[j] \in S
      PROVE  \E i \in DOMAIN r : r[i] \in S
    <2>1. CASE j < p
        BY <1>1, <1>3, <2>1
    <2>2. CASE ~(j < p)
        <3>1. j - 1 \in DOMAIN r /\ r[j - 1] \in S
            BY <1>1, <1>3, <2>2
        <3>2. QED
            BY <3>1
    <2>3. QED
        BY <2>1, <2>2
<1>4. QED
    BY <1>2, <1>3 DEF Some, AtMostOne, r

LEMMA ServedAtMostOne ==
    ASSUME NEW A, NEW q \in Seq(A), NEW p \in DOMAIN q, NEW S, AtMostOne(q, S)
    PROVE  AtMostOne(RemoveAt(q, p), S)
BY ServedAt DEF AtMostOne

LEMMA ServedBefore ==
    ASSUME NEW A, NEW q \in Seq(A), NEW p \in DOMAIN q, NEW S, NEW T, Before(q, S, T)
    PROVE  Before(RemoveAt(q, p), S, T)
BY ServedAt DEF Before

(* A call is not overtaken by a later one of the same or a longer delay.   *)
LEMMA NotOvertaken ==
    ASSUME NEW A, NEW q \in Seq(A), NEW p \in DOMAIN q, NEW S, NEW T,
           Before(q, S, T), q[p] \in T, Due(q, p), q[p].delay \in Nat,
           \A c \in A : c \in S => c.delay \in Nat /\ c.delay <= q[p].delay
    PROVE  ~Some(RemoveAt(q, p), S)
<1>1. DOMAIN q = 1..Len(q) /\ Len(q) \in Nat /\ p \in 1..Len(q) /\ \A i \in 1..Len(q) : q[i] \in A
    BY LenProperties, ElementOfSeq
<1>2. ~Some(q, S)
    <2> SUFFICES ASSUME NEW i \in DOMAIN q, q[i] \in S
                 PROVE  FALSE
        BY DEF Some
    <2>1. i < p
        BY DEF Before
    <2>2. q[i].delay \in Nat /\ q[i].delay <= q[p].delay /\ q[i].delay > q[p].delay
        BY <1>1, <2>1 DEF Due
    <2>3. QED
        BY <2>2
<1>3. QED
    BY <1>2, ServedSome

LEMMA ServedAfter ==
    ASSUME NEW A, NEW q \in Seq(A), NEW p \in DOMAIN q, NEW S, NEW T,
           Before(q, S, T), q[p] \in T, Due(q, p), q[p].delay \in Nat,
           \A c \in A : c \in S => c.delay = 0
    PROVE  ~Some(RemoveAt(q, p), S)
<1>1. \A c \in A : c \in S => c.delay \in Nat /\ c.delay <= q[p].delay
    OBVIOUS
<1>2. QED
    BY <1>1, NotOvertaken

-----------------------------------------------------------------------------
(* _cancel_handle names one call at most: what call_in and cancel do then. *)

LEMMA HeldAlone ==
    ASSUME NEW A, NEW q \in Seq(A), NEW c,
           \A i \in DOMAIN q : [q[i] EXCEPT !.held = FALSE] = q[i]
    PROVE  post_held(q, c) = post(q, [c EXCEPT !.held = TRUE])
<1>1. [i \in DOMAIN q |-> [q[i] EXCEPT !.held = FALSE]] = [i \in DOMAIN q |-> q[i]]
    OBVIOUS
<1>2. [i \in DOMAIN q |-> q[i]] = q
    <2>1. q \in [1..Len(q) -> A] /\ DOMAIN q = 1..Len(q)
        BY LenProperties
    <2>2. QED
        BY <2>1
<1>3. QED
    BY <1>1, <1>2 DEF post_held, post

(* A set of calls to which the mark does not matter.                       *)
LEMMA HeldSome ==
    ASSUME NEW A, NEW q \in Seq(A), NEW c, NEW S,
           \A d \in A : [d EXCEPT !.held = FALSE] \in S <=> d \in S
    PROVE  /\ Some(post_held(q, c), S) <=> Some(q, S) \/ [c EXCEPT !.held = TRUE] \in S
           /\ AtMostOne(q, S) /\ [c EXCEPT !.held = TRUE] \notin S => AtMostOne(post_held(q, c), S)
<1> DEFINE cleared == [i \in DOMAIN q |-> [q[i] EXCEPT !.held = FALSE]]
           B == {[d EXCEPT !.held = FALSE] : d \in A}
           h == [c EXCEPT !.held = TRUE]
<1>1. DOMAIN q = 1..Len(q) /\ Len(q) \in Nat /\ \A i \in 1..Len(q) : q[i] \in A
    BY LenProperties, ElementOfSeq
<1>2. cleared \in Seq(B)
    <2>1. cleared \in [1..Len(q) -> B]
        BY <1>1
    <2> HIDE DEF cleared, B
    <2>2. QED
        BY <1>1, <2>1, SeqDef
<1>3. DOMAIN cleared = DOMAIN q /\ \A i \in DOMAIN q : cleared[i] \in S <=> q[i] \in S
    BY <1>1
<1>4. (Some(cleared, S) <=> Some(q, S)) /\ (AtMostOne(cleared, S) <=> AtMostOne(q, S))
    BY <1>3, Zenon DEF Some, AtMostOne
<1>5. post_held(q, c) = post(cleared, h)
    BY DEF post_held, post
<1> HIDE DEF cleared, h, B
<1>6. (Some(post(cleared, h), S) <=> Some(cleared, S) \/ h \in S)
    BY <1>2, PostSome
<1>7. AtMostOne(cleared, S) /\ h \notin S => AtMostOne(post(cleared, h), S)
    BY <1>2, PostAtMostOne
<1>8. QED
    BY <1>4, <1>5, <1>6, <1>7 DEF h

(* The handle names the call that was posted last, and no other one.       *)
LEMMA HeldOnce ==
    ASSUME NEW A, NEW q \in Seq(A), NEW c, NEW Held, \A d \in A : [d EXCEPT !.held = FALSE] \notin Held
    PROVE  AtMostOne(post_held(q, c), Held)
<1> DEFINE cleared == [i \in DOMAIN q |-> [q[i] EXCEPT !.held = FALSE]]
           B == {[d EXCEPT !.held = FALSE] : d \in A}
           h == [c EXCEPT !.held = TRUE]
<1>1. DOMAIN q = 1..Len(q) /\ Len(q) \in Nat /\ \A i \in 1..Len(q) : q[i] \in A
    BY LenProperties, ElementOfSeq
<1>2. cleared \in Seq(B)
    <2>1. cleared \in [1..Len(q) -> B]
        BY <1>1
    <2> HIDE DEF cleared, B
    <2>2. QED
        BY <1>1, <2>1, SeqDef
<1>3. \A i \in DOMAIN cleared : cleared[i] \notin Held
    BY <1>1
<1>4. post_held(q, c) = post(cleared, h)
    BY DEF post_held, post
<1> HIDE DEF cleared, h, B
<1>5. ~Some(cleared, Held) /\ AtMostOne(cleared, Held)
    BY <1>3 DEF Some, AtMostOne
<1>6. QED
    BY <1>2, <1>4, <1>5, PostAtMostOne

LEMMA CancelServes ==
    ASSUME NEW q
    PROVE  \/ (\A i \in DOMAIN q : ~q[i].held) /\ cancel(q) = q
           \/ \E p \in DOMAIN q : q[p].held /\ cancel(q) = RemoveAt(q, p)
<1> DEFINE held == {p \in DOMAIN q : q[p].held}
<1>1. CASE held = {}
    BY <1>1 DEF cancel
<1>2. CASE held # {}
    <2>1. (CHOOSE p \in held : TRUE) \in held
        BY <1>2
    <2>2. cancel(q) = RemoveAt(q, CHOOSE p \in held : TRUE)
        BY <1>2 DEF cancel
    <2>3. QED
        BY <2>1, <2>2
<1>3. QED
    BY <1>1, <1>2

LEMMA CancelSome ==
    ASSUME NEW A, NEW q \in Seq(A), NEW S
    PROVE  /\ Some(cancel(q), S) => Some(q, S)
           /\ (\A c \in A : c.held => c \notin S) => (Some(cancel(q), S) <=> Some(q, S))
           /\ AtMostOne(q, S) => AtMostOne(cancel(q), S)
<1>1. CASE cancel(q) = q
    BY <1>1
<1>2. ASSUME NEW p \in DOMAIN q, q[p].held, cancel(q) = RemoveAt(q, p)
      PROVE  /\ Some(cancel(q), S) => Some(q, S)
             /\ (\A c \in A : c.held => c \notin S) => (Some(cancel(q), S) <=> Some(q, S))
             /\ AtMostOne(q, S) => AtMostOne(cancel(q), S)
    <2>1. q[p] \in A
        BY ServedIn
    <2>2. /\ Some(RemoveAt(q, p), S) => Some(q, S)
          /\ q[p] \notin S => (Some(RemoveAt(q, p), S) <=> Some(q, S))
        BY ServedSome
    <2>3. AtMostOne(q, S) => AtMostOne(RemoveAt(q, p), S)
        BY ServedAtMostOne
    <2>4. QED
        BY <1>2, <2>1, <2>2, <2>3
<1>3. QED
    BY <1>1, <1>2, CancelServes

LEMMA CancelBefore ==
    ASSUME NEW A, NEW q \in Seq(A), NEW S, NEW T, Before(q, S, T)
    PROVE  Before(cancel(q), S, T)
BY CancelServes, ServedBefore

LEMMA CancelsHeld ==
    ASSUME NEW A, NEW q \in Seq(A), NEW Held, \A c \in A : c \in Held <=> c.held, AtMostOne(q, Held)
    PROVE  ~Some(cancel(q), Held)
<1>1. \A i \in DOMAIN q : q[i] \in Held <=> q[i].held
    BY LenProperties, ElementOfSeq
<1>2. CASE (\A i \in DOMAIN q : ~q[i].held) /\ cancel(q) = q
    BY <1>1, <1>2 DEF Some
<1>3. ASSUME NEW p \in DOMAIN q, q[p].held, cancel(q) = RemoveAt(q, p)
      PROVE  ~Some(cancel(q), Held)
    BY <1>1, <1>3, ServedSome
<1>4. QED
    BY <1>2, <1>3, CancelServes

-----------------------------------------------------------------------------
(* How many calls wait.                                                    *)

LEMMA PendingFinite ==
    ASSUME NEW A, NEW q \in Seq(A), NEW cbs
    PROVE  IsFiniteSet(Pending(q, cbs)) /\ Cardinality(Pending(q, cbs)) \in Nat
<1>1. DOMAIN q = 1..Len(q) /\ Len(q) \in Nat
    BY LenProperties
<1>2. IsFiniteSet(1..Len(q))
    BY <1>1, FS_Interval
<1>3. Pending(q, cbs) \in SUBSET (1..Len(q))
    BY <1>1 DEF Pending
<1>4. QED
    BY <1>2, <1>3, FS_Subset, FS_CardinalityType

LEMMA PostCount ==
    ASSUME NEW A, NEW q \in Seq(A), NEW c, NEW cbs
    PROVE  Cardinality(Pending(post(q, c), cbs)) =
               Cardinality(Pending(q, cbs)) + (IF c.cb \in cbs THEN 1 ELSE 0)
<1> DEFINE P == Pending(q, cbs)
           l == Len(q) + 1
<1>1. /\ DOMAIN q = 1..Len(q) /\ Len(q) \in Nat
      /\ DOMAIN post(q, c) = 1..(Len(q) + 1)
      /\ \A i \in 1..(Len(q) + 1) : post(q, c)[i] = IF i <= Len(q) THEN q[i] ELSE c
    BY PostAt
<1>2. IsFiniteSet(P) /\ Cardinality(P) \in Nat
    BY PendingFinite
<1>3. Pending(post(q, c), cbs) = IF c.cb \in cbs THEN P \cup {l} ELSE P
    BY <1>1 DEF Pending
<1>4. l \notin P
    BY <1>1 DEF Pending
<1> HIDE DEF P, l
<1>5. Cardinality(P \cup {l}) = Cardinality(P) + 1
    BY <1>2, <1>4, FS_AddElement
<1>6. CASE c.cb \in cbs
    BY <1>3, <1>5, <1>6 DEF P
<1>7. CASE c.cb \notin cbs
    BY <1>2, <1>3, <1>7 DEF P
<1>8. QED
    BY <1>6, <1>7

LEMMA ServedCount ==
    ASSUME NEW A, NEW q \in Seq(A), NEW p \in DOMAIN q, NEW cbs
    PROVE  Cardinality(Pending(RemoveAt(q, p), cbs)) <=
               Cardinality(Pending(q, cbs)) - (IF q[p].cb \in cbs THEN 1 ELSE 0)
<1> DEFINE P == Pending(q, cbs)
           R == Pending(RemoveAt(q, p), cbs)
           f == [i \in R |-> IF i < p THEN i ELSE i + 1]
<1>1. /\ DOMAIN q = 1..Len(q) /\ Len(q) \in Nat /\ p \in 1..Len(q)
      /\ DOMAIN RemoveAt(q, p) = 1..(Len(q) - 1)
      /\ \A i \in 1..(Len(q) - 1) : RemoveAt(q, p)[i] = IF i < p THEN q[i] ELSE q[i + 1]
    BY ServedAt
<1>2. IsFiniteSet(P) /\ Cardinality(P) \in Nat
    BY PendingFinite
<1>3. IsFiniteSet(P \ {p}) /\ Cardinality(P \ {p}) = IF p \in P THEN Cardinality(P) - 1 ELSE Cardinality(P)
    BY <1>2, FS_RemoveElement
<1>4. p \in P <=> q[p].cb \in cbs
    BY DEF Pending
<1>5. \A i \in R : i \in 1..(Len(q) - 1) /\ RemoveAt(q, p)[i].cb \in cbs
    BY <1>1 DEF Pending
<1>6. ASSUME NEW i \in R
      PROVE  (IF i < p THEN i ELSE i + 1) \in P \ {p}
    <2>1. CASE i < p
        BY <1>1, <1>5, <2>1 DEF Pending
    <2>2. CASE ~(i < p)
        BY <1>1, <1>5, <2>2 DEF Pending
    <2>3. QED
        BY <2>1, <2>2
<1>7. R \subseteq Int /\ p \in Int
    BY <1>1, <1>5
<1> HIDE DEF P, R
<1>8. f \in [R -> P \ {p}] /\ \A i, j \in R : f[i] = f[j] => i = j
    BY <1>6, <1>7
<1>9. f \in Injection(R, P \ {p})
    BY <1>8 DEF Injection, IsInjective
<1>10. Cardinality(R) <= Cardinality(P \ {p})
    BY <1>3, <1>9, FS_Injection
<1>11. QED
    BY <1>2, <1>3, <1>4, <1>10 DEF P, R

LEMMA CancelCount ==
    ASSUME NEW A, NEW q \in Seq(A), NEW cbs
    PROVE  Cardinality(Pending(cancel(q), cbs)) <= Cardinality(Pending(q, cbs))
<1>1. Cardinality(Pending(q, cbs)) \in Nat
    BY PendingFinite
<1>2. CASE cancel(q) = q
    BY <1>1, <1>2
<1>3. ASSUME NEW p \in DOMAIN q, cancel(q) = RemoveAt(q, p)
      PROVE  Cardinality(Pending(cancel(q), cbs)) <= Cardinality(Pending(q, cbs))
    <2>1. RemoveAt(q, p) \in Seq(A)
        BY ServedIn
    <2>2. Cardinality(Pending(RemoveAt(q, p), cbs)) \in Nat
        BY <2>1, PendingFinite
    <2>3. Cardinality(Pending(RemoveAt(q, p), cbs)) <=
              Cardinality(Pending(q, cbs)) - (IF q[p].cb \in cbs THEN 1 ELSE 0)
        BY ServedCount
    <2>4. QED
        BY <1>1, <1>3, <2>2, <2>3
<1>4. QED
    BY <1>2, <1>3, CancelServes

LEMMA PostHeldCount ==
    ASSUME NEW A, NEW q \in Seq(A), NEW c, NEW cbs,
           \A d \in A \union {c} : \A b \in BOOLEAN : [d EXCEPT !.held = b].cb = d.cb
    PROVE  Cardinality(Pending(post_held(q, c), cbs)) =
               Cardinality(Pending(q, cbs)) + (IF c.cb \in cbs THEN 1 ELSE 0)
<1> DEFINE cleared == [i \in DOMAIN q |-> [q[i] EXCEPT !.held = FALSE]]
           B == {[d EXCEPT !.held = FALSE] : d \in A}
           h == [c EXCEPT !.held = TRUE]
<1>1. DOMAIN q = 1..Len(q) /\ Len(q) \in Nat /\ \A i \in 1..Len(q) : q[i] \in A
    BY LenProperties, ElementOfSeq
<1>2. cleared \in Seq(B)
    <2>1. cleared \in [1..Len(q) -> B]
        BY <1>1
    <2> HIDE DEF cleared, B
    <2>2. QED
        BY <1>1, <2>1, SeqDef
<1>3. Pending(cleared, cbs) = Pending(q, cbs)
    BY <1>1 DEF Pending
<1>4. h.cb = c.cb
    OBVIOUS
<1>5. post_held(q, c) = post(cleared, h)
    BY DEF post_held, post
<1> HIDE DEF cleared, h, B
<1>6. Cardinality(Pending(post(cleared, h), cbs)) =
          Cardinality(Pending(cleared, cbs)) + (IF h.cb \in cbs THEN 1 ELSE 0)
    BY <1>2, PostCount
<1>7. QED
    BY <1>3, <1>4, <1>5, <1>6
=============================================================================
