--------------------------- MODULE ChannelProofs ---------------------------
(***************************************************************************)
(* Lemmas about sequences used as channels: what a send, a receive and a   *)
(* concatenation do to what is in them, for the proofs about every part.   *)
(***************************************************************************)
EXTENDS Channels, SequencesExt, TLAPS

\* What is appended is the only new element.
LEMMA AppendToSet ==
  ASSUME NEW S, NEW s \in Seq(S), NEW e
  PROVE  ToSet(Append(s, e)) = ToSet(s) \cup {e}
<1>1. DOMAIN Append(s, e) = 1..(Len(s) + 1) /\ DOMAIN s = 1..Len(s) /\ Len(s) \in Nat
  OBVIOUS
<1>2. \A i \in 1..Len(s) : Append(s, e)[i] = s[i]
  OBVIOUS
<1>3. Append(s, e)[Len(s) + 1] = e
  OBVIOUS
<1> QED  BY <1>1, <1>2, <1>3 DEF ToSet

\* Receiving takes an element of the channel and adds none.
LEMMA HeadTailToSet ==
  ASSUME NEW S, NEW s \in Seq(S), s # <<>>
  PROVE  /\ Head(s) \in ToSet(s) /\ Head(s) \in S
         /\ Tail(s) \in Seq(S) /\ Len(Tail(s)) < Len(s)
         /\ ToSet(Tail(s)) \subseteq ToSet(s)
<1>1. Len(s) \in Nat \ {0} /\ DOMAIN s = 1..Len(s) /\ Head(s) = s[1]
  OBVIOUS
<1>2. /\ Tail(s) \in Seq(S) /\ Len(Tail(s)) = Len(s) - 1
      /\ \A i \in 1..(Len(s) - 1) : Tail(s)[i] = s[i + 1]
  OBVIOUS
<1>3. DOMAIN Tail(s) = 1..(Len(s) - 1)
  BY <1>1, <1>2
<1> QED  BY <1>1, <1>2, <1>3 DEF ToSet

\* What is in a channel is what is received first and what is left.
LEMMA HeadOrTail ==
  ASSUME NEW S, NEW s \in Seq(S), s # <<>>
  PROVE  ToSet(s) = {Head(s)} \cup ToSet(Tail(s))
<1>1. Len(s) \in Nat \ {0} /\ DOMAIN s = 1..Len(s) /\ Head(s) = s[1]
  OBVIOUS
<1>2. /\ DOMAIN Tail(s) = 1..(Len(s) - 1)
      /\ \A i \in 1..(Len(s) - 1) : Tail(s)[i] = s[i + 1]
  OBVIOUS
<1>3. \A i \in 2..Len(s) : i - 1 \in 1..(Len(s) - 1) /\ s[i] = Tail(s)[i - 1]
  BY <1>1, <1>2
<1>4. ASSUME NEW i \in 1..Len(s)
      PROVE  s[i] = Head(s) \/ s[i] \in ToSet(Tail(s))
  <2>1. CASE i = 1
    BY <1>1, <2>1
  <2>2. CASE i # 1
    <3>1. i \in 2..Len(s)
      BY <1>1, <2>2
    <3> QED  BY <1>2, <1>3, <3>1 DEF ToSet
  <2> QED  BY <2>1, <2>2
<1>5. ToSet(s) \subseteq {Head(s)} \cup ToSet(Tail(s))
  BY <1>1, <1>4 DEF ToSet
<1> QED  BY <1>5, HeadTailToSet

\* Where the elements of a concatenation come from.
LEMMA ConcatPlaces ==
  ASSUME NEW S, NEW s \in Seq(S), NEW u \in Seq(S)
  PROVE  /\ s \o u \in Seq(S) /\ Len(s \o u) = Len(s) + Len(u)
         /\ Len(s) \in Nat /\ Len(u) \in Nat
         /\ DOMAIN s = 1..Len(s) /\ DOMAIN u = 1..Len(u)
         /\ DOMAIN (s \o u) = 1..(Len(s) + Len(u))
         /\ \A i \in 1..Len(s) : (s \o u)[i] = s[i]
         /\ \A i \in 1..Len(u) : (s \o u)[Len(s) + i] = u[i]
<1>1. s \o u \in Seq(S) /\ Len(s \o u) = Len(s) + Len(u)
  OBVIOUS
<1>2. /\ Len(s) \in Nat /\ Len(u) \in Nat
      /\ DOMAIN s = 1..Len(s) /\ DOMAIN u = 1..Len(u)
      /\ DOMAIN (s \o u) = 1..(Len(s) + Len(u))
  OBVIOUS
<1>3. \A i \in 1..Len(s) : (s \o u)[i] = s[i]
  OBVIOUS
<1>4. \A i \in 1..Len(u) : (s \o u)[Len(s) + i] = u[i]
  OBVIOUS
<1> QED  BY <1>1, <1>2, <1>3, <1>4

\* A concatenation holds the elements of its parts.
LEMMA ConcatToSet ==
  ASSUME NEW S, NEW s \in Seq(S), NEW u \in Seq(S)
  PROVE  ToSet(s \o u) = ToSet(s) \cup ToSet(u)
<1>1. /\ Len(s) \in Nat /\ Len(u) \in Nat
      /\ DOMAIN s = 1..Len(s) /\ DOMAIN u = 1..Len(u)
      /\ DOMAIN (s \o u) = 1..(Len(s) + Len(u))
  BY ConcatPlaces
<1>2. \A i \in 1..Len(s) : (s \o u)[i] = s[i]
  BY ConcatPlaces
<1>3. \A i \in 1..Len(u) : (s \o u)[Len(s) + i] = u[i]
  BY ConcatPlaces
<1>4. \A i \in 1..(Len(s) + Len(u)) :
        i \in 1..Len(s) \/ (i - Len(s) \in 1..Len(u) /\ i = Len(s) + (i - Len(s)))
  BY <1>1
<1>5. ToSet(s \o u) \subseteq ToSet(s) \cup ToSet(u)
  BY <1>1, <1>2, <1>3, <1>4 DEF ToSet
<1>6. \A i \in 1..Len(u) : Len(s) + i \in 1..(Len(s) + Len(u))
  BY <1>1
<1>7. ToSet(u) \subseteq ToSet(s \o u)
  BY <1>1, <1>3, <1>6 DEF ToSet
<1>8. \A i \in 1..Len(s) : i \in 1..(Len(s) + Len(u))
  BY <1>1
<1>9. ToSet(s) \subseteq ToSet(s \o u)
  BY <1>1, <1>2, <1>8 DEF ToSet
<1> QED  BY <1>5, <1>7, <1>9

\* A channel that had room holds one more element of its kind, within bounds.
LEMMA SendTyped ==
  ASSUME NEW S, NEW s \in Seq(S), NEW e \in S, NEW cap \in Nat, HasRoom(s, cap)
  PROVE  Append(s, e) \in Seq(S) /\ Len(Append(s, e)) <= cap
BY DEF HasRoom

\* The places of a sequence and of what is appended to it.
LEMMA AppendPlaces ==
  ASSUME NEW S, NEW s \in Seq(S), NEW e
  PROVE  /\ Len(s) \in Nat /\ DOMAIN s = 1..Len(s)
         /\ DOMAIN Append(s, e) = 1..(Len(s) + 1)
         /\ \A i \in 1..Len(s) : Append(s, e)[i] = s[i]
         /\ Append(s, e)[Len(s) + 1] = e
OBVIOUS

\* The places of a sequence and of what is left without its first element.
LEMMA TailPlaces ==
  ASSUME NEW S, NEW s \in Seq(S), s # <<>>
  PROVE  /\ Len(s) \in Nat \ {0} /\ DOMAIN s = 1..Len(s) /\ Head(s) = s[1]
         /\ DOMAIN Tail(s) = 1..(Len(s) - 1)
         /\ \A i \in 1..(Len(s) - 1) : i + 1 \in 1..Len(s) /\ Tail(s)[i] = s[i + 1]
<1>1. Len(s) \in Nat \ {0} /\ DOMAIN s = 1..Len(s) /\ Head(s) = s[1]
  OBVIOUS
<1>2. /\ Tail(s) \in Seq(S) /\ Len(Tail(s)) = Len(s) - 1
      /\ \A i \in 1..(Len(s) - 1) : Tail(s)[i] = s[i + 1]
  OBVIOUS
<1> QED  BY <1>1, <1>2

\* w is v and, after it, e.
Extended(w, v, e) == \E n \in Nat :
  /\ DOMAIN v = 1..n /\ DOMAIN w = 1..(n + 1)
  /\ \A i \in 1..n : w[i] = v[i]
  /\ w[n + 1] = e

\* What is in w is in v, in the same order.
Within(w, v) == \A i, j \in DOMAIN w : \E p, q \in DOMAIN v :
  w[i] = v[p] /\ w[j] = v[q] /\ (i < j => p < q)

\* Appending to the second of two sequences appends to both together.
LEMMA ConcatAppend ==
  ASSUME NEW S, NEW s \in Seq(S), NEW u \in Seq(S), NEW e \in S
  PROVE  Extended(s \o Append(u, e), s \o u, e)
<1>1. s \o u \in Seq(S) /\ s \o Append(u, e) = Append(s \o u, e)
  OBVIOUS
<1>2. /\ Len(s \o u) \in Nat /\ DOMAIN (s \o u) = 1..Len(s \o u)
      /\ DOMAIN Append(s \o u, e) = 1..(Len(s \o u) + 1)
      /\ \A i \in 1..Len(s \o u) : Append(s \o u, e)[i] = (s \o u)[i]
      /\ Append(s \o u, e)[Len(s \o u) + 1] = e
  BY <1>1, AppendPlaces
<1> QED  BY <1>1, <1>2 DEF Extended

\* Where each element was before the first of the second sequence was removed.
LEMMA ConcatTailPlaces ==
  ASSUME NEW S, NEW s \in Seq(S), NEW u \in Seq(S), u # <<>>
  PROVE  \A i \in DOMAIN (s \o Tail(u)) :
           LET p == IF i <= Len(s) THEN i ELSE i + 1
           IN  p \in DOMAIN (s \o u) /\ (s \o Tail(u))[i] = (s \o u)[p]
<1>1. /\ Tail(u) \in Seq(S) /\ Len(Tail(u)) = Len(u) - 1 /\ Len(u) \in Nat \ {0}
      /\ \A i \in 1..(Len(u) - 1) : Tail(u)[i] = u[i + 1]
      /\ Len(s) \in Nat
  OBVIOUS
<1>2. /\ DOMAIN (s \o u) = 1..(Len(s) + Len(u))
      /\ \A i \in 1..Len(s) : (s \o u)[i] = s[i]
      /\ \A i \in 1..Len(u) : (s \o u)[Len(s) + i] = u[i]
  BY ConcatPlaces
<1>3. /\ DOMAIN (s \o Tail(u)) = 1..(Len(s) + Len(Tail(u)))
      /\ \A i \in 1..Len(s) : (s \o Tail(u))[i] = s[i]
      /\ \A i \in 1..Len(Tail(u)) : (s \o Tail(u))[Len(s) + i] = Tail(u)[i]
  BY <1>1, ConcatPlaces
<1>4. ASSUME NEW i \in 1..(Len(s) + Len(Tail(u))), i <= Len(s)
      PROVE  i \in 1..(Len(s) + Len(u)) /\ (s \o Tail(u))[i] = (s \o u)[i]
  <2>1. i \in 1..Len(s) /\ i \in 1..(Len(s) + Len(u))
    BY <1>1, <1>4
  <2> QED  BY <1>2, <1>3, <2>1
<1>5. ASSUME NEW i \in 1..(Len(s) + Len(Tail(u))), ~(i <= Len(s))
      PROVE  i + 1 \in 1..(Len(s) + Len(u)) /\ (s \o Tail(u))[i] = (s \o u)[i + 1]
  <2>1. PICK k \in 1..Len(Tail(u)) : i = Len(s) + k
    <3>1. i - Len(s) \in 1..Len(Tail(u)) /\ i = Len(s) + (i - Len(s))
      BY <1>1, <1>5
    <3> QED  BY <3>1
  <2>2. /\ k \in 1..(Len(u) - 1) /\ k + 1 \in 1..Len(u) /\ i + 1 = Len(s) + (k + 1)
        /\ i + 1 \in 1..(Len(s) + Len(u))
    BY <1>1, <2>1
  <2>3. (s \o Tail(u))[i] = Tail(u)[k] /\ Tail(u)[k] = u[k + 1]
    BY <1>1, <1>3, <2>1, <2>2
  <2>4. (s \o u)[i + 1] = u[k + 1]
    BY <1>2, <2>2
  <2> QED  BY <2>2, <2>3, <2>4
<1> QED  BY <1>2, <1>3, <1>4, <1>5

\* So what is left is in order.
LEMMA ConcatTail ==
  ASSUME NEW S, NEW s \in Seq(S), NEW u \in Seq(S), u # <<>>
  PROVE  Within(s \o Tail(u), s \o u)
<1> DEFINE From(i) == IF i <= Len(s) THEN i ELSE i + 1
<1>1. \A i \in DOMAIN (s \o Tail(u)) :
        From(i) \in DOMAIN (s \o u) /\ (s \o Tail(u))[i] = (s \o u)[From(i)]
  BY ConcatTailPlaces
<1>2. Len(s) \in Nat /\ DOMAIN (s \o Tail(u)) \subseteq Nat
  OBVIOUS
<1>3. \A i, j \in DOMAIN (s \o Tail(u)) : i < j => From(i) < From(j)
  BY <1>2
<1> HIDE DEF From
<1> QED  BY <1>1, <1>3 DEF Within

\* Moving the first element of the second sequence to the end of the first.
LEMMA ConcatMove ==
  ASSUME NEW S, NEW s \in Seq(S), NEW u \in Seq(S), u # <<>>
  PROVE  Append(s, Head(u)) \o Tail(u) = s \o u
OBVIOUS
=============================================================================
