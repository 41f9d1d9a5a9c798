-------------------------- MODULE StatementsProofs --------------------------
(***************************************************************************)
(* Proofs about Statements, for programs of any size and nesting: what a   *)
(* step of the code generator does to its code and its stack of work, and  *)
(* that every jump finds its label, the only one of its name               *)
(* (JumpsHaveOneLabel).  StatementsRunProofs goes on from here.            *)
(***************************************************************************)
EXTENDS Statements, SequenceTheorems, TLAPS

-----------------------------------------------------------------------------
(* Sequences of anything. *)

IsSeq(s) == \E S : s \in Seq(S)

LEMMA TwoSeqs ==
  ASSUME NEW s, IsSeq(s), NEW t, IsSeq(t)
  PROVE  \E S : s \in Seq(S) /\ t \in Seq(S)
<1>1. PICK A : s \in Seq(A)
  BY DEF IsSeq
<1>2. PICK B : t \in Seq(B)
  BY DEF IsSeq
<1>3. s \in Seq(A \cup B) /\ t \in Seq(A \cup B)
  BY <1>1, <1>2, SeqMonotonic
<1> QED BY <1>3

LEMMA SeqLen ==
  ASSUME NEW s, IsSeq(s)
  PROVE  Len(s) \in Nat /\ DOMAIN s = 1..Len(s) /\ (s = <<>> <=> Len(s) = 0)
<1>1. PICK S : s \in Seq(S)
  BY DEF IsSeq
<1> QED BY <1>1, EmptySeq, LenProperties

LEMMA SameSeq ==
  ASSUME NEW s, IsSeq(s), NEW t, IsSeq(t), Len(s) = Len(t), \A i \in 1..Len(s) : s[i] = t[i]
  PROVE  s = t
<1>1. PICK S : s \in Seq(S) /\ t \in Seq(S)
  BY TwoSeqs
<1> QED BY <1>1, SeqEqual

Join(s, t) == s \o t

LEMMA Joined ==
  ASSUME NEW s, IsSeq(s), NEW t, IsSeq(t)
  PROVE  /\ IsSeq(Join(s, t)) /\ Len(Join(s, t)) = Len(s) + Len(t)
         /\ \A i \in 1..Len(s) : Join(s, t)[i] = s[i]
         /\ \A i \in 1..Len(t) : Join(s, t)[Len(s) + i] = t[i]
<1>1. PICK S : s \in Seq(S) /\ t \in Seq(S)
  BY TwoSeqs
<1>2. Len(s) \in Nat /\ Len(t) \in Nat
  BY SeqLen
<1>3. /\ s \o t \in Seq(S) /\ Len(s \o t) = Len(s) + Len(t)
      /\ \A i \in 1..Len(s) + Len(t) :
           (s \o t)[i] = IF i <= Len(s) THEN s[i] ELSE t[i - Len(s)]
  BY <1>1, ConcatProperties
<1>4. /\ Join(s, t) \in Seq(S) /\ Len(Join(s, t)) = Len(s) + Len(t)
      /\ \A i \in 1..Len(s) + Len(t) :
           Join(s, t)[i] = IF i <= Len(s) THEN s[i] ELSE t[i - Len(s)]
  BY <1>3, Zenon DEF Join
<1>5. \A i \in 1..Len(s) : Join(s, t)[i] = s[i]
  BY <1>2, <1>4
<1>6. \A i \in 1..Len(t) : Join(s, t)[Len(s) + i] = t[i]
  BY <1>2, <1>4
<1> QED BY <1>4, <1>5, <1>6 DEF IsSeq

LEMMA JoinedTwice ==
  ASSUME NEW s, IsSeq(s), NEW t, IsSeq(t), NEW u, IsSeq(u)
  PROVE  Join(Join(s, t), u) = Join(s, Join(t, u))
<1>1. PICK S : s \in Seq(S) /\ t \in Seq(S)
  BY TwoSeqs
<1>2. PICK U : u \in Seq(U)
  BY DEF IsSeq
<1>3. s \in Seq(S \cup U) /\ t \in Seq(S \cup U) /\ u \in Seq(S \cup U)
  BY <1>1, <1>2, SeqMonotonic
<1>4. (s \o t) \o u = s \o (t \o u)
  BY <1>3, ConcatAssociative
<1> QED BY <1>4, Zenon DEF Join

LEMMA JoinedEmpty ==
  ASSUME NEW s, IsSeq(s)
  PROVE  Join(s, <<>>) = s /\ Join(<<>>, s) = s
<1>1. PICK S : s \in Seq(S)
  BY DEF IsSeq
<1>2. s \o <<>> = s /\ <<>> \o s = s
  BY <1>1, ConcatEmptySeq
<1> QED BY <1>2, Zenon DEF Join

LEMMA EmptyIsSeq == IsSeq(<<>>) /\ Len(<<>>) = 0
BY EmptySeq DEF IsSeq

LEMMA Split ==
  ASSUME NEW s, IsSeq(s), s # <<>>
  PROVE  /\ IsSeq(Tail(s)) /\ Len(Tail(s)) = Len(s) - 1
         /\ Head(s) = s[1]
         /\ \A i \in 1..Len(s) - 1 : Tail(s)[i] = s[i + 1]
<1>1. PICK S : s \in Seq(S)
  BY DEF IsSeq
<1>2. /\ Tail(s) \in Seq(S) /\ Len(Tail(s)) = Len(s) - 1
      /\ \A i \in 1..Len(Tail(s)) : Tail(s)[i] = s[i + 1]
  BY <1>1, HeadTailProperties
<1> QED BY <1>2 DEF IsSeq

-----------------------------------------------------------------------------
(* Stacks of work. *)

One(x) == <<x>>
Push(x, w) == Join(One(x), w)

LEMMA OneItem == ASSUME NEW x PROVE IsSeq(One(x)) /\ Len(One(x)) = 1 /\ One(x)[1] = x
<1>1. One(x) \in Seq({x})
  BY DEF One
<1> QED BY <1>1 DEF IsSeq, One

LEMMA PushedParts ==
  ASSUME NEW x, NEW w, IsSeq(w)
  PROVE  /\ IsSeq(Push(x, w)) /\ Len(Push(x, w)) = Len(w) + 1
         /\ Push(x, w)[1] = x
         /\ \A i \in 1..Len(w) : Push(x, w)[i + 1] = w[i]
<1>1. IsSeq(One(x)) /\ Len(One(x)) = 1 /\ One(x)[1] = x
  BY OneItem
<1>2. Len(w) \in Nat
  BY SeqLen
<1>3. IsSeq(Join(One(x), w))
  BY <1>1, Joined
<1>4. Len(Join(One(x), w)) = Len(w) + 1
  <2>1. IsSeq(One(x))
    BY <1>1
  <2>2. Len(Join(One(x), w)) = Len(One(x)) + Len(w)
    BY ONLY <2>1, IsSeq(w), Joined
  <2> QED BY <1>1, <1>2, <2>2
<1>5. Join(One(x), w)[1] = x
  <2>1. 1 \in 1..Len(One(x))
    BY <1>1
  <2> QED BY <1>1, <2>1, Joined
<1>6. ASSUME NEW i \in 1..Len(w) PROVE Join(One(x), w)[i + 1] = w[i]
  <2>0. IsSeq(One(x))
    BY <1>1
  <2>1. Join(One(x), w)[Len(One(x)) + i] = w[i]
    BY <2>0, Joined
  <2>2. Len(One(x)) + i = i + 1
    BY <1>1, <1>2
  <2> QED BY <2>1, <2>2
<1> QED BY <1>3, <1>4, <1>5, <1>6 DEF Push

LEMMA Pushed ==
  ASSUME NEW x, NEW w, IsSeq(w)
  PROVE  /\ IsSeq(Push(x, w)) /\ Len(Push(x, w)) = Len(w) + 1 /\ Push(x, w) # <<>>
         /\ Head(Push(x, w)) = x /\ Tail(Push(x, w)) = w
<1>1. PICK p : p = Push(x, w)
  OBVIOUS
<1>2. /\ IsSeq(p) /\ Len(p) = Len(w) + 1 /\ p[1] = x
      /\ \A i \in 1..Len(w) : p[i + 1] = w[i]
  BY <1>1, PushedParts
<1>4. Len(w) \in Nat /\ p # <<>>
  BY <1>2, SeqLen
<1>5. /\ IsSeq(Tail(p)) /\ Len(Tail(p)) = Len(p) - 1 /\ Head(p) = p[1]
      /\ \A i \in 1..Len(p) - 1 : Tail(p)[i] = p[i + 1]
  BY <1>2, <1>4, Split
<1>6. \A i \in 1..Len(Tail(p)) : Tail(p)[i] = w[i]
  BY <1>2, <1>4, <1>5
<1>7. Tail(p) = w
  <2>1. IsSeq(Tail(p)) /\ Len(Tail(p)) = Len(w)
    BY <1>2, <1>4, <1>5
  <2> QED BY <1>6, <2>1, SameSeq
<1> QED BY <1>1, <1>2, <1>4, <1>5, <1>7

LEMMA PushHeadTail ==
  ASSUME NEW w, IsSeq(w), w # <<>>
  PROVE  w = Push(Head(w), Tail(w))
<1>1. PICK p : p = Push(Head(w), Tail(w))
  OBVIOUS
<1>2. /\ IsSeq(Tail(w)) /\ Len(Tail(w)) = Len(w) - 1 /\ Head(w) = w[1]
      /\ \A i \in 1..Len(w) - 1 : Tail(w)[i] = w[i + 1]
  BY Split
<1>3. /\ IsSeq(p) /\ Len(p) = Len(Tail(w)) + 1 /\ p # <<>>
      /\ Head(p) = Head(w) /\ Tail(p) = Tail(w)
  BY <1>1, <1>2, Pushed
<1>4. /\ Head(p) = p[1] /\ \A i \in 1..Len(p) - 1 : Tail(p)[i] = p[i + 1]
  BY <1>3, Split
<1>5. Len(w) \in Nat /\ Len(p) = Len(w)
  BY <1>2, <1>3, SeqLen
<1>6. ASSUME NEW i \in 1..Len(p) PROVE p[i] = w[i]
  <2>1. CASE i = 1
    BY <1>2, <1>3, <1>4, <2>1
  <2>2. CASE i # 1
    <3>1. i - 1 \in 1..Len(p) - 1 /\ (i - 1) + 1 = i
      BY <1>5, <2>2
    <3>2. p[i] = Tail(p)[i - 1] /\ w[i] = Tail(w)[i - 1]
      BY <1>2, <1>4, <1>5, <3>1
    <3> QED BY <1>3, <3>2
  <2> QED BY <2>1, <2>2
<1> QED BY <1>1, <1>3, <1>5, <1>6, SameSeq

LEMMA OneInFront ==
  ASSUME NEW x, NEW s, IsSeq(s), NEW t, IsSeq(t), Len(t) = Len(s) + 1,
         t[1] = x, \A i \in 1..Len(s) : t[i + 1] = s[i]
  PROVE  t = Push(x, s)
<1>1. t # <<>> /\ Len(s) \in Nat
  BY SeqLen
<1>2. /\ IsSeq(Tail(t)) /\ Len(Tail(t)) = Len(s) /\ Head(t) = x
      /\ \A i \in 1..Len(s) : Tail(t)[i] = s[i]
  <2>1. /\ IsSeq(Tail(t)) /\ Len(Tail(t)) = Len(t) - 1 /\ Head(t) = t[1]
        /\ \A i \in 1..Len(t) - 1 : Tail(t)[i] = t[i + 1]
    BY <1>1, Split
  <2>2. Len(t) - 1 = Len(s)
    BY <1>1
  <2> QED BY <2>1, <2>2
<1>3. Tail(t) = s
  BY <1>2, SameSeq
<1>4. t = Push(Head(t), Tail(t))
  BY <1>1, PushHeadTail
<1> QED BY <1>2, <1>3, <1>4

\* What is put in front of a stack, item by item.
LEMMA InFront ==
  ASSUME NEW x, NEW s, IsSeq(s), NEW w, IsSeq(w)
  PROVE  Join(Push(x, s), w) = Push(x, Join(s, w))
BY OneItem, JoinedTwice DEF Push

Two(x, y)           == <<x, y>>
Three(x, y, z)      == <<x, y, z>>
Four(x, y, z, u)    == <<x, y, z, u>>
Five(x, y, z, u, v) == <<x, y, z, u, v>>

LEMMA TwoItems ==
  ASSUME NEW x, NEW y
  PROVE  IsSeq(Two(x, y)) /\ Two(x, y) = Push(x, One(y))
<1>1. Two(x, y) \in Seq({x, y}) /\ Len(Two(x, y)) = 2 /\ Two(x, y)[1] = x /\ Two(x, y)[2] = y
  BY DEF Two
<1>2. IsSeq(Two(x, y))
  BY <1>1 DEF IsSeq
<1>3. \A i \in 1..1 : Two(x, y)[i + 1] = One(y)[i]
  BY <1>1, OneItem
<1>4. IsSeq(One(y))
  BY OneItem
<1>5. \A i \in 1..Len(One(y)) : Two(x, y)[i + 1] = One(y)[i]
  <2>1. Len(One(y)) = 1
    BY OneItem
  <2> QED BY <1>3, <2>1
<1>6. Len(Two(x, y)) = Len(One(y)) + 1 /\ Two(x, y)[1] = x
  <2>1. Len(One(y)) = 1
    BY OneItem
  <2> QED BY <1>1, <2>1
<1> QED BY <1>2, <1>4, <1>5, <1>6, OneInFront, Zenon

LEMMA ThreeItems ==
  ASSUME NEW x, NEW y, NEW z
  PROVE  IsSeq(Three(x, y, z)) /\ Three(x, y, z) = Push(x, Two(y, z))
<1>1. /\ Three(x, y, z) \in Seq({x, y, z}) /\ Len(Three(x, y, z)) = 3
      /\ Three(x, y, z)[1] = x /\ Three(x, y, z)[2] = y /\ Three(x, y, z)[3] = z
  BY DEF Three
<1>2. IsSeq(Three(x, y, z))
  BY <1>1 DEF IsSeq
<1>3. Len(Two(y, z)) = 2 /\ \A i \in 1..2 : Three(x, y, z)[i + 1] = Two(y, z)[i]
  BY <1>1 DEF Two
<1>4. IsSeq(Two(y, z))
  BY TwoItems
<1>5. \A i \in 1..Len(Two(y, z)) : Three(x, y, z)[i + 1] = Two(y, z)[i]
  BY <1>3
<1>6. Len(Three(x, y, z)) = Len(Two(y, z)) + 1 /\ Three(x, y, z)[1] = x
  BY <1>1, <1>3
<1> QED BY <1>2, <1>4, <1>5, <1>6, OneInFront, Zenon

LEMMA FourItems ==
  ASSUME NEW x, NEW y, NEW z, NEW u
  PROVE  IsSeq(Four(x, y, z, u)) /\ Four(x, y, z, u) = Push(x, Three(y, z, u))
<1>1. /\ Four(x, y, z, u) \in Seq({x, y, z, u}) /\ Len(Four(x, y, z, u)) = 4
      /\ Four(x, y, z, u)[1] = x /\ Four(x, y, z, u)[2] = y
      /\ Four(x, y, z, u)[3] = z /\ Four(x, y, z, u)[4] = u
  BY DEF Four
<1>2. IsSeq(Four(x, y, z, u))
  BY <1>1 DEF IsSeq
<1>3. Len(Three(y, z, u)) = 3 /\ \A i \in 1..3 : Four(x, y, z, u)[i + 1] = Three(y, z, u)[i]
  BY <1>1 DEF Three
<1>4. IsSeq(Three(y, z, u))
  BY ThreeItems
<1>5. \A i \in 1..Len(Three(y, z, u)) : Four(x, y, z, u)[i + 1] = Three(y, z, u)[i]
  BY <1>3
<1>6. Len(Four(x, y, z, u)) = Len(Three(y, z, u)) + 1 /\ Four(x, y, z, u)[1] = x
  BY <1>1, <1>3
<1> QED BY <1>2, <1>4, <1>5, <1>6, OneInFront, Zenon

LEMMA FiveItems ==
  ASSUME NEW x, NEW y, NEW z, NEW u, NEW v
  PROVE  IsSeq(Five(x, y, z, u, v)) /\ Five(x, y, z, u, v) = Push(x, Four(y, z, u, v))
<1>1. /\ Five(x, y, z, u, v) \in Seq({x, y, z, u, v}) /\ Len(Five(x, y, z, u, v)) = 5
      /\ Five(x, y, z, u, v)[1] = x /\ Five(x, y, z, u, v)[2] = y
      /\ Five(x, y, z, u, v)[3] = z /\ Five(x, y, z, u, v)[4] = u
      /\ Five(x, y, z, u, v)[5] = v
  BY DEF Five
<1>2. IsSeq(Five(x, y, z, u, v))
  BY <1>1 DEF IsSeq
<1>3. Len(Four(y, z, u, v)) = 4
      /\ \A i \in 1..4 : Five(x, y, z, u, v)[i + 1] = Four(y, z, u, v)[i]
  BY <1>1 DEF Four
<1>4. IsSeq(Four(y, z, u, v))
  BY FourItems
<1>5. \A i \in 1..Len(Four(y, z, u, v)) : Five(x, y, z, u, v)[i + 1] = Four(y, z, u, v)[i]
  BY <1>3
<1>6. Len(Five(x, y, z, u, v)) = Len(Four(y, z, u, v)) + 1 /\ Five(x, y, z, u, v)[1] = x
  BY <1>1, <1>3
<1> QED BY <1>2, <1>4, <1>5, <1>6, OneInFront, Zenon

LEMMA ItemsInFront ==
  ASSUME NEW w, IsSeq(w)
  PROVE  /\ \A x : Join(One(x), w) = Push(x, w)
         /\ \A x, y : Join(Two(x, y), w) = Push(x, Push(y, w))
         /\ \A x, y, z : Join(Three(x, y, z), w) = Push(x, Push(y, Push(z, w)))
         /\ \A x, y, z, u :
              Join(Four(x, y, z, u), w) = Push(x, Push(y, Push(z, Push(u, w))))
         /\ \A x, y, z, u, v :
              Join(Five(x, y, z, u, v), w) = Push(x, Push(y, Push(z, Push(u, Push(v, w)))))
<1>1. \A x : Join(One(x), w) = Push(x, w)
  BY DEF Push
<1>2. ASSUME NEW x, NEW y PROVE Join(Two(x, y), w) = Push(x, Push(y, w))
  BY <1>1, TwoItems, OneItem, InFront
<1>3. ASSUME NEW x, NEW y, NEW z PROVE Join(Three(x, y, z), w) = Push(x, Push(y, Push(z, w)))
  BY <1>2, ThreeItems, TwoItems, InFront
<1>4. ASSUME NEW x, NEW y, NEW z, NEW u
      PROVE  Join(Four(x, y, z, u), w) = Push(x, Push(y, Push(z, Push(u, w))))
  BY <1>3, FourItems, ThreeItems, InFront
<1>5. ASSUME NEW x, NEW y, NEW z, NEW u, NEW v
      PROVE  Join(Five(x, y, z, u, v), w) = Push(x, Push(y, Push(z, Push(u, Push(v, w)))))
  BY <1>4, FiveItems, FourItems, InFront
<1> QED BY <1>1, <1>2, <1>3, <1>4, <1>5

-----------------------------------------------------------------------------
(* What is left of a stack after some of its items. *)

Suffix(w, k) == SubSeq(w, k, Len(w))
Tails(w)  == {Suffix(w, k) : k \in 1..Len(w) + 1}

LEMMA SuffixParts ==
  ASSUME NEW w, IsSeq(w), NEW k \in 1..Len(w) + 1
  PROVE  /\ IsSeq(Suffix(w, k)) /\ Len(Suffix(w, k)) = Len(w) + 1 - k
         /\ \A i \in 1..Len(w) + 1 - k : Suffix(w, k)[i] = w[k + i - 1]
<1>1. PICK S : w \in Seq(S)
  BY DEF IsSeq
<1>2. Len(w) \in Nat /\ \A i \in 1..Len(w) : w[i] \in S
  BY <1>1
<1>3. /\ SubSeq(w, k, Len(w)) \in Seq(S)
      /\ Len(SubSeq(w, k, Len(w))) = IF k <= Len(w) THEN Len(w) - k + 1 ELSE 0
      /\ \A i \in 1..Len(w) - k + 1 : SubSeq(w, k, Len(w))[i] = w[k + i - 1]
  BY <1>2, SubSeqProperties
<1>4. /\ Suffix(w, k) \in Seq(S)
      /\ Len(Suffix(w, k)) = IF k <= Len(w) THEN Len(w) - k + 1 ELSE 0
      /\ \A i \in 1..Len(w) - k + 1 : Suffix(w, k)[i] = w[k + i - 1]
  BY <1>3, Zenon DEF Suffix
<1>5. Len(Suffix(w, k)) = Len(w) + 1 - k /\ Len(w) - k + 1 = Len(w) + 1 - k
  BY <1>2, <1>4
<1> QED BY <1>4, <1>5 DEF IsSeq

\* Tails of the same length are the same.
LEMMA SuffixByLength ==
  ASSUME NEW w, IsSeq(w), NEW v \in Tails(w)
  PROVE  /\ IsSeq(v) /\ Len(v) \in 0..Len(w) /\ v = Suffix(w, Len(w) + 1 - Len(v))
         /\ v # <<>> => /\ Len(v) > 0 /\ Head(v) = w[Len(w) + 1 - Len(v)]
                        /\ Len(w) + 1 - Len(v) \in 1..Len(w)
<1>1. PICK k \in 1..Len(w) + 1 : v = Suffix(w, k)
  BY DEF Tails
<1>2. Len(w) \in Nat
  BY SeqLen
<1>3. /\ IsSeq(v) /\ Len(v) = Len(w) + 1 - k
      /\ \A i \in 1..Len(w) + 1 - k : v[i] = w[k + i - 1]
  BY <1>1, SuffixParts
<1>4. k = Len(w) + 1 - Len(v) /\ Len(v) \in 0..Len(w)
  BY <1>2, <1>3
<1>5. ASSUME v # <<>>
      PROVE  Len(v) > 0 /\ Head(v) = w[k] /\ k \in 1..Len(w)
  <2>1. Len(v) > 0 /\ Head(v) = v[1]
    BY <1>3, <1>4, <1>5, SeqLen, Split
  <2>2. v[1] = w[k + 1 - 1] /\ k + 1 - 1 = k /\ k \in 1..Len(w)
    BY <1>2, <1>3, <1>4, <2>1
  <2> QED BY <2>1, <2>2
<1> QED BY <1>1, <1>3, <1>4, <1>5

LEMMA WholeIsSuffix ==
  ASSUME NEW w, IsSeq(w)
  PROVE  w \in Tails(w)
<1>1. Len(w) \in Nat /\ 1 \in 1..Len(w) + 1
  BY SeqLen
<1>2. /\ IsSeq(Suffix(w, 1)) /\ Len(Suffix(w, 1)) = Len(w) + 1 - 1
      /\ \A i \in 1..Len(w) + 1 - 1 : Suffix(w, 1)[i] = w[1 + i - 1]
  BY <1>1, SuffixParts
<1>3. Len(Suffix(w, 1)) = Len(w) /\ \A i \in 1..Len(w) : Suffix(w, 1)[i] = w[i]
  <2>1. Len(w) + 1 - 1 = Len(w) /\ \A i \in 1..Len(w) : 1 + i - 1 = i
    BY <1>1
  <2> QED BY <1>2, <2>1
<1>4. Suffix(w, 1) = w
  BY <1>2, <1>3, SameSeq
<1> QED BY <1>1, <1>4 DEF Tails

LEMMA TailsOfEmpty == Tails(<<>>) = {<<>>}
<1>1. IsSeq(<<>>) /\ Len(<<>>) = 0
  BY EmptyIsSeq
<1>2. \A v \in Tails(<<>>) : v = <<>>
  <2> SUFFICES ASSUME NEW v \in Tails(<<>>) PROVE v = <<>>
    OBVIOUS
  <2>1. IsSeq(v) /\ Len(v) \in 0..0
    BY <1>1, SuffixByLength
  <2> QED BY <2>1, SeqLen
<1> QED BY <1>1, <1>2, WholeIsSuffix

LEMMA TailsOfPush ==
  ASSUME NEW x, NEW w, IsSeq(w)
  PROVE  Tails(Push(x, w)) = {Push(x, w)} \cup Tails(w)
<1>1. PICK p : p = Push(x, w)
  OBVIOUS
<1>2. IsSeq(p) /\ Len(p) = Len(w) + 1 /\ \A i \in 1..Len(w) : p[i + 1] = w[i]
  BY <1>1, PushedParts
<1>3. Len(w) \in Nat
  BY SeqLen
<1>4. ASSUME NEW k \in 1..Len(w) + 1 PROVE Suffix(p, k + 1) = Suffix(w, k)
  <2>1. k + 1 \in 1..Len(p) + 1 /\ k \in Int
    BY <1>2, <1>3
  <2>2. /\ IsSeq(Suffix(p, k + 1)) /\ Len(Suffix(p, k + 1)) = Len(p) + 1 - (k + 1)
        /\ \A i \in 1..Len(p) + 1 - (k + 1) : Suffix(p, k + 1)[i] = p[(k + 1) + i - 1]
    BY <1>2, <2>1, SuffixParts
  <2>3. /\ IsSeq(Suffix(w, k)) /\ Len(Suffix(w, k)) = Len(w) + 1 - k
        /\ \A i \in 1..Len(w) + 1 - k : Suffix(w, k)[i] = w[k + i - 1]
    BY SuffixParts
  <2>4. Len(p) + 1 - (k + 1) = Len(w) + 1 - k
    BY <1>2, <1>3
  <2>5. ASSUME NEW i \in 1..Len(w) + 1 - k PROVE Suffix(p, k + 1)[i] = Suffix(w, k)[i]
    <3>1. (k + 1) + i - 1 = (k + i - 1) + 1 /\ k + i - 1 \in 1..Len(w)
      BY <1>3
    <3>2. p[(k + i - 1) + 1] = w[k + i - 1]
      BY <1>2, <3>1
    <3>3. Suffix(p, k + 1)[i] = p[(k + 1) + i - 1]
      BY <2>2, <2>4
    <3> QED BY <2>3, <3>1, <3>2, <3>3
  <2>6. Len(Suffix(p, k + 1)) = Len(Suffix(w, k))
        /\ \A i \in 1..Len(Suffix(p, k + 1)) : Suffix(p, k + 1)[i] = Suffix(w, k)[i]
    BY <2>2, <2>3, <2>4, <2>5
  <2>7. IsSeq(Suffix(p, k + 1)) /\ IsSeq(Suffix(w, k))
    BY <2>2, <2>3
  <2> QED BY ONLY <2>6, <2>7, SameSeq
<1>5. ASSUME NEW v \in Tails(p) PROVE v = p \/ v \in Tails(w)
  <2>1. PICK j \in 1..Len(p) + 1 : v = Suffix(p, j)
    BY DEF Tails
  <2>2. CASE j = 1
    <3>1. Len(v) = Len(p)
      BY <1>2, <1>3, <2>1, <2>2, SuffixParts
    <3>2. p \in Tails(p)
      BY <1>2, WholeIsSuffix
    <3>3. v = Suffix(p, Len(p) + 1 - Len(v)) /\ p = Suffix(p, Len(p) + 1 - Len(p))
      BY <1>2, <3>2, SuffixByLength
    <3> QED BY <3>1, <3>3
  <2>3. CASE j # 1
    <3>1. j - 1 \in 1..Len(w) + 1 /\ (j - 1) + 1 = j
      BY <1>2, <1>3, <2>3
    <3>2. v = Suffix(w, j - 1)
      BY <1>4, <2>1, <3>1
    <3> QED BY <3>1, <3>2 DEF Tails
  <2> QED BY <2>2, <2>3
<1>6. ASSUME NEW v \in Tails(w) PROVE v \in Tails(p)
  <2>1. PICK k \in 1..Len(w) + 1 : v = Suffix(w, k)
    BY DEF Tails
  <2>2. k + 1 \in 1..Len(p) + 1 /\ v = Suffix(p, k + 1)
    BY <1>2, <1>3, <1>4, <2>1
  <2> QED BY <2>2 DEF Tails
<1>7. p \in Tails(p)
  BY <1>2, WholeIsSuffix
<1> QED BY <1>1, <1>5, <1>6, <1>7

LEMMA TailsOfWhole ==
  ASSUME NEW w, IsSeq(w), w # <<>>
  PROVE  /\ IsSeq(Tail(w)) /\ w = Push(Head(w), Tail(w))
         /\ Tails(w) = {w} \cup Tails(Tail(w))
         /\ \A v \in Tails(Tail(w)) : Len(v) < Len(w)
<1>1. IsSeq(Tail(w)) /\ Len(Tail(w)) = Len(w) - 1 /\ Len(w) \in Nat
  BY Split, SeqLen
<1>2. w = Push(Head(w), Tail(w))
  BY PushHeadTail
<1>3. Tails(Push(Head(w), Tail(w))) = {Push(Head(w), Tail(w))} \cup Tails(Tail(w))
  BY <1>1, TailsOfPush
<1>4. ASSUME NEW v \in Tails(Tail(w)) PROVE Len(v) < Len(w)
  <2>1. Len(v) \in 0..Len(Tail(w))
    BY <1>1, SuffixByLength
  <2> QED BY <1>1, <2>1
<1> QED BY <1>1, <1>2, <1>3, <1>4

-----------------------------------------------------------------------------
(* The text of a program: its code so far and what the stack will add to it. *)

Add(code, instr) == Join(code, One(instr))

Pending(w) == {v \in Tails(w) : v # <<>>}

\* The instruction an item of work is sure to add; a list is sure of none.
Coming(item) ==
  IF item.do = "function" THEN Instr("FUN", item.arg)
  ELSE IF item.do = "emit" THEN item.arg
  ELSE Instr("OP", 0)

Written(code) == {code[i] : i \in DOMAIN code}
Text(code, w) == Written(code) \cup {Coming(Head(v)) : v \in Pending(w)}

Marks(instr, id) == instr.op \in {"FUN", "LABEL"} /\ Label(instr) = id

Used(code, w, id) == \E instr \in Text(code, w) : Marks(instr, id)

\* No label is set twice, in the code or by what is to come.
Once(code, w) ==
  /\ \A i, j \in DOMAIN code : \A id :
       Marks(code[i], id) /\ Marks(code[j], id) => i = j
  /\ \A u, v \in Pending(w) : \A id :
       Marks(Coming(Head(u)), id) /\ Marks(Coming(Head(v)), id) => u = v
  /\ \A i \in DOMAIN code, v \in Pending(w) : \A id :
       ~ (Marks(code[i], id) /\ Marks(Coming(Head(v)), id))

\* Every jump has its label in the text.
Resolved(text) ==
  \A jump \in text : jump.op \in {"IFF", "GOTO"} =>
    \E instr \in text : Marks(instr, <<"Label", jump.arg>>)

\* Labels are numbered from 0 up to n.
Numbered(text, n) ==
  /\ n \in Nat
  /\ \A instr \in text : instr.op = "LABEL" => instr.arg \in 0..n - 1

LEMMA Added ==
  ASSUME NEW code, IsSeq(code), NEW a
  PROVE  /\ IsSeq(Add(code, a)) /\ Len(Add(code, a)) = Len(code) + 1
         /\ \A i \in DOMAIN Add(code, a) :
              \/ i \in DOMAIN code /\ Add(code, a)[i] = code[i]
              \/ i = Len(code) + 1 /\ i \notin DOMAIN code /\ Add(code, a)[i] = a
         /\ \A i \in DOMAIN code : i \in DOMAIN Add(code, a) /\ Add(code, a)[i] = code[i]
         /\ Len(code) + 1 \in DOMAIN Add(code, a) /\ Add(code, a)[Len(code) + 1] = a
<1>1. IsSeq(One(a))
  BY OneItem
<1>2. /\ IsSeq(Join(code, One(a))) /\ Len(Join(code, One(a))) = Len(code) + Len(One(a))
      /\ \A i \in 1..Len(code) : Join(code, One(a))[i] = code[i]
      /\ \A i \in 1..Len(One(a)) : Join(code, One(a))[Len(code) + i] = One(a)[i]
  BY <1>1, Joined
<1>3. PICK new : new = Add(code, a)
  OBVIOUS
<1>4. /\ IsSeq(new) /\ Len(new) = Len(code) + Len(One(a))
      /\ \A i \in 1..Len(code) : new[i] = code[i]
      /\ \A i \in 1..Len(One(a)) : new[Len(code) + i] = One(a)[i]
  BY <1>2, <1>3, Zenon DEF Add
<1>5. Len(One(a)) = 1 /\ One(a)[1] = a
  BY OneItem
<1>6. Len(new) = Len(code) + 1 /\ new[Len(code) + 1] = a
  BY <1>4, <1>5
<1>7. /\ Len(code) \in Nat /\ DOMAIN code = 1..Len(code)
      /\ DOMAIN new = 1..Len(new)
  BY <1>4, SeqLen
<1>8. /\ \A i \in DOMAIN new :
           \/ i \in DOMAIN code /\ new[i] = code[i]
           \/ i = Len(code) + 1 /\ i \notin DOMAIN code /\ new[i] = a
      /\ \A i \in DOMAIN code : i \in DOMAIN new /\ new[i] = code[i]
      /\ Len(code) + 1 \in DOMAIN new
  BY <1>4, <1>6, <1>7
<1> QED BY <1>3, <1>4, <1>6, <1>8

LEMMA AddedItems ==
  ASSUME NEW code, IsSeq(code)
  PROVE  /\ \A a : Join(code, One(a)) = Add(code, a)
         /\ \A a, b : Join(code, Two(a, b)) = Add(Add(code, a), b)
         /\ \A a, b, c : Join(code, Three(a, b, c)) = Add(Add(Add(code, a), b), c)
<1>1. \A a : Join(code, One(a)) = Add(code, a)
  BY Zenon DEF Add
<1>2. ASSUME NEW any, IsSeq(any), NEW a, NEW s, IsSeq(s)
      PROVE  Join(any, Push(a, s)) = Join(Add(any, a), s)
  <2>1. IsSeq(One(a))
    BY OneItem
  <2>2. Join(Join(any, One(a)), s) = Join(any, Join(One(a), s))
    BY <1>2, <2>1, JoinedTwice
  <2> QED BY <2>2, Zenon DEF Push, Add
<1>3. ASSUME NEW any, IsSeq(any), NEW a, NEW b
      PROVE  Join(any, Two(a, b)) = Add(Add(any, a), b)
  <2>1. Two(a, b) = Push(a, One(b)) /\ IsSeq(One(b))
    BY TwoItems, OneItem
  <2>2. Join(any, Push(a, One(b))) = Join(Add(any, a), One(b))
    BY <1>2, <1>3, <2>1
  <2> QED BY <2>1, <2>2, Zenon DEF Add
<1>4. ASSUME NEW a, NEW b, NEW c
      PROVE  Join(code, Three(a, b, c)) = Add(Add(Add(code, a), b), c)
  <2>1. Three(a, b, c) = Push(a, Two(b, c)) /\ IsSeq(Two(b, c)) /\ IsSeq(Add(code, a))
    BY ThreeItems, TwoItems, Added
  <2>2. Join(code, Push(a, Two(b, c))) = Join(Add(code, a), Two(b, c))
    BY <1>2, <2>1
  <2>3. Join(Add(code, a), Two(b, c)) = Add(Add(Add(code, a), b), c)
    BY <1>3, <2>1
  <2> QED BY <2>1, <2>2, <2>3
<1> QED BY <1>1, <1>3, <1>4

LEMMA PendingOfPush ==
  ASSUME NEW x, NEW w, IsSeq(w)
  PROVE  /\ Pending(Push(x, w)) = {Push(x, w)} \cup Pending(w)
         /\ Push(x, w) \notin Pending(w) /\ Head(Push(x, w)) = x
<1>1. /\ IsSeq(Push(x, w)) /\ Len(Push(x, w)) = Len(w) + 1 /\ Push(x, w) # <<>>
      /\ Head(Push(x, w)) = x
  BY Pushed
<1>2. Tails(Push(x, w)) = {Push(x, w)} \cup Tails(w)
  BY TailsOfPush
<1>3. Push(x, w) \notin Tails(w)
  <2>1. \A v \in Tails(w) : Len(v) \in 0..Len(w)
    BY SuffixByLength
  <2>2. Len(w) \in Nat
    BY SeqLen
  <2> QED BY <1>1, <2>1, <2>2
<1> QED BY <1>1, <1>2, <1>3, Zenon DEF Pending

LEMMA TextOfPush ==
  ASSUME NEW code, NEW x, NEW w, IsSeq(w)
  PROVE  Text(code, Push(x, w)) = {Coming(x)} \cup Text(code, w)
<1>1. PICK p : p = Push(x, w)
  OBVIOUS
<1>2. Pending(p) = {p} \cup Pending(w) /\ Head(p) = x
  BY <1>1, PendingOfPush
<1>3. {Coming(Head(v)) : v \in Pending(p)} = {Coming(x)} \cup {Coming(Head(v)) : v \in Pending(w)}
  BY <1>2
<1>4. Text(code, p) = {Coming(x)} \cup Text(code, w)
  BY <1>3 DEF Text
<1> QED BY <1>1, <1>4

LEMMA TextOfAdd ==
  ASSUME NEW code, IsSeq(code), NEW a, NEW w
  PROVE  Text(Add(code, a), w) = {a} \cup Text(code, w)
<1>1. Written(Add(code, a)) = {a} \cup Written(code)
  <2>1. PICK new : new = Add(code, a)
    OBVIOUS
  <2>2. /\ \A i \in DOMAIN new : (i \in DOMAIN code /\ new[i] = code[i]) \/ new[i] = a
        /\ \A i \in DOMAIN code : i \in DOMAIN new /\ new[i] = code[i]
        /\ Len(code) + 1 \in DOMAIN new /\ new[Len(code) + 1] = a
    BY <2>1, Added
  <2>3. Written(new) = {a} \cup Written(code)
    BY <2>2 DEF Written
  <2> QED BY <2>1, <2>3
<1> QED BY <1>1, Zenon DEF Text

LEMMA OncePop ==
  ASSUME NEW code, NEW x, NEW w, IsSeq(w), Once(code, Push(x, w))
  PROVE  Once(code, w) /\ \A id : Marks(Coming(x), id) => ~ Used(code, w, id)
<1>1. /\ Pending(Push(x, w)) = {Push(x, w)} \cup Pending(w)
      /\ Push(x, w) \notin Pending(w) /\ Head(Push(x, w)) = x
  BY PendingOfPush
<1>2. Once(code, w)
  BY <1>1, Zenon DEF Once
<1>3. ASSUME NEW id, Marks(Coming(x), id), Used(code, w, id) PROVE FALSE
  <2>1. PICK instr \in Text(code, w) : Marks(instr, id)
    BY <1>3 DEF Used
  <2>2. CASE instr \in Written(code)
    BY <1>1, <1>3, <2>1, <2>2, Zenon DEF Once, Written
  <2>3. CASE \E v \in Pending(w) : instr = Coming(Head(v))
    BY <1>1, <1>3, <2>1, <2>3, Zenon DEF Once
  <2> QED BY <2>1, <2>2, <2>3, Zenon DEF Text
<1> QED BY <1>2, <1>3

LEMMA OncePush ==
  ASSUME NEW code, NEW x, NEW w, IsSeq(w), Once(code, w),
         \A id : Marks(Coming(x), id) => ~ Used(code, w, id)
  PROVE  Once(code, Push(x, w))
<1>1. /\ Pending(Push(x, w)) = {Push(x, w)} \cup Pending(w)
      /\ Head(Push(x, w)) = x
  BY PendingOfPush
<1>2. ASSUME NEW id, Marks(Coming(x), id)
      PROVE  /\ \A v \in Pending(w) : ~ Marks(Coming(Head(v)), id)
             /\ \A i \in DOMAIN code : ~ Marks(code[i], id)
  BY <1>2, Zenon DEF Used, Text, Written
<1>3. \A i, j \in DOMAIN code : \A id : Marks(code[i], id) /\ Marks(code[j], id) => i = j
  BY Zenon DEF Once
<1>4. \A u, v \in Pending(Push(x, w)) : \A id :
        Marks(Coming(Head(u)), id) /\ Marks(Coming(Head(v)), id) => u = v
  BY <1>1, <1>2, Zenon DEF Once
<1>5. \A i \in DOMAIN code, v \in Pending(Push(x, w)) : \A id :
        ~ (Marks(code[i], id) /\ Marks(Coming(Head(v)), id))
  BY <1>1, <1>2, Zenon DEF Once
<1> QED BY <1>3, <1>4, <1>5, Zenon DEF Once

LEMMA OnceAdd ==
  ASSUME NEW code, IsSeq(code), NEW a, NEW w, Once(code, w),
         \A id : Marks(a, id) => ~ Used(code, w, id)
  PROVE  Once(Add(code, a), w)
<1>1. \A i \in DOMAIN Add(code, a) :
        \/ i \in DOMAIN code /\ Add(code, a)[i] = code[i]
        \/ i = Len(code) + 1 /\ Add(code, a)[i] = a
  BY Added
<1>2. ASSUME NEW id, Marks(a, id)
      PROVE  /\ \A v \in Pending(w) : ~ Marks(Coming(Head(v)), id)
             /\ \A i \in DOMAIN code : ~ Marks(code[i], id)
  BY <1>2, Zenon DEF Used, Text, Written
<1>3. \A i, j \in DOMAIN Add(code, a) : \A id :
        Marks(Add(code, a)[i], id) /\ Marks(Add(code, a)[j], id) => i = j
  BY <1>1, <1>2, Zenon DEF Once
<1>4. \A u, v \in Pending(w) : \A id :
        Marks(Coming(Head(u)), id) /\ Marks(Coming(Head(v)), id) => u = v
  BY Zenon DEF Once
<1>5. \A i \in DOMAIN Add(code, a), v \in Pending(w) : \A id :
        ~ (Marks(Add(code, a)[i], id) /\ Marks(Coming(Head(v)), id))
  BY <1>1, <1>2, Zenon DEF Once
<1> QED BY <1>3, <1>4, <1>5, Zenon DEF Once

-----------------------------------------------------------------------------
(* What a step of the generator does to the code and to the work. *)

\* The stacks a step leaves: what follows a list (R) or a function (T) below.
FunctionStack(tree, f, n, T) ==
  Push(Generate(tree), Push(Emit("LABEL", n), Push(Emit("END", f), T)))

ElseStack(node, n, R) ==
  IF Child(node, 2) # <<>>
  THEN Push(Emit("GOTO", n + 1),
            Push(Emit("LABEL", n),
                 Push(Generate(Child(node, 2)), Push(Emit("LABEL", n + 1), R))))
  ELSE Push(Emit("LABEL", n), R)

IfStack(node, n, R) == Push(Generate(Child(node, 1)), ElseStack(node, n, R))

WhileStack(node, n, R) ==
  Push(Generate(Child(node, 1)), Push(Emit("GOTO", n), Push(Emit("LABEL", n + 1), R)))

Below == Push(Generate(Tail(Head(work).arg)), Tail(work))

Ready == IsSeq(work) /\ IsSeq(intermediate_code) /\ work # <<>>

LEMMA FunctionStep ==
  ASSUME IsSeq(work), IsSeq(intermediate_code), intermediate_code_decl_func
  PROVE  /\ Ready /\ Head(work).do = "function"
         /\ work' = FunctionStack(functions[Head(work).arg].tree, Head(work).arg, num_label,
                                  Tail(work))
         /\ intermediate_code' = Add(intermediate_code, Instr("FUN", Head(work).arg))
         /\ func_label' = num_label /\ num_label' = num_label + 1
         /\ UNCHANGED <<phase, functions>>
<1>1. /\ work # <<>> /\ Head(work).do = "function"
      /\ func_label' = num_label /\ num_label' = num_label + 1
      /\ UNCHANGED <<phase, functions>>
  BY DEF intermediate_code_decl_func, Generating, parsevars
<1> DEFINE f == Head(work).arg
<1>2. IsSeq(Tail(work))
  BY <1>1, Split
<1>3. intermediate_code' = Join(intermediate_code, One(Instr("FUN", f)))
  BY Zenon DEF intermediate_code_decl_func, add_instruction, One, Join
<1>5. intermediate_code' = Add(intermediate_code, Instr("FUN", f))
  BY <1>3, Zenon DEF Add
<1>6. work' = Join(Three(Generate(functions[f].tree), Emit("LABEL", num_label), Emit("END", f)),
                   Tail(work))
  BY Zenon DEF intermediate_code_decl_func, Three, Join
<1>7. \A x, y, z : Join(Three(x, y, z), Tail(work)) = Push(x, Push(y, Push(z, Tail(work))))
  BY <1>2, ItemsInFront
<1>8. work' = FunctionStack(functions[f].tree, f, num_label, Tail(work))
  BY <1>6, <1>7, Zenon DEF FunctionStack
<1> QED BY <1>1, <1>5, <1>8 DEF Ready

LEMMA EmitStep ==
  ASSUME IsSeq(work), IsSeq(intermediate_code), EmitLater
  PROVE  /\ Ready /\ Head(work).do = "emit" /\ work' = Tail(work)
         /\ intermediate_code' = Add(intermediate_code, Head(work).arg)
         /\ UNCHANGED <<phase, functions, num_label, func_label>>
<1>1. /\ work # <<>> /\ Head(work).do = "emit" /\ work' = Tail(work)
      /\ UNCHANGED <<phase, functions, num_label, func_label>>
  BY DEF EmitLater, Generating, parsevars
<1>3. intermediate_code' = Add(intermediate_code, Head(work).arg)
  BY Zenon DEF EmitLater, add_instruction, One, Join, Add
<1> QED BY <1>1, <1>3 DEF Ready

LEMMA EmptyStep ==
  ASSUME IsSeq(work), IsSeq(intermediate_code), EndOfList
  PROVE  /\ Ready /\ Head(work).do = "list" /\ Head(work).arg = <<>> /\ work' = Tail(work)
         /\ UNCHANGED <<phase, functions, num_label, func_label, intermediate_code>>
BY DEF EndOfList, Generating, parsevars, Ready

\* The part common to the steps on the statements of a list.
LEMMA StatementStep ==
  ASSUME IsSeq(work), NEW op, NEW later, IsSeq(later), create_intermediate_code(op, later)
  PROVE  /\ work # <<>> /\ Head(work).do = "list" /\ Head(work).arg # <<>> /\ Node.op = op
         /\ IsSeq(Below) /\ work' = Join(later, Below)
         /\ UNCHANGED <<phase, functions, func_label>>
<1>1. /\ work # <<>> /\ Head(work).do = "list" /\ Head(work).arg # <<>> /\ Node.op = op
      /\ UNCHANGED <<phase, functions, func_label>>
  BY DEF create_intermediate_code, Generating, parsevars, Node
<1>2. IsSeq(Tail(work))
  BY <1>1, Split
<1> DEFINE g == Generate(Tail(Head(work).arg))
<1>3. work' = Join(Join(later, One(g)), Tail(work))
  BY Zenon DEF create_intermediate_code, Join, One
<1>4. Join(Join(later, One(g)), Tail(work)) = Join(later, Join(One(g), Tail(work)))
  <2>1. IsSeq(One(g))
    BY OneItem
  <2> HIDE DEF g
  <2> QED BY <1>2, <2>1, JoinedTwice
<1>5. Join(One(g), Tail(work)) = Below
  BY Zenon DEF Below, Push
<1>6. IsSeq(Below)
  BY <1>2, Pushed, Zenon DEF Below
<1> QED BY <1>1, <1>3, <1>4, <1>5, <1>6

LEMMA ExpressionStep ==
  ASSUME IsSeq(work), IsSeq(intermediate_code), GenerateExpression
  PROVE  /\ Ready /\ Head(work).do = "list" /\ Head(work).arg # <<>> /\ Node.op = "OP"
         /\ work' = Below
         /\ intermediate_code' = Add(intermediate_code, Instr("OP", Node.id))
         /\ UNCHANGED <<phase, functions, num_label, func_label>>
<1>1. create_intermediate_code("OP", <<>>) /\ UNCHANGED num_label
  BY DEF GenerateExpression
<1>2. /\ work # <<>> /\ Head(work).do = "list" /\ Head(work).arg # <<>> /\ Node.op = "OP"
      /\ IsSeq(Below) /\ work' = Join(<<>>, Below)
      /\ UNCHANGED <<phase, functions, func_label>>
  BY <1>1, EmptyIsSeq, StatementStep, Zenon
<1>3. work' = Below
  BY <1>2, JoinedEmpty, Zenon
<1>5. intermediate_code' = Add(intermediate_code, Instr("OP", Node.id))
  BY Zenon DEF GenerateExpression, add_instruction, One, Join, Add
<1> QED BY <1>1, <1>2, <1>3, <1>5 DEF Ready

LEMMA ReturnStep ==
  ASSUME IsSeq(work), IsSeq(intermediate_code), intermediate_code_decl_return
  PROVE  /\ Ready /\ Head(work).do = "list" /\ Head(work).arg # <<>> /\ Node.op = "RETURN"
         /\ work' = Below
         /\ intermediate_code' = Add(Add(intermediate_code, Instr("RETURN", Node.id)),
                                     Instr("GOTO", func_label))
         /\ UNCHANGED <<phase, functions, num_label, func_label>>
<1>1. create_intermediate_code("RETURN", <<>>) /\ UNCHANGED num_label
  BY DEF intermediate_code_decl_return
<1>2. /\ work # <<>> /\ Head(work).do = "list" /\ Head(work).arg # <<>> /\ Node.op = "RETURN"
      /\ IsSeq(Below) /\ work' = Join(<<>>, Below)
      /\ UNCHANGED <<phase, functions, func_label>>
  BY <1>1, EmptyIsSeq, StatementStep, Zenon
<1>3. work' = Below
  BY <1>2, JoinedEmpty, Zenon
<1>4. intermediate_code' = Join(intermediate_code, Two(Instr("RETURN", Node.id),
                                                        Instr("GOTO", func_label)))
  BY Zenon DEF intermediate_code_decl_return, add_instruction, Two, Join
<1>5. intermediate_code' = Add(Add(intermediate_code, Instr("RETURN", Node.id)),
                               Instr("GOTO", func_label))
  <2>1. \A a, b : Join(intermediate_code, Two(a, b)) = Add(Add(intermediate_code, a), b)
    BY AddedItems
  <2> QED BY <1>4, <2>1, Zenon
<1> QED BY <1>1, <1>2, <1>3, <1>5 DEF Ready

LEMMA IfStep ==
  ASSUME IsSeq(work), IsSeq(intermediate_code), intermediate_code_decl_if
  PROVE  /\ Ready /\ Head(work).do = "list" /\ Head(work).arg # <<>> /\ Node.op = "IF"
         /\ work' = IfStack(Node, num_label, Below)
         /\ intermediate_code' = Add(Add(intermediate_code, Instr("CONDITION", Node.id)),
                                     Instr("IFF", num_label))
         /\ num_label' = num_label + 2 /\ UNCHANGED <<phase, functions, func_label>>
<1> DEFINE c == Generate(Child(Node, 1))
           later == Push(c, ElseCode(Node))
           four == Four(Emit("GOTO", num_label + 1), Emit("LABEL", num_label),
                        Generate(Child(Node, 2)), Emit("LABEL", num_label + 1))
           one == One(Emit("LABEL", num_label))
<1>1. create_intermediate_code("IF", later) /\ num_label' = num_label + 2
  BY Zenon DEF intermediate_code_decl_if, Push, Join, One
<1>2. ElseCode(Node) = IF Child(Node, 2) # <<>> THEN four ELSE one
  BY Zenon DEF ElseCode, Four, One
<1>3. IsSeq(four) /\ IsSeq(one)
  BY FourItems, OneItem, Zenon
<1>4. IsSeq(ElseCode(Node))
  BY <1>2, <1>3
<1>5. IsSeq(later)
  BY <1>4, Pushed, Zenon
<1>6. /\ work # <<>> /\ Head(work).do = "list" /\ Head(work).arg # <<>> /\ Node.op = "IF"
      /\ IsSeq(Below) /\ work' = Join(later, Below)
      /\ UNCHANGED <<phase, functions, func_label>>
  BY <1>1, <1>5, StatementStep, Zenon
<1>7. Join(later, Below) = Push(c, Join(ElseCode(Node), Below))
  <2>1. IsSeq(Below)
    BY <1>6
  <2> HIDE DEF c
  <2> QED BY <1>4, <2>1, InFront
<1>8. Join(ElseCode(Node), Below) = ElseStack(Node, num_label, Below)
  <2>1. CASE Child(Node, 2) # <<>>
    <3>1. \A x, y, z, u :
            Join(Four(x, y, z, u), Below) = Push(x, Push(y, Push(z, Push(u, Below))))
      BY <1>6, ItemsInFront
    <3>2. Join(four, Below) = ElseStack(Node, num_label, Below)
      BY <2>1, <3>1, Zenon DEF ElseStack
    <3> QED BY <1>2, <2>1, <3>2
  <2>2. CASE Child(Node, 2) = <<>>
    <3>1. Join(one, Below) = ElseStack(Node, num_label, Below)
      BY <2>2, Zenon DEF ElseStack, Push
    <3> QED BY <1>2, <2>2, <3>1
  <2> QED BY <2>1, <2>2
<1>9. work' = IfStack(Node, num_label, Below)
  BY <1>6, <1>7, <1>8, Zenon DEF IfStack
<1>10. intermediate_code' = Join(intermediate_code, Two(Instr("CONDITION", Node.id),
                                                         Instr("IFF", num_label)))
  BY Zenon DEF intermediate_code_decl_if, add_instruction, Two, Join
<1>11. intermediate_code' = Add(Add(intermediate_code, Instr("CONDITION", Node.id)),
                                Instr("IFF", num_label))
  <2>1. \A a, b : Join(intermediate_code, Two(a, b)) = Add(Add(intermediate_code, a), b)
    BY AddedItems
  <2> QED BY <1>10, <2>1, Zenon
<1> QED BY <1>1, <1>6, <1>9, <1>11 DEF Ready

LEMMA WhileStep ==
  ASSUME IsSeq(work), IsSeq(intermediate_code), intermediate_code_decl_while
  PROVE  /\ Ready /\ Head(work).do = "list" /\ Head(work).arg # <<>> /\ Node.op = "WHILE"
         /\ work' = WhileStack(Node, num_label, Below)
         /\ intermediate_code' =
              Add(Add(Add(intermediate_code, Instr("LABEL", num_label)),
                      Instr("CONDITION", Node.id)), Instr("IFF", num_label + 1))
         /\ num_label' = num_label + 2 /\ UNCHANGED <<phase, functions, func_label>>
<1> DEFINE later == Three(Generate(Child(Node, 1)), Emit("GOTO", num_label),
                          Emit("LABEL", num_label + 1))
<1>1. create_intermediate_code("WHILE", later) /\ num_label' = num_label + 2
  BY Zenon DEF intermediate_code_decl_while, Three
<1>2. IsSeq(later)
  BY ThreeItems, Zenon
<1>3. /\ work # <<>> /\ Head(work).do = "list" /\ Head(work).arg # <<>> /\ Node.op = "WHILE"
      /\ IsSeq(Below) /\ work' = Join(later, Below)
      /\ UNCHANGED <<phase, functions, func_label>>
  BY <1>1, <1>2, StatementStep, Zenon
<1>4. Join(later, Below) = WhileStack(Node, num_label, Below)
  <2>1. \A x, y, z : Join(Three(x, y, z), Below) = Push(x, Push(y, Push(z, Below)))
    BY <1>3, ItemsInFront
  <2> QED BY <2>1, Zenon DEF WhileStack
<1>5. intermediate_code' =
        Join(intermediate_code, Three(Instr("LABEL", num_label), Instr("CONDITION", Node.id),
                                      Instr("IFF", num_label + 1)))
  BY Zenon DEF intermediate_code_decl_while, add_instruction, Three, Join
<1>6. intermediate_code' =
        Add(Add(Add(intermediate_code, Instr("LABEL", num_label)),
                Instr("CONDITION", Node.id)), Instr("IFF", num_label + 1))
  <2>1. \A a, b, c : Join(intermediate_code, Three(a, b, c))
                      = Add(Add(Add(intermediate_code, a), b), c)
    BY AddedItems
  <2> QED BY <1>5, <2>1
<1> QED BY <1>1, <1>3, <1>4, <1>6 DEF Ready

-----------------------------------------------------------------------------
(* The labels of a program being generated. *)

\* A list is generated between the FUN and the LABEL of its function.
Sound(code, w, n, l) ==
  /\ Once(code, w)
  /\ Numbered(Text(code, w), n)
  /\ Resolved(Text(code, w))
  /\ (\E v \in Pending(w) : Head(v).do = "list") => Instr("LABEL", l) \in Text(code, w)

\* An instruction that can join the text.
Welcome(instr, code, w, n) ==
  /\ \A id : Marks(instr, id) => ~ Used(code, w, id)
  /\ instr.op = "LABEL" => instr.arg \in 0..n - 1
  /\ instr.op \in {"IFF", "GOTO"} => Used(code, w, <<"Label", instr.arg>>)

LEMMA TextGrows ==
  ASSUME NEW text, NEW a, NEW n, Numbered(text, n), Resolved(text),
         a.op = "LABEL" => a.arg \in 0..n - 1,
         a.op \in {"IFF", "GOTO"} => \E instr \in text : Marks(instr, <<"Label", a.arg>>)
  PROVE  Numbered({a} \cup text, n) /\ Resolved({a} \cup text)
<1>1. Numbered({a} \cup text, n)
  BY DEF Numbered
<1>2. Resolved({a} \cup text)
  BY Zenon DEF Resolved
<1> QED BY <1>1, <1>2

LEMMA PushSound ==
  ASSUME NEW code, NEW w, IsSeq(w), NEW n, NEW l, Sound(code, w, n, l),
         NEW x, Welcome(Coming(x), code, w, n),
         x.do = "list" => Instr("LABEL", l) \in Text(code, w)
  PROVE  Sound(code, Push(x, w), n, l)
<1>1. Text(code, Push(x, w)) = {Coming(x)} \cup Text(code, w)
  BY TextOfPush
<1>2. Once(code, Push(x, w))
  BY OncePush, Zenon DEF Sound, Welcome
<1>3. Numbered({Coming(x)} \cup Text(code, w), n) /\ Resolved({Coming(x)} \cup Text(code, w))
  BY TextGrows, Zenon DEF Sound, Welcome, Used
<1>4. /\ Pending(Push(x, w)) = {Push(x, w)} \cup Pending(w)
      /\ Head(Push(x, w)) = x
  BY PendingOfPush
<1>5. (\E v \in Pending(Push(x, w)) : Head(v).do = "list")
        => Instr("LABEL", l) \in Text(code, w)
  BY <1>4, Zenon DEF Sound
<1> QED BY <1>1, <1>2, <1>3, <1>5, Zenon DEF Sound

LEMMA AddSound ==
  ASSUME NEW code, IsSeq(code), NEW w, NEW n, NEW l, Sound(code, w, n, l),
         NEW a, Welcome(a, code, w, n)
  PROVE  Sound(Add(code, a), w, n, l)
<1>1. Text(Add(code, a), w) = {a} \cup Text(code, w)
  BY TextOfAdd
<1>2. Once(Add(code, a), w)
  BY OnceAdd, Zenon DEF Sound, Welcome
<1>3. Numbered({a} \cup Text(code, w), n) /\ Resolved({a} \cup Text(code, w))
  BY TextGrows, Zenon DEF Sound, Welcome, Used
<1>4. (\E v \in Pending(w) : Head(v).do = "list") => Instr("LABEL", l) \in Text(code, w)
  BY Zenon DEF Sound
<1> QED BY <1>1, <1>2, <1>3, <1>4, Zenon DEF Sound

\* A list is done.
LEMMA DropSound ==
  ASSUME NEW code, NEW w, IsSeq(w), NEW n, NEW l, NEW x, x.do = "list",
         Sound(code, Push(x, w), n, l)
  PROVE  Sound(code, w, n, l) /\ Instr("LABEL", l) \in Text(code, w)
<1>1. Text(code, Push(x, w)) = {Coming(x)} \cup Text(code, w)
  BY TextOfPush
<1>2. Coming(x).op = "OP"
  BY DEF Coming, Instr
<1>3. Once(code, w)
  BY OncePop, Zenon DEF Sound
<1>4. Numbered(Text(code, w), n)
  BY <1>1, Zenon DEF Sound, Numbered
<1>5. Resolved(Text(code, w))
  <2> SUFFICES ASSUME NEW jump \in Text(code, w), jump.op \in {"IFF", "GOTO"}
               PROVE  \E instr \in Text(code, w) : Marks(instr, <<"Label", jump.arg>>)
    BY Zenon DEF Resolved
  <2>1. PICK instr \in Text(code, Push(x, w)) : Marks(instr, <<"Label", jump.arg>>)
    BY <1>1, Zenon DEF Sound, Resolved
  <2>2. instr # Coming(x)
    BY <1>2, <2>1 DEF Marks
  <2> QED BY <1>1, <2>1, <2>2
<1>6. /\ Pending(Push(x, w)) = {Push(x, w)} \cup Pending(w)
      /\ Head(Push(x, w)) = x
  BY PendingOfPush
<1>7. Instr("LABEL", l) \in Text(code, Push(x, w))
  BY <1>6, Zenon DEF Sound
<1>8. Instr("LABEL", l) # Coming(x)
  BY <1>2 DEF Instr
<1>9. Instr("LABEL", l) \in Text(code, w)
  BY <1>1, <1>7, <1>8
<1> QED BY <1>3, <1>4, <1>5, <1>9, Zenon DEF Sound

\* What an item has promised it adds.
LEMMA EmitSound ==
  ASSUME NEW code, IsSeq(code), NEW w, IsSeq(w), NEW n, NEW l, NEW x, x.do # "list",
         Sound(code, Push(x, w), n, l)
  PROVE  Sound(Add(code, Coming(x)), w, n, l)
<1>1. Text(code, Push(x, w)) = {Coming(x)} \cup Text(code, w)
      /\ Text(Add(code, Coming(x)), w) = {Coming(x)} \cup Text(code, w)
  BY TextOfPush, TextOfAdd
<1>2. Once(code, w) /\ \A id : Marks(Coming(x), id) => ~ Used(code, w, id)
  BY OncePop, Zenon DEF Sound
<1>3. Once(Add(code, Coming(x)), w)
  BY <1>2, OnceAdd, Zenon
<1>4. /\ Pending(Push(x, w)) = {Push(x, w)} \cup Pending(w)
  BY PendingOfPush
<1> QED BY <1>1, <1>3, <1>4, Zenon DEF Sound

LEMMA UsedItems ==
  ASSUME NEW code, IsSeq(code), NEW w, IsSeq(w), NEW id
  PROVE  /\ \A x : Used(code, Push(x, w), id) <=> Marks(Coming(x), id) \/ Used(code, w, id)
         /\ \A a : Used(Add(code, a), w, id) <=> Marks(a, id) \/ Used(code, w, id)
<1>1. \A x : Text(code, Push(x, w)) = {Coming(x)} \cup Text(code, w)
  BY TextOfPush
<1>2. \A a : Text(Add(code, a), w) = {a} \cup Text(code, w)
  BY TextOfAdd
<1> QED BY <1>1, <1>2, Zenon DEF Used

LEMMA InstrMarks ==
  /\ \A k, id : Marks(Instr("LABEL", k), id) <=> id = <<"Label", k>>
  /\ \A k, id : Marks(Instr("FUN", k), id) <=> id = <<"function", k>>
  /\ \A op, k, id : op \notin {"FUN", "LABEL"} => ~ Marks(Instr(op, k), id)
  /\ \A op, k : Instr(op, k).op = op /\ Instr(op, k).arg = k
  /\ \A op, k : Coming(Emit(op, k)) = Instr(op, k) /\ Emit(op, k).do = "emit"
  /\ \A list : Coming(Generate(list)) = Instr("OP", 0) /\ Generate(list).do = "list"
  /\ \A j, k : <<"Label", j>> = <<"Label", k>> <=> j = k
  /\ \A j, k : <<"Label", j>> # <<"function", k>>
<1>1. \A op, k : Instr(op, k).op = op /\ Instr(op, k).arg = k
  BY DEF Instr
<1>2. /\ \A k, id : Marks(Instr("LABEL", k), id) <=> id = <<"Label", k>>
      /\ \A k, id : Marks(Instr("FUN", k), id) <=> id = <<"function", k>>
      /\ \A op, k, id : op \notin {"FUN", "LABEL"} => ~ Marks(Instr(op, k), id)
  BY <1>1 DEF Marks, Label
<1>3. /\ \A op, k : Coming(Emit(op, k)) = Instr(op, k) /\ Emit(op, k).do = "emit"
      /\ \A list : Coming(Generate(list)) = Instr("OP", 0) /\ Generate(list).do = "list"
  BY DEF Coming, Emit, Generate
<1>4. /\ \A j, k : <<"Label", j>> = <<"Label", k>> <=> j = k
      /\ \A j, k : <<"Label", j>> # <<"function", k>>
  OBVIOUS
<1> QED BY <1>1, <1>2, <1>3, <1>4

LEMMA FreshLabel ==
  ASSUME NEW code, NEW w, NEW n, NEW l, Sound(code, w, n, l)
  PROVE  n \in Nat /\ \A k \in Nat : k >= n => ~ Used(code, w, <<"Label", k>>)
<1>1. n \in Nat /\ \A instr \in Text(code, w) : instr.op = "LABEL" => instr.arg \in 0..n - 1
  BY DEF Sound, Numbered
<1>2. ASSUME NEW k \in Nat, k >= n, NEW instr \in Text(code, w), Marks(instr, <<"Label", k>>)
      PROVE  FALSE
  <2>1. instr.op = "LABEL" /\ instr.arg = k
    BY <1>2 DEF Marks, Label
  <2> QED BY <1>1, <1>2, <2>1
<1> QED BY <1>1, <1>2, Zenon DEF Used

LEMMA MoreLabels ==
  ASSUME NEW code, NEW w, NEW n, NEW l, Sound(code, w, n, l), NEW m \in Nat, n <= m
  PROVE  Sound(code, w, m, l)
<1>1. Numbered(Text(code, w), m)
  BY DEF Sound, Numbered
<1> QED BY <1>1, Zenon DEF Sound

\* Instructions that set no label and jump nowhere are always welcome.
LEMMA PlainWelcome ==
  ASSUME NEW code, NEW w, NEW n, NEW k,
         NEW op \in {"END", "OP", "RETURN", "CONDITION"}
  PROVE  Welcome(Instr(op, k), code, w, n)
<1>1. op \notin {"FUN", "LABEL"} /\ op # "LABEL" /\ op \notin {"IFF", "GOTO"}
  OBVIOUS
<1> QED BY <1>1, InstrMarks, Zenon DEF Welcome

LEMMA LabelWelcome ==
  ASSUME NEW code, NEW w, NEW n, NEW k \in 0..n - 1, ~ Used(code, w, <<"Label", k>>)
  PROVE  Welcome(Instr("LABEL", k), code, w, n)
<1>1. PICK a : a = Instr("LABEL", k)
  OBVIOUS
<1>2. a.op = "LABEL" /\ a.arg = k /\ \A id : Marks(a, id) <=> id = <<"Label", k>>
  BY <1>1, InstrMarks
<1>3. Welcome(a, code, w, n)
  BY <1>2 DEF Welcome
<1> QED BY <1>1, <1>3

LEMMA JumpWelcome ==
  ASSUME NEW code, NEW w, NEW n, NEW k, NEW op \in {"IFF", "GOTO"}, Used(code, w, <<"Label", k>>)
  PROVE  Welcome(Instr(op, k), code, w, n)
<1>1. PICK a : a = Instr(op, k)
  OBVIOUS
<1>2. a.op = op /\ a.arg = k /\ \A id : ~ Marks(a, id)
  BY <1>1, InstrMarks
<1>3. Welcome(a, code, w, n)
  BY <1>2 DEF Welcome
<1> QED BY <1>1, <1>3

\* While the statements of a function are generated, l is the label of its end.
Inside(code, w, n, l) ==
  /\ IsSeq(code) /\ IsSeq(w) /\ Sound(code, w, n, l)
  /\ Instr("LABEL", l) \in Text(code, w)

LEMMA InsideMoves ==
  ASSUME NEW code, NEW w, NEW n, NEW l, Inside(code, w, n, l)
  PROVE  /\ \A list : Inside(code, Push(Generate(list), w), n, l)
         /\ \A op, k : Welcome(Instr(op, k), code, w, n) =>
              /\ Inside(code, Push(Emit(op, k), w), n, l)
              /\ Inside(Add(code, Instr(op, k)), w, n, l)
<1>1. IsSeq(code) /\ IsSeq(w) /\ Sound(code, w, n, l) /\ Instr("LABEL", l) \in Text(code, w)
  BY DEF Inside
<1>2. \A x : IsSeq(Push(x, w)) /\ Text(code, Push(x, w)) = {Coming(x)} \cup Text(code, w)
  BY <1>1, Pushed, TextOfPush
<1>3. \A a : IsSeq(Add(code, a)) /\ Text(Add(code, a), w) = {a} \cup Text(code, w)
  BY <1>1, Added, TextOfAdd
<1>4. ASSUME NEW list PROVE Inside(code, Push(Generate(list), w), n, l)
  <2>1. PICK x : x = Generate(list)
    OBVIOUS
  <2>2. Coming(x) = Instr("OP", 0)
    BY <2>1, InstrMarks
  <2>3. Welcome(Coming(x), code, w, n)
    BY <2>2, PlainWelcome
  <2>4. Sound(code, Push(x, w), n, l)
    BY <1>1, <2>3, PushSound
  <2> QED BY <1>1, <1>2, <2>1, <2>4, Zenon DEF Inside
<1>5. ASSUME NEW op, NEW k, Welcome(Instr(op, k), code, w, n)
      PROVE  Inside(code, Push(Emit(op, k), w), n, l)
  <2>1. PICK x : x = Emit(op, k)
    OBVIOUS
  <2>2. Coming(x) = Instr(op, k) /\ x.do # "list"
    BY <2>1, InstrMarks
  <2>3. Welcome(Coming(x), code, w, n)
    BY <1>5, <2>2
  <2>4. Sound(code, Push(x, w), n, l)
    BY <1>1, <2>2, <2>3, PushSound
  <2> QED BY <1>1, <1>2, <2>1, <2>4, Zenon DEF Inside
<1>6. ASSUME NEW op, NEW k, Welcome(Instr(op, k), code, w, n)
      PROVE  Inside(Add(code, Instr(op, k)), w, n, l)
  <2>1. Sound(Add(code, Instr(op, k)), w, n, l)
    BY <1>1, <1>6, AddSound
  <2> QED BY <1>1, <1>3, <2>1, Zenon DEF Inside
<1> QED BY <1>4, <1>5, <1>6

LEMMA BelowInside ==
  ASSUME NEW code, IsSeq(code), NEW w, IsSeq(w), NEW n, NEW l, NEW x, x.do = "list",
         Sound(code, Push(x, w), n, l), NEW list
  PROVE  Inside(code, Push(Generate(list), w), n, l)
<1>1. Inside(code, w, n, l)
  BY DropSound, Zenon DEF Inside
<1> QED BY <1>1, InsideMoves

LEMMA FunctionInside ==
  ASSUME NEW code, IsSeq(code), NEW w, IsSeq(w), NEW n, NEW l, NEW x, x.do = "function",
         Sound(code, Push(x, w), n, l), NEW tree
  PROVE  Inside(Add(code, Instr("FUN", x.arg)), FunctionStack(tree, x.arg, n, w), n + 1, n)
<1>1. Coming(x) = Instr("FUN", x.arg) /\ x.do # "list"
  BY DEF Coming
<1>2. PICK c : c = Add(code, Instr("FUN", x.arg))
  OBVIOUS
<1>3. IsSeq(c) /\ Sound(c, w, n, l)
  BY <1>1, <1>2, EmitSound, Added
<1>4. n \in Nat /\ n + 1 \in Nat /\ n <= n + 1 /\ n \in 0..(n + 1) - 1
      /\ ~ Used(c, w, <<"Label", n>>)
  BY <1>3, FreshLabel
<1>5. PICK m : m = n + 1
  OBVIOUS
<1>6. Sound(c, w, m, l)
  BY <1>3, <1>4, <1>5, MoreLabels
<1>7. PICK e : e = Emit("END", x.arg)
  OBVIOUS
<1>8. Coming(e) = Instr("END", x.arg) /\ e.do # "list"
  BY <1>7, InstrMarks
<1>9. Sound(c, Push(e, w), m, l) /\ IsSeq(Push(e, w))
  <2>1. Welcome(Coming(e), c, w, m)
    BY <1>8, PlainWelcome
  <2> QED BY <1>3, <1>6, <1>8, <2>1, PushSound, Pushed
<1>10. PICK b : b = Emit("LABEL", n)
  OBVIOUS
<1>11. Coming(b) = Instr("LABEL", n) /\ b.do # "list"
  BY <1>10, InstrMarks
<1>12. ~ Used(c, Push(e, w), <<"Label", n>>)
  <2>1. ~ Marks(Coming(e), <<"Label", n>>)
    BY <1>8, InstrMarks
  <2> QED BY <1>3, <1>4, <2>1, UsedItems
<1>13. PICK v : v = Push(b, Push(e, w))
  OBVIOUS
<1>14. Sound(c, v, m, l) /\ IsSeq(v) /\ Text(c, v) = {Coming(b)} \cup Text(c, Push(e, w))
  <2>1. Welcome(Coming(b), c, Push(e, w), m)
    BY <1>4, <1>5, <1>11, <1>12, LabelWelcome
  <2> QED BY <1>9, <1>11, <1>13, <2>1, PushSound, Pushed, TextOfPush
<1>15. Inside(c, v, m, n)
  BY <1>3, <1>11, <1>14, Zenon DEF Inside, Sound
<1>16. Inside(c, Push(Generate(tree), v), m, n)
  BY <1>15, InsideMoves
<1> QED BY <1>2, <1>5, <1>7, <1>10, <1>13, <1>16, Zenon DEF FunctionStack

LEMMA ElseInside ==
  ASSUME NEW code, NEW w, NEW n \in Nat, NEW m, m = n + 2, NEW l, Inside(code, w, m, l),
         \A k \in Nat : k >= n => ~ Used(code, w, <<"Label", k>>), NEW node
  PROVE  /\ Inside(code, ElseStack(node, n, w), m, l)
         /\ Used(code, ElseStack(node, n, w), <<"Label", n>>)
<1>0. PICK k : k = n + 1
  OBVIOUS
<1>1. /\ n \in 0..m - 1 /\ k \in 0..m - 1 /\ n # k
      /\ ~ Used(code, w, <<"Label", n>>) /\ ~ Used(code, w, <<"Label", k>>)
  BY <1>0
<1>2. IsSeq(code) /\ IsSeq(w)
  BY DEF Inside
<1>3. CASE Child(node, 2) = <<>>
  <2>1. Inside(code, Push(Emit("LABEL", n), w), m, l)
    BY <1>1, LabelWelcome, InsideMoves
  <2>2. Used(code, Push(Emit("LABEL", n), w), <<"Label", n>>)
    BY <1>2, UsedItems, InstrMarks
  <2> QED BY <1>3, <2>1, <2>2, Zenon DEF ElseStack
<1>4. CASE Child(node, 2) # <<>>
  <2>1. PICK w1 : w1 = Push(Emit("LABEL", k), w)
    OBVIOUS
  <2>2. /\ Inside(code, w1, m, l)
        /\ Used(code, w1, <<"Label", k>>) /\ ~ Used(code, w1, <<"Label", n>>)
    <3>1. Inside(code, w1, m, l)
      BY <1>1, <2>1, LabelWelcome, InsideMoves
    <3>2. \A id : Used(code, w1, id) <=> Marks(Instr("LABEL", k), id) \/ Used(code, w, id)
      BY <1>2, <2>1, UsedItems, InstrMarks
    <3>3. Marks(Instr("LABEL", k), <<"Label", k>>) /\ ~ Marks(Instr("LABEL", k), <<"Label", n>>)
      BY <1>1, InstrMarks
    <3> QED BY <1>1, <3>1, <3>2, <3>3
  <2>3. PICK w2 : w2 = Push(Generate(Child(node, 2)), w1)
    OBVIOUS
  <2>4. /\ Inside(code, w2, m, l)
        /\ Used(code, w2, <<"Label", k>>) /\ ~ Used(code, w2, <<"Label", n>>)
    <3>1. Inside(code, w2, m, l)
      BY <2>2, <2>3, InsideMoves
    <3>2. \A id : Used(code, w2, id) <=> Marks(Instr("OP", 0), id) \/ Used(code, w1, id)
      BY <2>2, <2>3, UsedItems, InstrMarks DEF Inside
    <3>3. \A id : ~ Marks(Instr("OP", 0), id)
      BY InstrMarks
    <3> QED BY <2>2, <3>1, <3>2, <3>3
  <2>5. PICK w3 : w3 = Push(Emit("LABEL", n), w2)
    OBVIOUS
  <2>6. /\ Inside(code, w3, m, l)
        /\ Used(code, w3, <<"Label", k>>) /\ Used(code, w3, <<"Label", n>>)
    <3>1. Inside(code, w3, m, l)
      BY <1>1, <2>4, <2>5, LabelWelcome, InsideMoves
    <3>2. \A id : Used(code, w3, id) <=> Marks(Instr("LABEL", n), id) \/ Used(code, w2, id)
      BY <2>4, <2>5, UsedItems, InstrMarks DEF Inside
    <3>3. Marks(Instr("LABEL", n), <<"Label", n>>)
      BY InstrMarks
    <3> QED BY <2>4, <3>1, <3>2, <3>3
  <2>7. PICK w4 : w4 = Push(Emit("GOTO", k), w3)
    OBVIOUS
  <2>8. Inside(code, w4, m, l) /\ Used(code, w4, <<"Label", n>>)
    <3>1. Inside(code, w4, m, l)
      BY <2>6, <2>7, JumpWelcome, InsideMoves
    <3>2. \A id : Used(code, w3, id) => Used(code, w4, id)
      BY <2>6, <2>7, UsedItems DEF Inside
    <3> QED BY <2>6, <3>1, <3>2
  <2> QED BY <1>0, <1>4, <2>1, <2>3, <2>5, <2>7, <2>8, Zenon DEF ElseStack
<1> QED BY <1>3, <1>4

LEMMA IfInside ==
  ASSUME NEW code, NEW w, NEW n, NEW l, Inside(code, w, n, l), NEW node, NEW c
  PROVE  Inside(Add(Add(code, Instr("CONDITION", c)), Instr("IFF", n)), IfStack(node, n, w),
                n + 2, l)
<1>1. n \in Nat /\ \A k \in Nat : k >= n => ~ Used(code, w, <<"Label", k>>)
  BY FreshLabel DEF Inside
<1>2. PICK m : m = n + 2
  OBVIOUS
<1>3. m \in Nat /\ n <= m
  BY <1>1, <1>2
<1>4. Inside(code, w, m, l)
  BY <1>3, MoreLabels, Zenon DEF Inside
<1>5. PICK v : v = ElseStack(node, n, w)
  OBVIOUS
<1>6. Inside(code, v, m, l) /\ Used(code, v, <<"Label", n>>)
  BY <1>1, <1>2, <1>4, <1>5, ElseInside
<1>7. PICK u : u = Push(Generate(Child(node, 1)), v)
  OBVIOUS
<1>8. Inside(code, u, m, l) /\ Used(code, u, <<"Label", n>>)
  BY <1>6, <1>7, InsideMoves, UsedItems DEF Inside
<1>9. PICK d : d = Add(code, Instr("CONDITION", c))
  OBVIOUS
<1>10. Inside(d, u, m, l) /\ Used(d, u, <<"Label", n>>)
  <2>1. Inside(d, u, m, l)
    BY <1>8, <1>9, PlainWelcome, InsideMoves
  <2> QED BY <1>8, <1>9, <2>1, UsedItems DEF Inside
<1>11. Inside(Add(d, Instr("IFF", n)), u, m, l)
  BY <1>10, JumpWelcome, InsideMoves
<1> QED BY <1>2, <1>5, <1>7, <1>9, <1>11, Zenon DEF IfStack

LEMMA WhileInside ==
  ASSUME NEW code, NEW w, NEW n, NEW l, Inside(code, w, n, l), NEW node, NEW c
  PROVE  Inside(Add(Add(Add(code, Instr("LABEL", n)), Instr("CONDITION", c)),
                    Instr("IFF", n + 1)),
                WhileStack(node, n, w), n + 2, l)
<1>1. n \in Nat /\ \A k \in Nat : k >= n => ~ Used(code, w, <<"Label", k>>)
  BY FreshLabel DEF Inside
<1>2. PICK m : m = n + 2
  OBVIOUS
<1>3. PICK k : k = n + 1
  OBVIOUS
<1>4. /\ m \in Nat /\ n <= m /\ n \in 0..m - 1 /\ k \in 0..m - 1 /\ n # k
      /\ ~ Used(code, w, <<"Label", n>>) /\ ~ Used(code, w, <<"Label", k>>)
  BY <1>1, <1>2, <1>3
<1>5. Inside(code, w, m, l)
  BY <1>4, MoreLabels, Zenon DEF Inside
<1>6. PICK c1 : c1 = Add(code, Instr("LABEL", n))
  OBVIOUS
<1>7. /\ Inside(c1, w, m, l)
      /\ Used(c1, w, <<"Label", n>>) /\ ~ Used(c1, w, <<"Label", k>>)
  <2>1. Inside(c1, w, m, l)
    BY <1>4, <1>5, <1>6, LabelWelcome, InsideMoves
  <2>2. \A id : Used(c1, w, id) <=> Marks(Instr("LABEL", n), id) \/ Used(code, w, id)
    BY <1>5, <1>6, UsedItems DEF Inside
  <2>3. Marks(Instr("LABEL", n), <<"Label", n>>) /\ ~ Marks(Instr("LABEL", n), <<"Label", k>>)
    BY <1>4, InstrMarks
  <2> QED BY <1>4, <2>1, <2>2, <2>3
<1>8. PICK w1 : w1 = Push(Emit("LABEL", k), w)
  OBVIOUS
<1>9. /\ Inside(c1, w1, m, l)
      /\ Used(c1, w1, <<"Label", n>>) /\ Used(c1, w1, <<"Label", k>>)
  <2>1. Inside(c1, w1, m, l)
    BY <1>4, <1>7, <1>8, LabelWelcome, InsideMoves
  <2>2. \A id : Used(c1, w1, id) <=> Marks(Instr("LABEL", k), id) \/ Used(c1, w, id)
    BY <1>7, <1>8, UsedItems, InstrMarks DEF Inside
  <2>3. Marks(Instr("LABEL", k), <<"Label", k>>)
    BY InstrMarks
  <2> QED BY <1>7, <2>1, <2>2, <2>3
<1>10. PICK w2 : w2 = Push(Emit("GOTO", n), w1)
  OBVIOUS
<1>11. Inside(c1, w2, m, l) /\ Used(c1, w2, <<"Label", k>>)
  <2>1. Inside(c1, w2, m, l)
    BY <1>9, <1>10, JumpWelcome, InsideMoves
  <2> QED BY <1>9, <1>10, <2>1, UsedItems DEF Inside
<1>12. PICK w3 : w3 = Push(Generate(Child(node, 1)), w2)
  OBVIOUS
<1>13. Inside(c1, w3, m, l) /\ Used(c1, w3, <<"Label", k>>)
  BY <1>11, <1>12, InsideMoves, UsedItems DEF Inside
<1>14. PICK c2 : c2 = Add(c1, Instr("CONDITION", c))
  OBVIOUS
<1>15. Inside(c2, w3, m, l) /\ Used(c2, w3, <<"Label", k>>)
  <2>1. Inside(c2, w3, m, l)
    BY <1>13, <1>14, PlainWelcome, InsideMoves
  <2> QED BY <1>13, <1>14, <2>1, UsedItems DEF Inside
<1>16. Inside(Add(c2, Instr("IFF", k)), w3, m, l)
  BY <1>15, JumpWelcome, InsideMoves
<1> QED BY <1>2, <1>3, <1>6, <1>8, <1>10, <1>12, <1>14, <1>16, Zenon DEF WhileStack

-----------------------------------------------------------------------------
(* The inductive invariant of the labels. *)

Shaped == /\ phase \in {"parse", "generate", "run"}
          /\ IsSeq(functions) /\ IsSeq(work) /\ IsSeq(intermediate_code)

Waiting == phase = "parse" => work = <<>> /\ intermediate_code = <<>>

Assembled == phase = "run" => work = <<>> /\ label_vector = LabelsOf(intermediate_code)

LabelInv ==
  Shaped /\ Waiting /\ Assembled /\ Sound(intermediate_code, work, num_label, func_label)

LEMMA NothingPending ==
  /\ Pending(<<>>) = {}
  /\ Text(<<>>, <<>>) = {}
  /\ \A code : Text(code, <<>>) = Written(code)
<1>1. Pending(<<>>) = {}
  BY TailsOfEmpty, Zenon DEF Pending
<1>2. Written(<<>>) = {}
  <2>1. DOMAIN <<>> = {}
    BY SeqLen, EmptyIsSeq
  <2> QED BY <2>1, Zenon DEF Written
<1>3. \A code : Text(code, <<>>) = Written(code)
  <2> TAKE code
  <2>1. {Coming(Head(v)) : v \in Pending(<<>>)} = {}
    BY <1>1
  <2> QED BY <2>1, Zenon DEF Text
<1> QED BY <1>1, <1>2, <1>3

LEMMA LabelInit == Init => LabelInv
<1> SUFFICES ASSUME Init PROVE LabelInv
  OBVIOUS
<1>1. /\ phase = "parse" /\ functions = <<>> /\ work = <<>> /\ intermediate_code = <<>>
      /\ num_label = 0
  BY DEF Init
<1>2. Shaped /\ Waiting /\ Assembled
  BY <1>1, EmptyIsSeq DEF Shaped, Waiting, Assembled
<1>3. Once(<<>>, <<>>)
  <2>1. DOMAIN <<>> = {}
    BY SeqLen, EmptyIsSeq
  <2> QED BY <2>1, NothingPending, Zenon DEF Once
<1>4. Numbered({}, 0) /\ Resolved({})
  BY DEF Numbered, Resolved
<1>5. Sound(<<>>, <<>>, 0, func_label)
  BY <1>3, <1>4, NothingPending, Zenon DEF Sound
<1> QED BY <1>1, <1>2, <1>5, Zenon DEF LabelInv

\* The functions of a program, the first on top.
LEMMA ProgramSound ==
  ASSUME IsSeq(functions), ParseDone, NEW n \in Nat, NEW l
  PROVE  IsSeq(work') /\ Sound(<<>>, work', n, l)
<1> DEFINE Item(f) == [do |-> "function", arg |-> f]
<1>1. PICK w : w = work'
  OBVIOUS
<1>2. w = [f \in 1..Len(functions) |-> Item(f)] /\ Len(functions) \in Nat
  BY <1>1, SeqLen DEF ParseDone
<1>3. w \in Seq({Item(f) : f \in 1..Len(functions)}) /\ Len(w) = Len(functions)
  BY <1>2
<1>4. IsSeq(w) /\ \A i \in 1..Len(w) : w[i] = Item(i)
  BY <1>2, <1>3 DEF IsSeq
<1>5. ASSUME NEW v \in Pending(w)
      PROVE  /\ Len(w) + 1 - Len(v) \in 1..Len(w) /\ Len(v) \in Nat
             /\ Head(v) = Item(Len(w) + 1 - Len(v))
             /\ v = Suffix(w, Len(w) + 1 - Len(v))
  <2>1. v \in Tails(w) /\ v # <<>>
    BY DEF Pending
  <2>2. PICK k : k = Len(w) + 1 - Len(v)
    OBVIOUS
  <2>3. /\ IsSeq(v) /\ v = Suffix(w, k) /\ Head(v) = w[k] /\ k \in 1..Len(w)
    BY <1>4, <2>1, <2>2, SuffixByLength
  <2>4. Head(v) = Item(k)
    BY <1>4, <2>3
  <2>5. Len(v) \in Nat
    BY <2>3, SeqLen
  <2> QED BY <2>2, <2>3, <2>4, <2>5
<1>6. ASSUME NEW v \in Pending(w)
      PROVE  /\ Coming(Head(v)) = Instr("FUN", Len(w) + 1 - Len(v))
             /\ Head(v).do # "list"
  <2>1. PICK k : k = Len(w) + 1 - Len(v)
    OBVIOUS
  <2>2. Head(v) = Item(k)
    BY <1>5, <2>1
  <2>3. Coming(Item(k)) = Instr("FUN", k) /\ Item(k).do # "list"
    BY DEF Coming
  <2> QED BY <2>1, <2>2, <2>3
<1>7. \A u, v \in Pending(w) : \A id :
        Marks(Coming(Head(u)), id) /\ Marks(Coming(Head(v)), id) => u = v
  <2> SUFFICES ASSUME NEW u \in Pending(w), NEW v \in Pending(w), NEW id,
                      Marks(Coming(Head(u)), id), Marks(Coming(Head(v)), id)
               PROVE  u = v
    OBVIOUS
  <2>1. PICK j, k : j = Len(w) + 1 - Len(u) /\ k = Len(w) + 1 - Len(v)
    OBVIOUS
  <2>2. id = <<"function", j>> /\ id = <<"function", k>>
    BY <1>6, <2>1, InstrMarks
  <2>3. u = Suffix(w, j) /\ v = Suffix(w, k)
    BY <1>5, <2>1
  <2> QED BY <2>2, <2>3
<1>8. DOMAIN <<>> = {} /\ Written(<<>>) = {}
  BY SeqLen, EmptyIsSeq, NothingPending
<1>9. Once(<<>>, w)
  BY <1>7, <1>8, Zenon DEF Once
<1>10. \A instr \in Text(<<>>, w) : instr.op = "FUN"
  <2> TAKE instr \in Text(<<>>, w)
  <2>1. PICK v \in Pending(w) : instr = Coming(Head(v))
    BY <1>8, Zenon DEF Text
  <2> QED BY <1>6, <2>1, InstrMarks
<1>11. Numbered(Text(<<>>, w), n) /\ Resolved(Text(<<>>, w))
  BY <1>10 DEF Numbered, Resolved
<1>12. ~ \E v \in Pending(w) : Head(v).do = "list"
  BY <1>6
<1> QED BY <1>1, <1>4, <1>9, <1>11, <1>12, Zenon DEF Sound

\* A step of the generator, the whole work given as its head and its tail.
LEMMA GeneratorSound ==
  ASSUME IsSeq(work), IsSeq(intermediate_code),
         Sound(intermediate_code, work, num_label, func_label),
         \/ intermediate_code_decl_func
         \/ EmitLater
         \/ EndOfList
         \/ GenerateExpression
         \/ intermediate_code_decl_return
         \/ intermediate_code_decl_if
         \/ intermediate_code_decl_while
  PROVE  /\ IsSeq(work') /\ IsSeq(intermediate_code')
         /\ Sound(intermediate_code', work', num_label', func_label')
         /\ UNCHANGED <<phase, functions>>
<1>1. work # <<>>
  BY FunctionStep, EmitStep, EmptyStep, ExpressionStep, ReturnStep, IfStep, WhileStep DEF Ready
<1>2. PICK c, n, l, x, w, b : /\ c = intermediate_code /\ n = num_label /\ l = func_label
                              /\ x = Head(work) /\ w = Tail(work) /\ b = Below
  OBVIOUS
<1>3. IsSeq(c) /\ IsSeq(w) /\ work = Push(x, w) /\ Sound(c, Push(x, w), n, l)
  <2>1. IsSeq(Tail(work)) /\ work = Push(Head(work), Tail(work))
    BY <1>1, Split, PushHeadTail
  <2> QED BY <1>2, <2>1
<1>4. CASE intermediate_code_decl_func
  <2>1. /\ x.do = "function" /\ work' = FunctionStack(functions[x.arg].tree, x.arg, n, w)
        /\ intermediate_code' = Add(c, Instr("FUN", x.arg))
        /\ func_label' = n /\ num_label' = n + 1 /\ UNCHANGED <<phase, functions>>
    BY <1>2, <1>4, FunctionStep
  <2>2. Inside(Add(c, Instr("FUN", x.arg)),
               FunctionStack(functions[x.arg].tree, x.arg, n, w), n + 1, n)
    BY <1>3, <2>1, FunctionInside
  <2> QED BY <2>1, <2>2, Zenon DEF Inside
<1>5. CASE EmitLater
  <2>1. /\ x.do = "emit" /\ work' = w /\ intermediate_code' = Add(c, x.arg)
        /\ func_label' = l /\ num_label' = n /\ UNCHANGED <<phase, functions>>
    BY <1>2, <1>5, EmitStep
  <2>2. Coming(x) = x.arg /\ x.do # "list"
    BY <2>1 DEF Coming
  <2>3. Sound(Add(c, Coming(x)), w, n, l) /\ IsSeq(Add(c, x.arg))
    BY <1>3, <2>2, EmitSound, Added
  <2> QED BY <1>3, <2>1, <2>2, <2>3
<1>6. CASE EndOfList
  <2>1. /\ x.do = "list" /\ work' = w /\ intermediate_code' = c
        /\ func_label' = l /\ num_label' = n /\ UNCHANGED <<phase, functions>>
    BY <1>2, <1>6, EmptyStep
  <2>2. Sound(c, w, n, l)
    BY <1>3, <2>1, DropSound
  <2> QED BY <1>3, <2>1, <2>2
<1>7. ASSUME x.do = "list" PROVE Inside(c, b, n, l)
  <2>1. b = Push(Generate(Tail(x.arg)), w)
    BY <1>2, Zenon DEF Below
  <2> QED BY <1>3, <1>7, <2>1, BelowInside
<1>8. PICK node, d : node = Node /\ d = Node.id
  OBVIOUS
<1>9. CASE GenerateExpression
  <2>1. /\ x.do = "list" /\ work' = b /\ intermediate_code' = Add(c, Instr("OP", d))
        /\ func_label' = l /\ num_label' = n /\ UNCHANGED <<phase, functions>>
    BY <1>2, <1>8, <1>9, ExpressionStep
  <2>2. Inside(Add(c, Instr("OP", d)), b, n, l)
    BY <1>7, <2>1, PlainWelcome, InsideMoves
  <2> QED BY <2>1, <2>2, Zenon DEF Inside
<1>10. CASE intermediate_code_decl_return
  <2>1. /\ x.do = "list" /\ work' = b
        /\ intermediate_code' = Add(Add(c, Instr("RETURN", d)), Instr("GOTO", l))
        /\ func_label' = l /\ num_label' = n /\ UNCHANGED <<phase, functions>>
    BY <1>2, <1>8, <1>10, ReturnStep
  <2>2. PICK c1 : c1 = Add(c, Instr("RETURN", d))
    OBVIOUS
  <2>3. Inside(c1, b, n, l)
    BY <1>7, <2>1, <2>2, PlainWelcome, InsideMoves
  <2>4. Used(c1, b, <<"Label", l>>)
    BY <2>3, InstrMarks, Zenon DEF Inside, Used
  <2>5. Inside(Add(c1, Instr("GOTO", l)), b, n, l)
    BY <2>3, <2>4, JumpWelcome, InsideMoves
  <2> QED BY <2>1, <2>2, <2>5, Zenon DEF Inside
<1>11. CASE intermediate_code_decl_if
  <2>1. /\ x.do = "list" /\ work' = IfStack(node, n, b)
        /\ intermediate_code' = Add(Add(c, Instr("CONDITION", d)), Instr("IFF", n))
        /\ func_label' = l /\ num_label' = n + 2 /\ UNCHANGED <<phase, functions>>
    BY <1>2, <1>8, <1>11, IfStep
  <2>2. Inside(Add(Add(c, Instr("CONDITION", d)), Instr("IFF", n)), IfStack(node, n, b), n + 2, l)
    BY <1>7, <2>1, IfInside
  <2> QED BY <2>1, <2>2, Zenon DEF Inside
<1>12. CASE intermediate_code_decl_while
  <2>1. /\ x.do = "list" /\ work' = WhileStack(node, n, b)
        /\ intermediate_code' = Add(Add(Add(c, Instr("LABEL", n)), Instr("CONDITION", d)),
                                    Instr("IFF", n + 1))
        /\ func_label' = l /\ num_label' = n + 2 /\ UNCHANGED <<phase, functions>>
    BY <1>2, <1>8, <1>12, WhileStep
  <2>2. Inside(Add(Add(Add(c, Instr("LABEL", n)), Instr("CONDITION", d)), Instr("IFF", n + 1)),
               WhileStack(node, n, b), n + 2, l)
    BY <1>7, <2>1, WhileInside
  <2> QED BY <2>1, <2>2, Zenon DEF Inside
<1> QED BY <1>4, <1>5, <1>6, <1>9, <1>10, <1>11, <1>12

LEMMA AppendParts ==
  ASSUME NEW s, IsSeq(s), NEW x
  PROVE  /\ IsSeq(Append(s, x)) /\ Len(Append(s, x)) = Len(s) + 1
         /\ \A i \in 1..Len(s) : Append(s, x)[i] = s[i]
         /\ Append(s, x)[Len(s) + 1] = x
<1>1. PICK S : s \in Seq(S)
  BY DEF IsSeq
<1>2. s \in Seq(S \cup {x}) /\ x \in S \cup {x}
  BY <1>1, SeqMonotonic
<1> QED BY <1>2, AppendProperties DEF IsSeq

LEMMA ParserSteps ==
  ASSUME \/ OpenFunction \/ CloseFunction \/ SimpleStatement \/ OpenStatement
         \/ Else \/ CloseIf \/ CloseElse \/ CloseWhile
  PROVE  /\ phase = "parse" /\ UNCHANGED <<phase, codevars, runvars>>
         /\ functions' = functions \/ \E list : functions' = Append(functions, list)
BY DEF OpenFunction, CloseFunction, SimpleStatement, OpenStatement, Else, CloseIf, CloseElse,
       CloseWhile, NewStatement, Close, Parsing

LEMMA RunSteps ==
  ASSUME Run
  PROVE  phase = "run" /\ UNCHANGED <<phase, parsevars, codevars>>
BY DEF Run, Enter, Pass, Goto, Branch, Execute, Running

LEMMA LabelStep == LabelInv /\ [Next]_vars => LabelInv'
<1> SUFFICES ASSUME LabelInv, [Next]_vars PROVE LabelInv'
  OBVIOUS
<1>0. /\ Shaped /\ Waiting /\ Assembled
      /\ Sound(intermediate_code, work, num_label, func_label)
  BY Zenon DEF LabelInv
<1>1. CASE OpenFunction \/ CloseFunction \/ SimpleStatement \/ OpenStatement
           \/ Else \/ CloseIf \/ CloseElse \/ CloseWhile
  <2>1. /\ phase = "parse" /\ UNCHANGED <<phase, codevars, runvars>>
        /\ functions' = functions \/ \E list : functions' = Append(functions, list)
    BY <1>1, ParserSteps
  <2>2. IsSeq(functions')
    <3>1. IsSeq(functions)
      BY <1>0 DEF Shaped
    <3>2. \A list : IsSeq(Append(functions, list))
      BY <3>1, AppendParts
    <3> QED BY <2>1, <3>1, <3>2
  <2>3. UNCHANGED <<phase, work, intermediate_code, num_label, func_label, label_vector>>
    BY <2>1 DEF codevars
  <2>4. Shaped' /\ Waiting' /\ Assembled'
    BY <1>0, <2>2, <2>3 DEF Shaped, Waiting, Assembled, LabelsOf
  <2> QED BY <1>0, <2>3, <2>4 DEF LabelInv
<1>2. CASE ParseDone
  <2>1. /\ phase = "parse" /\ phase' = "generate"
        /\ UNCHANGED <<functions, intermediate_code, num_label, func_label>>
    BY <1>2 DEF ParseDone, parsevars
  <2>2. intermediate_code = <<>>
    BY <1>0, <2>1 DEF Waiting
  <2>3. num_label \in Nat
    BY <1>0 DEF Sound, Numbered
  <2>4. IsSeq(work') /\ Sound(<<>>, work', num_label, func_label)
    BY <1>0, <1>2, <2>3, ProgramSound DEF Shaped
  <2>5. Shaped' /\ Waiting' /\ Assembled'
    BY <1>0, <2>1, <2>4 DEF Shaped, Waiting, Assembled
  <2>6. Sound(intermediate_code', work', num_label', func_label')
    BY <2>1, <2>2, <2>4
  <2> QED BY <2>5, <2>6 DEF LabelInv
<1>3. CASE \/ intermediate_code_decl_func \/ EmitLater \/ EndOfList \/ GenerateExpression
           \/ intermediate_code_decl_return \/ intermediate_code_decl_if
           \/ intermediate_code_decl_while
  <2>1. phase = "generate"
    BY <1>3 DEF intermediate_code_decl_func, EmitLater, EndOfList, GenerateExpression,
                intermediate_code_decl_return, intermediate_code_decl_if,
                intermediate_code_decl_while, create_intermediate_code, Generating
  <2>2. /\ IsSeq(work') /\ IsSeq(intermediate_code')
        /\ Sound(intermediate_code', work', num_label', func_label')
        /\ UNCHANGED <<phase, functions>>
    BY <1>0, <1>3, GeneratorSound DEF Shaped
  <2>3. Shaped' /\ Waiting' /\ Assembled'
    BY <1>0, <2>1, <2>2 DEF Shaped, Waiting, Assembled
  <2> QED BY <2>2, <2>3 DEF LabelInv
<1>4. CASE Assemble
  <2>1. /\ work = <<>> /\ phase' = "run" /\ label_vector' = LabelsOf(intermediate_code)
        /\ UNCHANGED <<functions, work, intermediate_code, num_label, func_label>>
    BY <1>4 DEF Assemble, parsevars
  <2>2. Assembled'
    BY <2>1 DEF Assembled, LabelsOf
  <2>3. Shaped' /\ Waiting'
    BY <1>0, <2>1 DEF Shaped, Waiting
  <2> QED BY <1>0, <2>1, <2>2, <2>3 DEF LabelInv
<1>5. CASE Run \/ UNCHANGED vars
  <2>1. UNCHANGED <<phase, functions, work, intermediate_code, num_label, func_label, label_vector>>
    BY <1>5, RunSteps DEF vars, parsevars, codevars
  <2>2. Shaped' /\ Waiting' /\ Assembled'
    BY <1>0, <2>1 DEF Shaped, Waiting, Assembled, LabelsOf
  <2> QED BY <1>0, <2>1, <2>2 DEF LabelInv
<1> QED BY <1>1, <1>2, <1>3, <1>4, <1>5 DEF Next

LEMMA JumpsResolved == LabelInv => LabelsResolved
<1> SUFFICES ASSUME LabelInv, phase = "run",
                    NEW i \in DOMAIN intermediate_code,
                    intermediate_code[i].op \in {"IFF", "GOTO"}
             PROVE  \E label \in label_vector :
                      /\ label.id = <<"Label", intermediate_code[i].arg>>
                      /\ \A other \in label_vector : other.id = label.id => other = label
  BY DEF LabelsResolved
<1>1. /\ work = <<>> /\ label_vector = LabelsOf(intermediate_code)
      /\ Once(intermediate_code, work) /\ Resolved(Text(intermediate_code, work))
  BY Zenon DEF LabelInv, Assembled, Sound
<1>2. PICK id : id = <<"Label", intermediate_code[i].arg>>
  OBVIOUS
<1>3. \E instr \in Written(intermediate_code) : Marks(instr, id)
  BY <1>1, <1>2, NothingPending, Zenon DEF Resolved, Written
<1>4. PICK j \in DOMAIN intermediate_code : Marks(intermediate_code[j], id)
  BY <1>3 DEF Written
<1>5. PICK found : found = [id |-> Label(intermediate_code[j]), address |-> j]
  OBVIOUS
<1>6. found \in label_vector /\ found.id = id
  BY <1>1, <1>4, <1>5 DEF LabelsOf, Marks
<1>7. ASSUME NEW other \in label_vector, other.id = id PROVE other = found
  <2>1. PICK k \in DOMAIN intermediate_code :
          /\ intermediate_code[k].op \in {"FUN", "LABEL"}
          /\ other = [id |-> Label(intermediate_code[k]), address |-> k]
    BY <1>1 DEF LabelsOf
  <2>2. Marks(intermediate_code[k], id)
    BY <1>7, <2>1 DEF Marks
  <2>3. j = k
    BY <1>1, <1>4, <2>2, Zenon DEF Once
  <2> QED BY <1>5, <2>1, <2>3
<1> QED BY <1>2, <1>6, <1>7

\* Every jump of a program finds the label it names, and only one, whatever the
\* functions and however deep the statements are nested: num_label is never
\* taken back, and a return uses the func_label of the function around it
\* (codeGen.c intermediate_code_decl_*, label.c get_label_address).
THEOREM JumpsHaveOneLabel == Spec => []LabelsResolved
<1>1. Spec => []LabelInv
  BY LabelInit, LabelStep, PTL DEF Spec
<1> QED BY <1>1, JumpsResolved, PTL

=============================================================================
