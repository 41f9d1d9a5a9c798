------------------------- MODULE StatementsRunProofs -------------------------
(***************************************************************************)
(* The code of Statements does what the source says, for programs of any   *)
(* size and nesting (RunsFollowSource): the trees match the source, the    *)
(* code has a place for everything the generator had to do, and a run is   *)
(* at the place of what is left of the source.  Its types (StatementsTyped)*)
(* hold for every program: the last sections count the labels it takes.    *)
(***************************************************************************)
EXTENDS StatementsProofs, WellFoundedInduction

-----------------------------------------------------------------------------
(* A tree and the source it stands for.  Trees of any depth are compared by  *)
(* a set of pairs that is closed: with a pair it has those of the children.  *)

Alike(node, statement) == node.op = statement.op /\ node.id = statement.id

Closed(pairs) ==
  \A t, s : <<t, s>> \in pairs =>
    /\ IsSeq(t) /\ IsSeq(s) /\ Len(t) = Len(s)
    /\ \A i \in 1..Len(t) : /\ Alike(t[i], s[i])
                            /\ <<Child(t[i], 1), s[i].then>> \in pairs
                            /\ <<Child(t[i], 2), s[i].otherwise>> \in pairs

Matches(t, s) == \E pairs : Closed(pairs) /\ <<t, s>> \in pairs

NodeMatches(node, statement) ==
  /\ Alike(node, statement)
  /\ Matches(Child(node, 1), statement.then)
  /\ Matches(Child(node, 2), statement.otherwise)

LEMMA MatchesParts ==
  ASSUME NEW t, NEW s, Matches(t, s)
  PROVE  /\ IsSeq(t) /\ IsSeq(s) /\ Len(t) = Len(s)
         /\ \A i \in 1..Len(t) : NodeMatches(t[i], s[i])
<1>1. PICK pairs : Closed(pairs) /\ <<t, s>> \in pairs
  BY DEF Matches
<1>2. /\ IsSeq(t) /\ IsSeq(s) /\ Len(t) = Len(s)
      /\ \A i \in 1..Len(t) : /\ Alike(t[i], s[i])
                              /\ <<Child(t[i], 1), s[i].then>> \in pairs
                              /\ <<Child(t[i], 2), s[i].otherwise>> \in pairs
  BY <1>1, Zenon DEF Closed
<1>3. ASSUME NEW i \in 1..Len(t) PROVE NodeMatches(t[i], s[i])
  BY <1>1, <1>2, Zenon DEF NodeMatches, Matches
<1> QED BY <1>2, <1>3

LEMMA MatchesWhole ==
  ASSUME NEW t, NEW s, IsSeq(t), IsSeq(s), Len(t) = Len(s),
         \A i \in 1..Len(t) : NodeMatches(t[i], s[i])
  PROVE  Matches(t, s)
<1> DEFINE below == {<<Child(t[i], 1), s[i].then>> : i \in 1..Len(t)}
                      \cup {<<Child(t[i], 2), s[i].otherwise>> : i \in 1..Len(t)}
           PairsOf(p) == CHOOSE pairs : Closed(pairs) /\ p \in pairs
           deeper == UNION {PairsOf(p) : p \in below}
           all == {<<t, s>>} \cup deeper
<1>1. ASSUME NEW p \in below PROVE Closed(PairsOf(p)) /\ p \in PairsOf(p)
  <2>1. \E pairs : Closed(pairs) /\ p \in pairs
    BY DEF NodeMatches, Matches
  <2> QED BY <2>1
<1>2. below \subseteq deeper
  BY <1>1
<1>3. ASSUME NEW i \in 1..Len(t)
      PROVE  <<Child(t[i], 1), s[i].then>> \in below /\ <<Child(t[i], 2), s[i].otherwise>> \in below
  OBVIOUS
<1>4. ASSUME NEW a, NEW b, <<a, b>> \in deeper
      PROVE  /\ IsSeq(a) /\ IsSeq(b) /\ Len(a) = Len(b)
             /\ \A i \in 1..Len(a) : /\ Alike(a[i], b[i])
                                     /\ <<Child(a[i], 1), b[i].then>> \in deeper
                                     /\ <<Child(a[i], 2), b[i].otherwise>> \in deeper
  <2>1. PICK p \in below : <<a, b>> \in PairsOf(p)
    BY <1>4
  <2>2. /\ IsSeq(a) /\ IsSeq(b) /\ Len(a) = Len(b)
        /\ \A i \in 1..Len(a) : /\ Alike(a[i], b[i])
                                /\ <<Child(a[i], 1), b[i].then>> \in PairsOf(p)
                                /\ <<Child(a[i], 2), b[i].otherwise>> \in PairsOf(p)
    <3>1. Closed(PairsOf(p))
      BY <1>1
    <3> HIDE DEF PairsOf
    <3> QED BY <2>1, <3>1, Zenon DEF Closed
  <2>3. PairsOf(p) \subseteq deeper
    OBVIOUS
  <2> HIDE DEF PairsOf, deeper, below
  <2> QED BY <2>2, <2>3
<1>5. Closed(all)
  <2> HIDE DEF deeper, below
  <2> SUFFICES ASSUME NEW a, NEW b, <<a, b>> \in all
               PROVE  /\ IsSeq(a) /\ IsSeq(b) /\ Len(a) = Len(b)
                      /\ \A i \in 1..Len(a) : /\ Alike(a[i], b[i])
                                              /\ <<Child(a[i], 1), b[i].then>> \in all
                                              /\ <<Child(a[i], 2), b[i].otherwise>> \in all
    BY Zenon DEF Closed
  <2>1. CASE <<a, b>> \in deeper
    BY <1>4, <2>1
  <2>2. CASE <<a, b>> = <<t, s>>
    <3>1. a = t /\ b = s
      BY <2>2
    <3> QED BY <1>2, <1>3, <3>1 DEF NodeMatches
  <2> QED BY <2>1, <2>2
<1>6. <<t, s>> \in all
  OBVIOUS
<1> QED BY <1>5, <1>6, Zenon DEF Matches

LEMMA MatchesEmpty ==
  /\ Matches(<<>>, <<>>)
  /\ \A t, s : Matches(t, s) => (t = <<>> <=> s = <<>>)
<1>1. Matches(<<>>, <<>>)
  <2>1. IsSeq(<<>>) /\ Len(<<>>) = 0
    BY EmptyIsSeq
  <2>2. \A i \in 1..Len(<<>>) : NodeMatches(<<>>[i], <<>>[i])
    BY <2>1
  <2> QED BY <2>1, <2>2, MatchesWhole
<1>2. ASSUME NEW t, NEW s, Matches(t, s) PROVE t = <<>> <=> s = <<>>
  <2>1. IsSeq(t) /\ IsSeq(s) /\ Len(t) = Len(s)
    BY <1>2, MatchesParts
  <2> QED BY <2>1, SeqLen
<1> QED BY <1>1, <1>2

LEMMA MatchesTail ==
  ASSUME NEW t, NEW s, Matches(t, s), t # <<>>
  PROVE  s # <<>> /\ NodeMatches(Head(t), Head(s)) /\ Matches(Tail(t), Tail(s))
<1>1. /\ IsSeq(t) /\ IsSeq(s) /\ Len(t) = Len(s)
      /\ \A i \in 1..Len(t) : NodeMatches(t[i], s[i])
  BY MatchesParts
<1>2. s # <<>> /\ Len(t) \in Nat /\ Len(t) > 0
  BY <1>1, SeqLen
<1>3. /\ IsSeq(Tail(t)) /\ Len(Tail(t)) = Len(t) - 1 /\ Head(t) = t[1]
      /\ \A i \in 1..Len(t) - 1 : Tail(t)[i] = t[i + 1]
  BY <1>1, Split
<1>4. /\ IsSeq(Tail(s)) /\ Len(Tail(s)) = Len(s) - 1 /\ Head(s) = s[1]
      /\ \A i \in 1..Len(s) - 1 : Tail(s)[i] = s[i + 1]
  BY <1>1, <1>2, Split
<1>5. NodeMatches(t[1], s[1])
  BY <1>1, <1>2
<1>6. ASSUME NEW i \in 1..Len(Tail(t)) PROVE NodeMatches(Tail(t)[i], Tail(s)[i])
  <2>1. i \in 1..Len(t) - 1 /\ i \in 1..Len(s) - 1 /\ i + 1 \in 1..Len(t)
    BY <1>1, <1>2, <1>3
  <2>2. NodeMatches(t[i + 1], s[i + 1])
    BY <1>1, <2>1
  <2> QED BY <1>3, <1>4, <2>1, <2>2
<1>7. Matches(Tail(t), Tail(s))
  <2>1. Len(Tail(t)) = Len(Tail(s))
    BY <1>1, <1>3, <1>4
  <2> QED BY <1>3, <1>4, <1>6, <2>1, MatchesWhole
<1> QED BY <1>2, <1>3, <1>4, <1>5, <1>7

LEMMA MatchesAppend ==
  ASSUME NEW t, NEW s, Matches(t, s), NEW node, NEW statement, NodeMatches(node, statement)
  PROVE  Matches(Append(t, node), Append(s, statement))
<1>1. /\ IsSeq(t) /\ IsSeq(s) /\ Len(t) = Len(s) /\ Len(t) \in Nat
      /\ \A i \in 1..Len(t) : NodeMatches(t[i], s[i])
  BY MatchesParts, SeqLen
<1>2. ASSUME NEW any, IsSeq(any), NEW x
      PROVE  /\ IsSeq(Append(any, x)) /\ Len(Append(any, x)) = Len(any) + 1
             /\ \A i \in 1..Len(any) : Append(any, x)[i] = any[i]
             /\ Append(any, x)[Len(any) + 1] = x
  BY <1>2, AppendParts
<1>3. PICK a, b : a = Append(t, node) /\ b = Append(s, statement)
  OBVIOUS
<1>4. /\ IsSeq(a) /\ Len(a) = Len(t) + 1 /\ a[Len(t) + 1] = node
      /\ \A i \in 1..Len(t) : a[i] = t[i]
  BY <1>1, <1>2, <1>3
<1>5. /\ IsSeq(b) /\ Len(b) = Len(s) + 1 /\ b[Len(s) + 1] = statement
      /\ \A i \in 1..Len(s) : b[i] = s[i]
  BY <1>1, <1>2, <1>3
<1>6. ASSUME NEW i \in 1..Len(a) PROVE NodeMatches(a[i], b[i])
  <2>1. CASE i = Len(t) + 1
    BY <1>1, <1>4, <1>5, <2>1
  <2>2. CASE i # Len(t) + 1
    <3>1. i \in 1..Len(t) /\ i \in 1..Len(s)
      BY <1>1, <1>4, <2>2
    <3> QED BY <1>1, <1>4, <1>5, <3>1
  <2> QED BY <2>1, <2>2
<1>7. Len(a) = Len(b)
  BY <1>1, <1>4, <1>5
<1>8. Matches(a, b)
  BY <1>4, <1>5, <1>6, <1>7, MatchesWhole
<1> QED BY <1>3, <1>8

-----------------------------------------------------------------------------
(* The parser builds trees that match what was written. *)

ListMatches(list) ==
  list = [tree |-> list.tree, source |-> list.source] /\ Matches(list.tree, list.source)

FrameMatches(frame) ==
  /\ frame = [kind |-> frame.kind, id |-> frame.id, first |-> frame.first, list |-> frame.list]
  /\ ListMatches(frame.list)
  /\ frame.kind = "else" => ListMatches(frame.first) /\ frame.first.tree # <<>>

ParserInv ==
  /\ IsSeq(functions) /\ \A f \in DOMAIN functions : ListMatches(functions[f])
  /\ IsSeq(open) /\ \A k \in DOMAIN open : FrameMatches(open[k])

LEMMA NothingMatches == ListMatches(Nothing) /\ Nothing.tree = <<>> /\ Nothing.source = <<>>
BY MatchesEmpty DEF Nothing, ListMatches

LEMMA AppendToEmpty == ASSUME NEW x PROVE Append(<<>>, x) = One(x)
<1>1. Append(<<>>, x) \in Seq({x}) /\ Len(Append(<<>>, x)) = 1 /\ Append(<<>>, x)[1] = x
  BY EmptySeq, AppendProperties
<1> QED BY <1>1, OneItem, SameSeq DEF IsSeq

LEMMA LeafMatches ==
  ASSUME NEW op, NEW id
  PROVE  NodeMatches(Leaf(op, id).tree, Leaf(op, id).source)
<1>1. PICK node, statement : node = Leaf(op, id).tree /\ statement = Leaf(op, id).source
  OBVIOUS
<1>2. /\ node.op = op /\ node.id = id /\ node.children = <<>>
      /\ statement.op = op /\ statement.id = id
      /\ statement.then = <<>> /\ statement.otherwise = <<>>
  BY <1>1 DEF Leaf
<1>3. Child(node, 1) = <<>> /\ Child(node, 2) = <<>>
  BY <1>2, EmptyIsSeq DEF Child
<1>4. NodeMatches(node, statement)
  BY <1>2, <1>3, MatchesEmpty DEF NodeMatches, Alike
<1> QED BY <1>1, <1>4

\* An if or a while: the second list is empty unless the first is not.
LEMMA CompoundMatches ==
  ASSUME NEW op, NEW id, NEW first, NEW second, ListMatches(first), ListMatches(second),
         first.tree # <<>> \/ second.tree = <<>>
  PROVE  NodeMatches(Compound(op, id, first, second).tree,
                     Compound(op, id, first, second).source)
<1>1. PICK node, statement : /\ node = Compound(op, id, first, second).tree
                             /\ statement = Compound(op, id, first, second).source
  OBVIOUS
<1>2. /\ node.op = op /\ node.id = id
      /\ node.children = add_child(add_child(<<>>, first.tree), second.tree)
      /\ statement.op = op /\ statement.id = id
      /\ statement.then = first.source /\ statement.otherwise = second.source
  BY <1>1 DEF Compound
<1>3. Append(<<>>, first.tree) = One(first.tree)
      /\ Append(One(first.tree), second.tree) = Two(first.tree, second.tree)
  <2>1. PICK x, y : x = first.tree /\ y = second.tree
    OBVIOUS
  <2>2. Append(<<>>, x) = One(x)
    BY AppendToEmpty
  <2>3. Append(One(x), y) = Two(x, y)
    <3>1. PICK o : o = One(x)
      OBVIOUS
    <3>2. IsSeq(o) /\ Len(o) = 1 /\ o[1] = x
      BY <3>1, OneItem
    <3>3. /\ IsSeq(Append(o, y)) /\ Len(Append(o, y)) = 2
          /\ Append(o, y)[1] = x /\ Append(o, y)[2] = y
      <4>1. IsSeq(o)
        BY <3>2
      <4>2. /\ IsSeq(Append(o, y)) /\ Len(Append(o, y)) = Len(o) + 1
            /\ \A i \in 1..Len(o) : Append(o, y)[i] = o[i]
            /\ Append(o, y)[Len(o) + 1] = y
        BY <4>1, AppendParts
      <4> QED BY <3>2, <4>2
    <3>4. /\ Two(x, y) \in Seq({x, y}) /\ Len(Two(x, y)) = 2
          /\ Two(x, y)[1] = x /\ Two(x, y)[2] = y
      BY DEF Two
    <3> QED BY <3>1, <3>3, <3>4, SameSeq DEF IsSeq
  <2> QED BY <2>1, <2>2, <2>3
<1>4. Child(node, 1) = first.tree /\ Child(node, 2) = second.tree
  <2>1. CASE first.tree = <<>>
    <3>1. node.children = <<>>
      BY <1>2, <2>1 DEF add_child
    <3> QED BY <2>1, <3>1, EmptyIsSeq DEF Child
  <2>2. CASE first.tree # <<>> /\ second.tree = <<>>
    <3>1. node.children = One(first.tree)
      BY <1>2, <1>3, <2>2 DEF add_child
    <3>2. Len(node.children) = 1 /\ node.children[1] = first.tree
      BY <3>1, OneItem
    <3> QED BY <2>2, <3>2 DEF Child
  <2>3. CASE first.tree # <<>> /\ second.tree # <<>>
    <3>1. node.children = Two(first.tree, second.tree)
      BY <1>2, <1>3, <2>3 DEF add_child
    <3>2. /\ Len(node.children) = 2 /\ node.children[1] = first.tree
          /\ node.children[2] = second.tree
      BY <3>1 DEF Two
    <3> QED BY <3>2 DEF Child
  <2> QED BY <2>1, <2>2, <2>3
<1>5. NodeMatches(node, statement)
  BY <1>2, <1>4 DEF NodeMatches, Alike, ListMatches
<1> QED BY <1>1, <1>5

LEMMA SiblingMatches ==
  ASSUME NEW list, ListMatches(list), NEW node, NodeMatches(node.tree, node.source)
  PROVE  ListMatches(add_sibling(list, node))
<1>1. PICK new : new = add_sibling(list, node)
  OBVIOUS
<1>2. /\ new.tree = Append(list.tree, node.tree)
      /\ new.source = Append(list.source, node.source)
      /\ new = [tree |-> new.tree, source |-> new.source]
  BY <1>1 DEF add_sibling
<1>3. ListMatches(new)
  BY <1>2, MatchesAppend DEF ListMatches
<1> QED BY <1>1, <1>3

LEMMA AddToMatches ==
  ASSUME NEW frames, IsSeq(frames), \A k \in DOMAIN frames : FrameMatches(frames[k]),
         NEW node, NodeMatches(node.tree, node.source)
  PROVE  IsSeq(AddTo(frames, node))
         /\ \A k \in DOMAIN AddTo(frames, node) : FrameMatches(AddTo(frames, node)[k])
<1>1. PICK n : n = Len(frames)
  OBVIOUS
<1>2. PICK last : last = [frames[n] EXCEPT !.list = add_sibling(@, node)]
  OBVIOUS
<1>3. PICK new : new = AddTo(frames, node)
  OBVIOUS
<1>4. new = [frames EXCEPT ![n] = last]
  BY <1>1, <1>2, <1>3 DEF AddTo
<1>5. n \in Nat /\ DOMAIN frames = 1..n
  BY <1>1, SeqLen
<1>6. PICK S : frames \in Seq(S)
  BY DEF IsSeq
<1>7. new \in Seq(S \cup {last}) /\ DOMAIN new = 1..n
  <2>1. \A k \in 1..n : frames[k] \in S
    BY <1>5, <1>6
  <2>2. new \in [1..n -> S \cup {last}]
    BY <1>4, <1>5, <1>6, <2>1
  <2> QED BY <1>5, <2>2
<1>8. ASSUME n \in DOMAIN frames PROVE FrameMatches(last)
  <2>1. FrameMatches(frames[n])
    BY <1>8
  <2>2. PICK fr : fr = frames[n]
    OBVIOUS
  <2>3. fr = [kind |-> fr.kind, id |-> fr.id, first |-> fr.first, list |-> fr.list]
    BY <2>1, <2>2 DEF FrameMatches
  <2>4. last = [kind |-> fr.kind, id |-> fr.id, first |-> fr.first,
                list |-> add_sibling(fr.list, node)]
    BY <1>2, <2>2, <2>3
  <2>5. ListMatches(add_sibling(fr.list, node))
    BY <2>1, <2>2, SiblingMatches DEF FrameMatches
  <2> QED BY <2>1, <2>2, <2>4, <2>5 DEF FrameMatches
<1>9. ASSUME NEW k \in DOMAIN new PROVE FrameMatches(new[k])
  <2>1. CASE k = n
    <3>1. new[k] = last /\ n \in DOMAIN frames
      BY <1>4, <1>5, <1>7, <2>1
    <3> QED BY <1>8, <3>1
  <2>2. CASE k # n
    <3>1. new[k] = frames[k] /\ k \in DOMAIN frames
      BY <1>4, <1>5, <1>7, <2>2
    <3> QED BY <3>1
  <2> QED BY <2>1, <2>2
<1> QED BY <1>3, <1>7, <1>9 DEF IsSeq

LEMMA OuterFrames ==
  ASSUME ParserInv, open # <<>>
  PROVE  /\ IsSeq(Outer) /\ \A k \in DOMAIN Outer : FrameMatches(Outer[k])
         /\ FrameMatches(Inner)
<1>1. PICK s : s = open
  OBVIOUS
<1>2. /\ IsSeq(s) /\ s # <<>> /\ \A k \in DOMAIN s : FrameMatches(s[k])
  BY <1>1 DEF ParserInv
<1>3. PICK n : n = Len(s)
  OBVIOUS
<1>4. n \in Nat /\ n > 0 /\ DOMAIN s = 1..n
  BY <1>2, <1>3, SeqLen
<1>5. PICK S : s \in Seq(S)
  BY <1>2 DEF IsSeq
<1>6. Inner = s[n] /\ Outer = SubSeq(s, 1, n - 1)
  BY <1>1, <1>3 DEF Inner, Outer, Front
<1>7. PICK front : front = SubSeq(s, 1, n - 1)
  OBVIOUS
<1>8. front \in Seq(S) /\ DOMAIN front = 1..n - 1 /\ \A k \in 1..n - 1 : front[k] = s[k]
  BY <1>3, <1>4, <1>5, <1>7
<1>9. \A k \in DOMAIN front : FrameMatches(front[k])
  BY <1>2, <1>4, <1>8
<1>10. FrameMatches(s[n])
  BY <1>2, <1>4
<1> QED BY <1>6, <1>7, <1>8, <1>9, <1>10 DEF IsSeq

LEMMA MoreFrames ==
  ASSUME NEW frames, IsSeq(frames), \A k \in DOMAIN frames : FrameMatches(frames[k]),
         NEW frame, FrameMatches(frame)
  PROVE  IsSeq(Append(frames, frame))
         /\ \A k \in DOMAIN Append(frames, frame) : FrameMatches(Append(frames, frame)[k])
<1>1. PICK new : new = Append(frames, frame)
  OBVIOUS
<1>2. PICK n : n = Len(frames)
  OBVIOUS
<1>3. /\ IsSeq(new) /\ Len(new) = n + 1 /\ new[n + 1] = frame
      /\ \A i \in 1..n : new[i] = frames[i]
  BY <1>1, <1>2, AppendParts
<1>4. n \in Nat /\ DOMAIN frames = 1..n /\ DOMAIN new = 1..n + 1
  BY <1>2, <1>3, SeqLen
<1>5. ASSUME NEW k \in DOMAIN new PROVE FrameMatches(new[k])
  <2>1. CASE k = n + 1
    BY <1>3, <2>1
  <2>2. CASE k # n + 1
    <3>1. k \in 1..n
      BY <1>4, <2>2
    <3> QED BY <1>3, <1>4, <3>1
  <2> QED BY <2>1, <2>2
<1> QED BY <1>1, <1>3, <1>5

LEMMA NewFrame ==
  ASSUME NEW kind, NEW id, NEW first,
         kind = "else" => ListMatches(first) /\ first.tree # <<>>
  PROVE  FrameMatches(Frame(kind, id, first))
<1>1. PICK fr : fr = Frame(kind, id, first)
  OBVIOUS
<1>2. fr = [kind |-> kind, id |-> id, first |-> first, list |-> Nothing]
  BY <1>1 DEF Frame
<1>3. fr.kind = kind /\ fr.id = id /\ fr.first = first /\ fr.list = Nothing
  BY <1>2
<1>4. FrameMatches(fr)
  BY <1>2, <1>3, NothingMatches DEF FrameMatches
<1> QED BY <1>1, <1>4

LEMMA ParserInit == Init => ParserInv
<1> SUFFICES ASSUME Init PROVE ParserInv
  OBVIOUS
<1>1. functions = <<>> /\ open = <<>>
  BY DEF Init
<1>2. IsSeq(<<>>) /\ DOMAIN <<>> = {}
  BY EmptyIsSeq, SeqLen
<1> QED BY <1>1, <1>2 DEF ParserInv

LEMMA ParserStep ==
  ASSUME ~ EmptyThen, ParserInv, [Next]_vars
  PROVE  ParserInv'
<1> DEFINE Good(frames) == IsSeq(frames) /\ \A k \in DOMAIN frames : FrameMatches(frames[k])
<1>1. IsSeq(functions) /\ (\A f \in DOMAIN functions : ListMatches(functions[f])) /\ Good(open)
  BY DEF ParserInv
<1>2. ASSUME UNCHANGED functions, Good(open') PROVE ParserInv'
  BY <1>1, <1>2 DEF ParserInv
<1>3. ASSUME open # <<>> PROVE Good(Outer) /\ FrameMatches(Inner) /\ ListMatches(Inner.list)
  BY <1>3, OuterFrames DEF FrameMatches
<1>4. Good(<<>>)
  BY EmptyIsSeq, SeqLen
<1>5. \A frames, frame : Good(frames) /\ FrameMatches(frame) => Good(Append(frames, frame))
  BY MoreFrames
<1>6. \A frames, node : Good(frames) /\ NodeMatches(node.tree, node.source)
                          => Good(AddTo(frames, node))
  BY AddToMatches
<1>7. CASE OpenFunction
  <2>1. FrameMatches(Frame("function", 0, Nothing))
    BY NewFrame
  <2>2. Good(Append(<<>>, Frame("function", 0, Nothing)))
    BY <1>4, <1>5, <2>1
  <2>3. Append(<<>>, Frame("function", 0, Nothing)) = <<Frame("function", 0, Nothing)>>
    BY AppendToEmpty DEF One
  <2>4. open' = <<Frame("function", 0, Nothing)>> /\ UNCHANGED functions
    BY <1>7 DEF OpenFunction
  <2> HIDE DEF Good
  <2> QED BY <1>2, <2>2, <2>3, <2>4
<1>8. CASE CloseFunction
  <2>1. open # <<>> /\ open' = <<>> /\ functions' = Append(functions, Inner.list)
    BY <1>8 DEF CloseFunction
  <2>2. PICK list, fs, new : list = Inner.list /\ fs = functions /\ new = functions'
    OBVIOUS
  <2>3. new = Append(fs, list) /\ IsSeq(fs) /\ ListMatches(list)
        /\ \A f \in DOMAIN fs : ListMatches(fs[f])
    BY <1>1, <1>3, <2>1, <2>2
  <2>4. /\ IsSeq(new) /\ Len(new) = Len(fs) + 1 /\ new[Len(fs) + 1] = list
        /\ \A i \in 1..Len(fs) : new[i] = fs[i]
    BY <2>3, AppendParts
  <2>5. Len(fs) \in Nat /\ DOMAIN fs = 1..Len(fs) /\ DOMAIN new = 1..Len(new)
    BY <2>3, <2>4, SeqLen
  <2>6. ASSUME NEW f \in DOMAIN new PROVE ListMatches(new[f])
    <3>1. CASE f = Len(fs) + 1
      BY <2>3, <2>4, <3>1
    <3>2. CASE f # Len(fs) + 1
      <4>1. f \in 1..Len(fs)
        BY <2>4, <2>5, <3>2
      <4> QED BY <2>3, <2>4, <2>5, <4>1
    <3> QED BY <3>1, <3>2
  <2> QED BY <1>4, <2>1, <2>2, <2>4, <2>6 DEF ParserInv
<1>9. CASE SimpleStatement
  <2>1. PICK op \in {"OP", "RETURN"} : open' = AddTo(open, Leaf(op, statements'))
    BY <1>9 DEF SimpleStatement
  <2>2. UNCHANGED functions
    BY <1>9 DEF SimpleStatement, NewStatement
  <2>3. PICK node : node = Leaf(op, statements')
    OBVIOUS
  <2>4. NodeMatches(node.tree, node.source)
    BY <2>3, LeafMatches
  <2> HIDE DEF Good
  <2> QED BY <1>1, <1>2, <1>6, <2>1, <2>2, <2>3, <2>4
<1>10. CASE OpenStatement
  <2>1. PICK kind \in {"then", "while"} : open' = Append(open, Frame(kind, statements', Nothing))
    BY <1>10 DEF OpenStatement
  <2>2. UNCHANGED functions
    BY <1>10 DEF OpenStatement, NewStatement
  <2>3. PICK frame : frame = Frame(kind, statements', Nothing)
    OBVIOUS
  <2>4. FrameMatches(frame)
    BY <2>3, NewFrame
  <2> HIDE DEF Good
  <2> QED BY <1>1, <1>2, <1>5, <2>1, <2>2, <2>3, <2>4
<1>11. CASE Else
  <2>1. /\ open # <<>> /\ UNCHANGED functions /\ Inner.list # Nothing
        /\ open' = Append(Outer, Frame("else", Inner.id, Inner.list))
    BY <1>11 DEF Else, Close
  <2>2. PICK list, frame : list = Inner.list /\ frame = Frame("else", Inner.id, Inner.list)
    OBVIOUS
  <2>3. ListMatches(list) /\ list # Nothing
    BY <1>3, <2>1, <2>2
  <2>4. list.tree # <<>>
    BY <2>3, MatchesEmpty DEF ListMatches, Nothing
  <2>5. FrameMatches(frame)
    BY <2>2, <2>3, <2>4, NewFrame
  <2> HIDE DEF Good
  <2> QED BY <1>2, <1>3, <1>5, <2>1, <2>2, <2>5
<1>12. CASE CloseIf
  <2>1. /\ open # <<>> /\ UNCHANGED functions
        /\ open' = AddTo(Outer, Compound("IF", Inner.id, Inner.list, Nothing))
    BY <1>12 DEF CloseIf, Close
  <2>2. PICK node : node = Compound("IF", Inner.id, Inner.list, Nothing)
    OBVIOUS
  <2>3. NodeMatches(node.tree, node.source)
    BY <1>3, <2>1, <2>2, NothingMatches, CompoundMatches
  <2> HIDE DEF Good
  <2> QED BY <1>2, <1>3, <1>6, <2>1, <2>2, <2>3
<1>13. CASE CloseElse
  <2>1. /\ open # <<>> /\ UNCHANGED functions /\ Inner.kind = "else"
        /\ open' = AddTo(Outer, Compound("IF", Inner.id, Inner.first, Inner.list))
    BY <1>13 DEF CloseElse, Close
  <2>2. ListMatches(Inner.first) /\ Inner.first.tree # <<>>
    BY <1>3, <2>1 DEF FrameMatches
  <2>3. PICK node : node = Compound("IF", Inner.id, Inner.first, Inner.list)
    OBVIOUS
  <2>4. NodeMatches(node.tree, node.source)
    BY <1>3, <2>1, <2>2, <2>3, CompoundMatches
  <2> HIDE DEF Good
  <2> QED BY <1>2, <1>3, <1>6, <2>1, <2>3, <2>4
<1>14. CASE CloseWhile
  <2>1. /\ open # <<>> /\ UNCHANGED functions
        /\ open' = AddTo(Outer, Compound("WHILE", Inner.id, Inner.list, Nothing))
    BY <1>14 DEF CloseWhile, Close
  <2>2. PICK node : node = Compound("WHILE", Inner.id, Inner.list, Nothing)
    OBVIOUS
  <2>3. NodeMatches(node.tree, node.source)
    BY <1>3, <2>1, <2>2, NothingMatches, CompoundMatches
  <2> HIDE DEF Good
  <2> QED BY <1>2, <1>3, <1>6, <2>1, <2>2, <2>3
<1>15. CASE \/ ParseDone \/ Assemble \/ Run \/ UNCHANGED vars
            \/ intermediate_code_decl_func \/ EmitLater \/ EndOfList \/ GenerateExpression
            \/ intermediate_code_decl_return \/ intermediate_code_decl_if
            \/ intermediate_code_decl_while
  <2>1. UNCHANGED <<open, functions>>
    <3>1. CASE ParseDone \/ Assemble \/ UNCHANGED vars
      BY <3>1 DEF ParseDone, Assemble, vars, parsevars
    <3>2. CASE Run
      BY <3>2, RunSteps DEF parsevars
    <3>3. CASE \/ intermediate_code_decl_func \/ EmitLater \/ EndOfList \/ GenerateExpression
               \/ intermediate_code_decl_return \/ intermediate_code_decl_if
               \/ intermediate_code_decl_while
      BY <3>3 DEF intermediate_code_decl_func, EmitLater, EndOfList, GenerateExpression,
                  intermediate_code_decl_return, intermediate_code_decl_if,
                  intermediate_code_decl_while, create_intermediate_code, Generating, parsevars
    <3> QED BY <1>15, <3>1, <3>2, <3>3
  <2> QED BY <1>1, <1>2, <2>1
<1> QED BY <1>7, <1>8, <1>9, <1>10, <1>11, <1>12, <1>13, <1>14, <1>15 DEF Next

-----------------------------------------------------------------------------
(* The stack of work: a list is inside its function, whose last label is     *)
(* further down, and functions are at the bottom.                            *)

EndOfFunction(w, l) ==
  \E f, T : IsSeq(T) /\ w = Push(Emit("LABEL", l), Push(Emit("END", f), T))

Orderly(w, l) ==
  \A v \in Pending(w) :
    /\ Head(v).do = "list" => \E u \in Tails(Tail(v)) : EndOfFunction(u, l)
    /\ Head(v).do = "function" => \A u \in Pending(Tail(v)) : Head(u).do = "function"

InFunction(w, l) ==
  IsSeq(w) /\ Orderly(w, l) /\ \E u \in Tails(w) : EndOfFunction(u, l)

LEMMA OrderlyPop ==
  ASSUME NEW x, NEW w, IsSeq(w), NEW l, Orderly(Push(x, w), l)
  PROVE  /\ Orderly(w, l)
         /\ x.do = "list" => InFunction(w, l)
         /\ x.do = "function" => \A any : Orderly(w, any)
<1>1. PICK p : p = Push(x, w)
  OBVIOUS
<1>2. /\ Pending(p) = {p} \cup Pending(w) /\ Head(p) = x /\ Tail(p) = w
  BY <1>1, PendingOfPush, Pushed
<1>3. Orderly(w, l)
  BY <1>1, <1>2, Zenon DEF Orderly
<1>4. /\ x.do = "list" => \E u \in Tails(w) : EndOfFunction(u, l)
      /\ x.do = "function" => \A u \in Pending(w) : Head(u).do = "function"
  BY <1>1, <1>2, Zenon DEF Orderly
<1>5. ASSUME x.do = "function", NEW any PROVE Orderly(w, any)
  <2>1. \A v \in Pending(w) : Head(v).do = "function"
    BY <1>4, <1>5
  <2>2. "function" # "list"
    OBVIOUS
  <2> QED BY <1>3, <2>1, <2>2, Zenon DEF Orderly
<1> QED BY <1>3, <1>4, <1>5, Zenon DEF InFunction

LEMMA OrderlyEmit ==
  ASSUME NEW w, IsSeq(w), NEW l, Orderly(w, l), NEW op, NEW k
  PROVE  Orderly(Push(Emit(op, k), w), l)
<1>1. PICK p : p = Push(Emit(op, k), w)
  OBVIOUS
<1>2. Pending(p) = {p} \cup Pending(w) /\ Head(p) = Emit(op, k)
  BY <1>1, PendingOfPush
<1>3. Head(p).do # "list" /\ Head(p).do # "function"
  BY <1>2 DEF Emit
<1>4. Orderly(p, l)
  BY <1>2, <1>3, Zenon DEF Orderly
<1> QED BY <1>1, <1>4

LEMMA InFunctionMoves ==
  ASSUME NEW w, NEW l, InFunction(w, l)
  PROVE  /\ \A list : InFunction(Push(Generate(list), w), l)
         /\ \A op, k : InFunction(Push(Emit(op, k), w), l)
<1>1. IsSeq(w) /\ Orderly(w, l) /\ \E u \in Tails(w) : EndOfFunction(u, l)
  BY DEF InFunction
<1>2. \A x : IsSeq(Push(x, w)) /\ Tails(Push(x, w)) = {Push(x, w)} \cup Tails(w)
  BY <1>1, Pushed, TailsOfPush
<1>3. \A x : \E u \in Tails(Push(x, w)) : EndOfFunction(u, l)
  BY <1>1, <1>2
<1>4. ASSUME NEW list PROVE Orderly(Push(Generate(list), w), l)
  <2>1. PICK p : p = Push(Generate(list), w)
    OBVIOUS
  <2>2. Pending(p) = {p} \cup Pending(w) /\ Head(p) = Generate(list) /\ Tail(p) = w
    BY <1>1, <2>1, PendingOfPush, Pushed
  <2>3. Head(p).do # "function"
    BY <2>2 DEF Generate
  <2>4. Orderly(p, l)
    BY <1>1, <2>2, <2>3, Zenon DEF Orderly
  <2> QED BY <2>1, <2>4
<1> QED BY <1>1, <1>2, <1>3, <1>4, OrderlyEmit, Zenon DEF InFunction

LEMMA StacksInFunction ==
  ASSUME NEW w, NEW l, InFunction(w, l), NEW node, NEW n
  PROVE  InFunction(IfStack(node, n, w), l) /\ InFunction(WhileStack(node, n, w), l)
<1>1. InFunction(ElseStack(node, n, w), l)
  <2>1. InFunction(Push(Emit("LABEL", n), w), l)
    BY InFunctionMoves
  <2>2. PICK w1 : w1 = Push(Emit("LABEL", n + 1), w)
    OBVIOUS
  <2>3. PICK w2 : w2 = Push(Generate(Child(node, 2)), w1)
    OBVIOUS
  <2>4. PICK w3 : w3 = Push(Emit("LABEL", n), w2)
    OBVIOUS
  <2>5. InFunction(w1, l)
    BY <2>2, InFunctionMoves
  <2>6. InFunction(w2, l)
    BY <2>3, <2>5, InFunctionMoves
  <2>7. InFunction(w3, l)
    BY <2>4, <2>6, InFunctionMoves
  <2>8. InFunction(Push(Emit("GOTO", n + 1), w3), l)
    BY <2>7, InFunctionMoves
  <2> QED BY <2>1, <2>2, <2>3, <2>4, <2>8, Zenon DEF ElseStack
<1>2. InFunction(IfStack(node, n, w), l)
  BY <1>1, InFunctionMoves, Zenon DEF IfStack
<1>3. PICK w1 : w1 = Push(Emit("LABEL", n + 1), w)
  OBVIOUS
<1>4. PICK w2 : w2 = Push(Emit("GOTO", n), w1)
  OBVIOUS
<1>5. InFunction(w1, l)
  BY <1>3, InFunctionMoves
<1>6. InFunction(w2, l)
  BY <1>4, <1>5, InFunctionMoves
<1>7. InFunction(WhileStack(node, n, w), l)
  BY <1>3, <1>4, <1>6, InFunctionMoves, Zenon DEF WhileStack
<1> QED BY <1>2, <1>7

LEMMA FunctionInFunction ==
  ASSUME NEW w, IsSeq(w), NEW n, Orderly(w, n), NEW tree, NEW f
  PROVE  InFunction(FunctionStack(tree, f, n, w), n)
<1>1. PICK w1 : w1 = Push(Emit("END", f), w)
  OBVIOUS
<1>2. PICK w2 : w2 = Push(Emit("LABEL", n), w1)
  OBVIOUS
<1>3. IsSeq(w1) /\ Orderly(w1, n)
  BY <1>1, OrderlyEmit, Pushed
<1>4. IsSeq(w2) /\ Orderly(w2, n)
  BY <1>2, <1>3, OrderlyEmit, Pushed
<1>5. EndOfFunction(w2, n)
  BY <1>1, <1>2, Zenon DEF EndOfFunction
<1>6. InFunction(w2, n)
  BY <1>4, <1>5, WholeIsSuffix, Zenon DEF InFunction
<1> QED BY <1>1, <1>2, <1>6, InFunctionMoves, Zenon DEF FunctionStack

\* A step of the generator leaves the stack in order.
LEMMA OrderlyStep ==
  ASSUME IsSeq(work), IsSeq(intermediate_code), Orderly(work, func_label),
         \/ intermediate_code_decl_func
         \/ EmitLater
         \/ EndOfList
         \/ GenerateExpression
         \/ intermediate_code_decl_return
         \/ intermediate_code_decl_if
         \/ intermediate_code_decl_while
  PROVE  Orderly(work', func_label')
<1>1. work # <<>>
  BY FunctionStep, EmitStep, EmptyStep, ExpressionStep, ReturnStep, IfStep, WhileStep DEF Ready
<1>2. PICK l, x, w, b, n : /\ l = func_label /\ n = num_label
                           /\ x = Head(work) /\ w = Tail(work) /\ b = Below
  OBVIOUS
<1>3. IsSeq(w) /\ work = Push(x, w) /\ Orderly(Push(x, w), l)
  <2>1. IsSeq(Tail(work)) /\ work = Push(Head(work), Tail(work))
    BY <1>1, Split, PushHeadTail
  <2> QED BY <1>2, <2>1
<1>4. CASE intermediate_code_decl_func
  <2>1. /\ x.do = "function" /\ func_label' = n
        /\ work' = FunctionStack(functions[x.arg].tree, x.arg, n, w)
    BY <1>2, <1>4, FunctionStep
  <2>2. Orderly(w, n)
    BY <1>3, <2>1, OrderlyPop
  <2>3. InFunction(FunctionStack(functions[x.arg].tree, x.arg, n, w), n)
    BY <1>3, <2>2, FunctionInFunction
  <2> QED BY <2>1, <2>3, Zenon DEF InFunction
<1>5. CASE EmitLater \/ EndOfList
  <2>1. work' = w /\ func_label' = l
    BY <1>2, <1>5, EmitStep, EmptyStep
  <2> QED BY <1>3, <2>1, OrderlyPop
<1>6. ASSUME x.do = "list" PROVE InFunction(b, l)
  <2>1. InFunction(w, l)
    BY <1>3, <1>6, OrderlyPop
  <2>2. b = Push(Generate(Tail(x.arg)), w)
    BY <1>2, Zenon DEF Below
  <2> QED BY <2>1, <2>2, InFunctionMoves
<1>7. PICK node : node = Node
  OBVIOUS
<1>8. CASE GenerateExpression \/ intermediate_code_decl_return
  <2>1. x.do = "list" /\ work' = b /\ func_label' = l
    BY <1>2, <1>8, ExpressionStep, ReturnStep
  <2> QED BY <1>6, <2>1, Zenon DEF InFunction
<1>9. CASE intermediate_code_decl_if
  <2>1. x.do = "list" /\ work' = IfStack(node, n, b) /\ func_label' = l
    BY <1>2, <1>7, <1>9, IfStep
  <2>2. InFunction(IfStack(node, n, b), l)
    BY <1>6, <2>1, StacksInFunction
  <2> QED BY <2>1, <2>2, Zenon DEF InFunction
<1>10. CASE intermediate_code_decl_while
  <2>1. x.do = "list" /\ work' = WhileStack(node, n, b) /\ func_label' = l
    BY <1>2, <1>7, <1>10, WhileStep
  <2>2. InFunction(WhileStack(node, n, b), l)
    BY <1>6, <2>1, StacksInFunction
  <2> QED BY <2>1, <2>2, Zenon DEF InFunction
<1> QED BY <1>4, <1>5, <1>8, <1>9, <1>10

-----------------------------------------------------------------------------
(* Where the code of what the generator had to do is.  A place is a stack of *)
(* work with the address its code starts at: every stack the generator has   *)
(* had is in places, the present one at the end of the code.                 *)

There(code, p, instr) == p \in DOMAIN code /\ code[p] = instr

NodeOf(v)  == Head(Head(v).arg)
BelowOf(v) == Push(Generate(Tail(Head(v).arg)), Tail(v))

\* A stack that has a place, or will have one.
Known(places, w, v) == (\E p : <<v, p>> \in places) \/ v \in Tails(w)

IsStatement(v, op) == Head(v).do = "list" /\ Head(v).arg # <<>> /\ NodeOf(v).op = op

FitsFunction(places, code, fns, v, p) ==
  /\ Head(v).do = "function"
  /\ There(code, p, Instr("FUN", Head(v).arg))
  /\ \E n : <<FunctionStack(fns[Head(v).arg].tree, Head(v).arg, n, Tail(v)), p + 1>> \in places

FitsEmit(places, code, v, p) ==
  /\ Head(v).do = "emit"
  /\ There(code, p, Head(v).arg)
  /\ <<Tail(v), p + 1>> \in places

FitsEmpty(places, v, p) ==
  /\ Head(v).do = "list" /\ Head(v).arg = <<>>
  /\ <<Tail(v), p>> \in places

FitsExpression(places, code, v, p) ==
  /\ IsStatement(v, "OP")
  /\ There(code, p, Instr("OP", NodeOf(v).id))
  /\ <<BelowOf(v), p + 1>> \in places

FitsReturn(places, w, code, v, p) ==
  /\ IsStatement(v, "RETURN")
  /\ There(code, p, Instr("RETURN", NodeOf(v).id))
  /\ \E l, u : /\ There(code, p + 1, Instr("GOTO", l))
               /\ EndOfFunction(u, l) /\ Known(places, w, u)

FitsIf(places, code, v, p) ==
  /\ IsStatement(v, "IF")
  /\ There(code, p, Instr("CONDITION", NodeOf(v).id))
  /\ \E n : /\ There(code, p + 1, Instr("IFF", n))
            /\ <<IfStack(NodeOf(v), n, BelowOf(v)), p + 2>> \in places

FitsWhile(places, code, v, p) ==
  /\ IsStatement(v, "WHILE")
  /\ There(code, p + 1, Instr("CONDITION", NodeOf(v).id))
  /\ \E n : /\ There(code, p, Instr("LABEL", n)) /\ There(code, p + 2, Instr("IFF", n + 1))
            /\ <<WhileStack(NodeOf(v), n, BelowOf(v)), p + 3>> \in places

Fits(places, w, code, fns, v, p) ==
  \/ FitsFunction(places, code, fns, v, p)
  \/ FitsEmit(places, code, v, p)
  \/ FitsEmpty(places, v, p)
  \/ FitsExpression(places, code, v, p)
  \/ FitsReturn(places, w, code, v, p)
  \/ FitsIf(places, code, v, p)
  \/ FitsWhile(places, code, v, p)

Map(places, w, code, fns) ==
  /\ \A v, p : <<v, p>> \in places =>
       /\ IsSeq(v) /\ p \in Nat
       /\ v # <<>> => Known(places, w, Tail(v))
       /\ (v = w /\ p = Len(code) + 1) \/ Fits(places, w, code, fns, v, p)
  /\ <<w, Len(code) + 1>> \in places
  /\ \A f \in DOMAIN fns : \E v : /\ Known(places, w, v) /\ v # <<>>
                                  /\ Head(v).do = "function" /\ Head(v).arg = f

\* The code grows at its end.
Extends(more, code) ==
  \A p \in DOMAIN code : p \in DOMAIN more /\ more[p] = code[p]

LEMMA KnownLater ==
  ASSUME NEW places, NEW w, NEW end, NEW v, Known(places, w, v),
         <<w, end>> \in places,
         NEW newer, places \subseteq newer, NEW next, Tails(w) \subseteq {w} \cup Tails(next)
  PROVE  Known(newer, next, v)
<1>1. CASE \E p : <<v, p>> \in places
  BY <1>1 DEF Known
<1>2. CASE v \in Tails(w)
  <2>1. CASE v = w
    BY <2>1 DEF Known
  <2>2. CASE v # w
    BY <1>2, <2>2 DEF Known
  <2> QED BY <2>1, <2>2
<1> QED BY <1>1, <1>2 DEF Known

LEMMA FitsLater ==
  ASSUME NEW places, NEW w, NEW end, <<w, end>> \in places, NEW code, NEW fns, NEW v, NEW p,
         Fits(places, w, code, fns, v, p),
         NEW newer, places \subseteq newer, NEW next, Tails(w) \subseteq {w} \cup Tails(next),
         NEW more, Extends(more, code)
  PROVE  Fits(newer, next, more, fns, v, p)
<1>1. \A q, instr : There(code, q, instr) => There(more, q, instr)
  BY Zenon DEF There, Extends
<1>2. \A u : Known(places, w, u) => Known(newer, next, u)
  BY KnownLater
<1>3. \A pair : pair \in places => pair \in newer
  OBVIOUS
<1>4. CASE FitsFunction(places, code, fns, v, p)
  <2>1. FitsFunction(newer, more, fns, v, p)
    BY <1>1, <1>3, <1>4, Zenon DEF FitsFunction
  <2> QED BY <2>1 DEF Fits
<1>5. CASE FitsEmit(places, code, v, p)
  <2>1. FitsEmit(newer, more, v, p)
    BY <1>1, <1>3, <1>5, Zenon DEF FitsEmit
  <2> QED BY <2>1 DEF Fits
<1>6. CASE FitsEmpty(places, v, p)
  <2>1. FitsEmpty(newer, v, p)
    BY <1>3, <1>6, Zenon DEF FitsEmpty
  <2> QED BY <2>1 DEF Fits
<1>7. CASE FitsExpression(places, code, v, p)
  <2>1. FitsExpression(newer, more, v, p)
    BY <1>1, <1>3, <1>7, Zenon DEF FitsExpression
  <2> QED BY <2>1 DEF Fits
<1>8. CASE FitsReturn(places, w, code, v, p)
  <2>1. FitsReturn(newer, next, more, v, p)
    BY <1>1, <1>2, <1>8, Zenon DEF FitsReturn
  <2> QED BY <2>1 DEF Fits
<1>9. CASE FitsIf(places, code, v, p)
  <2>1. FitsIf(newer, more, v, p)
    BY <1>1, <1>3, <1>9, Zenon DEF FitsIf
  <2> QED BY <2>1 DEF Fits
<1>10. CASE FitsWhile(places, code, v, p)
  <2>1. FitsWhile(newer, more, v, p)
    BY <1>1, <1>3, <1>10, Zenon DEF FitsWhile
  <2> QED BY <2>1 DEF Fits
<1> QED BY <1>4, <1>5, <1>6, <1>7, <1>8, <1>9, <1>10 DEF Fits

\* The stack of work has got its code, and the next one is at the new end.
LEMMA MapGrows ==
  ASSUME NEW places, NEW w, NEW code, NEW fns, Map(places, w, code, fns),
         NEW next, IsSeq(next), NEW more, IsSeq(more), Extends(more, code),
         Tails(w) \subseteq {w} \cup Tails(next),
         NEW newer, newer = places \cup {<<next, Len(more) + 1>>},
         Fits(newer, next, more, fns, w, Len(code) + 1)
  PROVE  Map(newer, next, more, fns)
<1>1. <<w, Len(code) + 1>> \in places /\ places \subseteq newer
  BY DEF Map
<1>2. \A u : Known(places, w, u) => Known(newer, next, u)
  BY <1>1, KnownLater
<1>3. ASSUME NEW v, NEW p, <<v, p>> \in places
      PROVE  /\ IsSeq(v) /\ p \in Nat
             /\ v # <<>> => Known(newer, next, Tail(v))
             /\ Fits(newer, next, more, fns, v, p)
  <2>1. /\ IsSeq(v) /\ p \in Nat
        /\ v # <<>> => Known(places, w, Tail(v))
        /\ (v = w /\ p = Len(code) + 1) \/ Fits(places, w, code, fns, v, p)
    BY <1>3, Zenon DEF Map
  <2>2. Fits(places, w, code, fns, v, p) => Fits(newer, next, more, fns, v, p)
    BY <1>1, FitsLater
  <2> QED BY <1>2, <2>1, <2>2
<1>4. /\ Len(more) + 1 \in Nat
      /\ next # <<>> => Known(newer, next, Tail(next))
  <2>1. Len(more) \in Nat
    BY SeqLen
  <2>2. ASSUME next # <<>> PROVE Tail(next) \in Tails(next)
    <3>1. IsSeq(Tail(next)) /\ Tails(next) = {next} \cup Tails(Tail(next))
      BY <2>2, TailsOfWhole
    <3> QED BY <3>1, WholeIsSuffix
  <2> QED BY <2>1, <2>2 DEF Known
<1>5. \A v, p : <<v, p>> \in newer =>
        /\ IsSeq(v) /\ p \in Nat
        /\ v # <<>> => Known(newer, next, Tail(v))
        /\ (v = next /\ p = Len(more) + 1) \/ Fits(newer, next, more, fns, v, p)
  <2> SUFFICES ASSUME NEW v, NEW p, <<v, p>> \in newer
               PROVE  /\ IsSeq(v) /\ p \in Nat
                      /\ v # <<>> => Known(newer, next, Tail(v))
                      /\ (v = next /\ p = Len(more) + 1) \/ Fits(newer, next, more, fns, v, p)
    OBVIOUS
  <2>1. CASE <<v, p>> \in places
    BY <1>3, <2>1
  <2>2. CASE v = next /\ p = Len(more) + 1
    BY <1>4, <2>2
  <2> QED BY <2>1, <2>2
<1>6. <<next, Len(more) + 1>> \in newer
  OBVIOUS
<1>7. \A f \in DOMAIN fns : \E v : /\ Known(newer, next, v) /\ v # <<>>
                                   /\ Head(v).do = "function" /\ Head(v).arg = f
  BY <1>2, Zenon DEF Map
<1> QED BY <1>5, <1>6, <1>7, Zenon DEF Map

LEMMA AddThere ==
  ASSUME NEW code, IsSeq(code), NEW a
  PROVE  /\ IsSeq(Add(code, a)) /\ Len(Add(code, a)) = Len(code) + 1 /\ Len(code) \in Nat
         /\ Extends(Add(code, a), code) /\ There(Add(code, a), Len(code) + 1, a)
<1>1. /\ IsSeq(Add(code, a)) /\ Len(Add(code, a)) = Len(code) + 1
      /\ \A i \in DOMAIN code : i \in DOMAIN Add(code, a) /\ Add(code, a)[i] = code[i]
      /\ Len(code) + 1 \in DOMAIN Add(code, a) /\ Add(code, a)[Len(code) + 1] = a
  BY Added
<1> QED BY <1>1, SeqLen DEF Extends, There

LEMMA ExtendsTwice ==
  ASSUME NEW a, NEW b, NEW c, Extends(a, b), Extends(b, c)
  PROVE  Extends(a, c) /\ \A p, instr : There(b, p, instr) => There(a, p, instr)
BY Zenon DEF Extends, There

\* What was under a stack is under what replaces its top.
Over(w, T) == IsSeq(w) /\ Tails(T) \subseteq Tails(w)

LEMMA OverPush ==
  ASSUME NEW T, NEW w, Over(w, T), NEW x
  PROVE  Over(Push(x, w), T)
BY Pushed, TailsOfPush, Zenon DEF Over

LEMMA StacksOver ==
  ASSUME NEW T, NEW w, Over(w, T)
  PROVE  /\ \A tree, f, n : Over(FunctionStack(tree, f, n, w), T)
         /\ \A node, n : Over(IfStack(node, n, w), T) /\ Over(WhileStack(node, n, w), T)
<1>1. \A any, x : Over(any, T) => Over(Push(x, any), T)
  BY OverPush
<1>2. \A x : Over(Push(x, w), T)
  BY <1>1
<1>3. \A x, y : Over(Push(x, Push(y, w)), T)
  BY <1>1, <1>2, Zenon
<1>4. \A x, y, z : Over(Push(x, Push(y, Push(z, w))), T)
  BY <1>1, <1>3, Zenon
<1>5. \A x, y, z, u : Over(Push(x, Push(y, Push(z, Push(u, w)))), T)
  BY <1>1, <1>4, Zenon
<1>6. \A node, n : Over(ElseStack(node, n, w), T)
  BY <1>2, <1>5, Zenon DEF ElseStack
<1> QED BY <1>1, <1>4, <1>6, Zenon DEF FunctionStack, IfStack, WhileStack

LEMMA MapStep ==
  ASSUME NEW places, Map(places, work, intermediate_code, functions),
         IsSeq(work), IsSeq(intermediate_code), Orderly(work, func_label),
         \/ intermediate_code_decl_func
         \/ EmitLater
         \/ EndOfList
         \/ GenerateExpression
         \/ intermediate_code_decl_return
         \/ intermediate_code_decl_if
         \/ intermediate_code_decl_while
  PROVE  \E newer : Map(newer, work', intermediate_code', functions')
<1>1. work # <<>>
  BY FunctionStep, EmitStep, EmptyStep, ExpressionStep, ReturnStep, IfStep, WhileStep DEF Ready
<1>2. PICK c, w, x, T, R, n, l, fns :
        /\ c = intermediate_code /\ w = work /\ x = Head(work) /\ T = Tail(work) /\ R = Below
        /\ n = num_label /\ l = func_label /\ fns = functions
  OBVIOUS
<1>3. /\ IsSeq(c) /\ IsSeq(w) /\ w # <<>> /\ Map(places, w, c, fns) /\ Orderly(w, l)
      /\ x = Head(w) /\ T = Tail(w)
  BY <1>1, <1>2
<1>4. IsSeq(T) /\ w = Push(x, T) /\ Tails(w) = {w} \cup Tails(T)
  BY <1>3, TailsOfWhole
<1>5. R = Push(Generate(Tail(x.arg)), T) /\ R = BelowOf(w)
  BY <1>2, Zenon DEF Below, BelowOf
<1>6. Over(T, T) /\ Over(R, T)
  <2>1. Over(T, T)
    BY <1>4 DEF Over
  <2> QED BY <1>5, <2>1, OverPush
<1>7. PICK k : k = Len(c) + 1
  OBVIOUS
<1>8. Len(c) \in Nat /\ k \in Nat
  BY <1>3, <1>7, SeqLen
<1>9. ASSUME NEW next, Over(next, T), NEW more, IsSeq(more), Extends(more, c), NEW newer,
             newer = places \cup {<<next, Len(more) + 1>>},
             Fits(newer, next, more, fns, w, k),
             work' = next, intermediate_code' = more, functions' = fns
      PROVE  \E any : Map(any, work', intermediate_code', functions')
  <2>1. IsSeq(next) /\ Tails(w) \subseteq {w} \cup Tails(next)
    BY <1>4, <1>9 DEF Over
  <2>2. Map(newer, next, more, fns)
    BY <1>3, <1>7, <1>9, <2>1, MapGrows
  <2> QED BY <1>9, <2>2
<1>10. CASE intermediate_code_decl_func
  <2>1. PICK f, tree : f = x.arg /\ tree = fns[x.arg].tree
    OBVIOUS
  <2>2. PICK next, more : next = FunctionStack(tree, f, n, T) /\ more = Add(c, Instr("FUN", f))
    OBVIOUS
  <2>3. /\ x.do = "function" /\ work' = next /\ intermediate_code' = more
        /\ functions' = fns
    BY <1>2, <1>10, <2>1, <2>2, FunctionStep
  <2>4. IsSeq(more) /\ Len(more) + 1 = k + 1 /\ Extends(more, c) /\ There(more, k, Instr("FUN", f))
    BY <1>3, <1>7, <2>2, AddThere
  <2>5. Over(next, T)
    BY <1>6, <2>2, StacksOver
  <2>6. PICK newer : newer = places \cup {<<next, Len(more) + 1>>}
    OBVIOUS
  <2>7. <<next, k + 1>> \in newer
    BY <2>4, <2>6
  <2>8. FitsFunction(newer, more, fns, w, k)
    BY <1>3, <2>1, <2>2, <2>3, <2>4, <2>7, Zenon DEF FitsFunction
  <2>9. Fits(newer, next, more, fns, w, k)
    BY <2>8 DEF Fits
  <2> QED BY <1>9, <2>3, <2>4, <2>5, <2>6, <2>9
<1>11. CASE EmitLater
  <2>1. PICK more : more = Add(c, x.arg)
    OBVIOUS
  <2>2. /\ x.do = "emit" /\ work' = T /\ intermediate_code' = more /\ functions' = fns
    BY <1>2, <1>11, <2>1, EmitStep
  <2>3. IsSeq(more) /\ Len(more) + 1 = k + 1 /\ Extends(more, c) /\ There(more, k, x.arg)
    BY <1>3, <1>7, <2>1, AddThere
  <2>4. PICK newer : newer = places \cup {<<T, Len(more) + 1>>}
    OBVIOUS
  <2>5. <<T, k + 1>> \in newer
    BY <2>3, <2>4
  <2>6. FitsEmit(newer, more, w, k)
    BY <1>3, <2>2, <2>3, <2>5, Zenon DEF FitsEmit
  <2>7. Fits(newer, T, more, fns, w, k)
    BY <2>6 DEF Fits
  <2> QED BY <1>6, <1>9, <2>2, <2>3, <2>4, <2>7
<1>12. CASE EndOfList
  <2>1. /\ x.do = "list" /\ x.arg = <<>> /\ work' = T /\ intermediate_code' = c
        /\ functions' = fns
    BY <1>2, <1>12, EmptyStep
  <2>2. PICK newer : newer = places \cup {<<T, Len(c) + 1>>}
    OBVIOUS
  <2>3. <<T, k>> \in newer
    BY <1>7, <2>2
  <2>4. FitsEmpty(newer, w, k)
    BY <1>3, <2>1, <2>3, Zenon DEF FitsEmpty
  <2>5. Fits(newer, T, c, fns, w, k)
    BY <2>4 DEF Fits
  <2>6. Extends(c, c)
    BY DEF Extends
  <2> QED BY <1>3, <1>6, <1>9, <2>1, <2>2, <2>5, <2>6
<1>13. PICK node, d : node = NodeOf(w) /\ d = node.id
  OBVIOUS
<1>14. node = Node /\ d = Node.id
  BY <1>2, <1>13, Zenon DEF Node, NodeOf
<1>15. CASE GenerateExpression
  <2>1. PICK more : more = Add(c, Instr("OP", d))
    OBVIOUS
  <2>2. /\ x.do = "list" /\ x.arg # <<>> /\ node.op = "OP"
        /\ work' = R /\ intermediate_code' = more /\ functions' = fns
    BY <1>2, <1>14, <1>15, <2>1, ExpressionStep
  <2>3. IsSeq(more) /\ Len(more) + 1 = k + 1 /\ Extends(more, c) /\ There(more, k, Instr("OP", d))
    BY <1>3, <1>7, <2>1, AddThere
  <2>4. PICK newer : newer = places \cup {<<R, Len(more) + 1>>}
    OBVIOUS
  <2>5. <<R, k + 1>> \in newer
    BY <2>3, <2>4
  <2>6. FitsExpression(newer, more, w, k)
    BY <1>3, <1>5, <1>13, <2>2, <2>3, <2>5, Zenon DEF FitsExpression, IsStatement
  <2>7. Fits(newer, R, more, fns, w, k)
    BY <2>6 DEF Fits
  <2> QED BY <1>6, <1>9, <2>2, <2>3, <2>4, <2>7
<1>16. CASE intermediate_code_decl_return
  <2>1. PICK once, more : once = Add(c, Instr("RETURN", d)) /\ more = Add(once, Instr("GOTO", l))
    OBVIOUS
  <2>2. /\ x.do = "list" /\ x.arg # <<>> /\ node.op = "RETURN"
        /\ work' = R /\ intermediate_code' = more /\ functions' = fns
    BY <1>2, <1>14, <1>16, <2>1, ReturnStep
  <2>3. IsSeq(once) /\ Len(once) + 1 = k + 1 /\ Extends(once, c)
        /\ There(once, k, Instr("RETURN", d))
    BY <1>3, <1>7, <2>1, AddThere
  <2>4. IsSeq(more) /\ Extends(more, once) /\ There(more, k + 1, Instr("GOTO", l))
    BY <2>1, <2>3, AddThere
  <2>5. Extends(more, c) /\ There(more, k, Instr("RETURN", d))
    BY <2>3, <2>4, ExtendsTwice
  <2>6. PICK newer : newer = places \cup {<<R, Len(more) + 1>>}
    OBVIOUS
  <2>7. PICK u \in Tails(T) : EndOfFunction(u, l)
    <3>1. w \in Pending(w)
      BY <1>3, WholeIsSuffix DEF Pending
    <3> QED BY <1>3, <2>2, <3>1, Zenon DEF Orderly
  <2>8. Known(newer, R, u)
    BY <1>6, <2>7 DEF Known, Over
  <2>9. FitsReturn(newer, R, more, w, k)
    BY <1>3, <1>13, <2>2, <2>4, <2>5, <2>7, <2>8, Zenon DEF FitsReturn, IsStatement
  <2>10. Fits(newer, R, more, fns, w, k)
    BY <2>9 DEF Fits
  <2> QED BY <1>6, <1>9, <2>2, <2>4, <2>5, <2>6, <2>10
<1>17. CASE intermediate_code_decl_if
  <2>1. PICK once, more : once = Add(c, Instr("CONDITION", d)) /\ more = Add(once, Instr("IFF", n))
    OBVIOUS
  <2>2. PICK next : next = IfStack(node, n, R)
    OBVIOUS
  <2>3. /\ x.do = "list" /\ x.arg # <<>> /\ node.op = "IF"
        /\ work' = next /\ intermediate_code' = more /\ functions' = fns
    BY <1>2, <1>14, <1>17, <2>1, <2>2, IfStep
  <2>4. IsSeq(once) /\ Len(once) + 1 = k + 1 /\ Extends(once, c)
        /\ There(once, k, Instr("CONDITION", d))
    BY <1>3, <1>7, <2>1, AddThere
  <2>5. IsSeq(more) /\ Extends(more, once) /\ There(more, k + 1, Instr("IFF", n))
        /\ Len(more) + 1 = k + 2
    BY <1>8, <2>1, <2>4, AddThere
  <2>6. Extends(more, c) /\ There(more, k, Instr("CONDITION", d))
    BY <2>4, <2>5, ExtendsTwice
  <2>7. PICK newer : newer = places \cup {<<next, Len(more) + 1>>}
    OBVIOUS
  <2>8. <<next, k + 2>> \in newer
    BY <2>5, <2>7
  <2>9. FitsIf(newer, more, w, k)
    BY <1>3, <1>5, <1>13, <2>2, <2>3, <2>5, <2>6, <2>8, Zenon DEF FitsIf, IsStatement
  <2>10. Fits(newer, next, more, fns, w, k)
    BY <2>9 DEF Fits
  <2>11. Over(next, T)
    BY <1>6, <2>2, StacksOver
  <2> QED BY <1>9, <2>3, <2>5, <2>6, <2>7, <2>10, <2>11
<1>18. CASE intermediate_code_decl_while
  <2>1. PICK first, once, more : /\ first = Add(c, Instr("LABEL", n))
                                 /\ once = Add(first, Instr("CONDITION", d))
                                 /\ more = Add(once, Instr("IFF", n + 1))
    OBVIOUS
  <2>2. PICK next : next = WhileStack(node, n, R)
    OBVIOUS
  <2>3. /\ x.do = "list" /\ x.arg # <<>> /\ node.op = "WHILE"
        /\ work' = next /\ intermediate_code' = more /\ functions' = fns
    BY <1>2, <1>14, <1>18, <2>1, <2>2, WhileStep
  <2>4. IsSeq(first) /\ Len(first) + 1 = k + 1 /\ Extends(first, c)
        /\ There(first, k, Instr("LABEL", n))
    BY <1>3, <1>7, <2>1, AddThere
  <2>5. IsSeq(once) /\ Extends(once, first) /\ There(once, k + 1, Instr("CONDITION", d))
        /\ Len(once) + 1 = k + 2
    BY <1>8, <2>1, <2>4, AddThere
  <2>6. IsSeq(more) /\ Extends(more, once) /\ There(more, k + 2, Instr("IFF", n + 1))
        /\ Len(more) + 1 = k + 3
    BY <1>8, <2>1, <2>5, AddThere
  <2>7. Extends(once, c) /\ There(once, k, Instr("LABEL", n))
    BY <2>4, <2>5, ExtendsTwice
  <2>8. /\ Extends(more, c) /\ There(more, k, Instr("LABEL", n))
        /\ There(more, k + 1, Instr("CONDITION", d))
    BY <2>5, <2>6, <2>7, ExtendsTwice
  <2>9. PICK newer : newer = places \cup {<<next, Len(more) + 1>>}
    OBVIOUS
  <2>10. <<next, k + 3>> \in newer
    BY <2>6, <2>9
  <2>11. FitsWhile(newer, more, w, k)
    BY <1>3, <1>5, <1>13, <2>2, <2>3, <2>6, <2>8, <2>10, Zenon DEF FitsWhile, IsStatement
  <2>12. Fits(newer, next, more, fns, w, k)
    BY <2>11 DEF Fits
  <2>13. Over(next, T)
    BY <1>6, <2>2, StacksOver
  <2> QED BY <1>9, <2>3, <2>6, <2>8, <2>9, <2>12, <2>13
<1> QED BY <1>10, <1>11, <1>12, <1>15, <1>16, <1>17, <1>18

-----------------------------------------------------------------------------
(* What is left of the source at a place.  A stack of work goes with the     *)
(* source that is left when the run comes to its code; a jump goes to a      *)
(* stack that goes with the same.                                            *)

\* One step along a stack, what is below it being in flow.
Leads(flow, places, code, w, r) ==
  /\ IsSeq(w) /\ w # <<>> /\ IsSeq(r)
  /\ \/ \E f : Head(w) = Emit("END", f) /\ r = <<>>
     \/ \E l : Head(w) = Emit("LABEL", l) /\ <<Tail(w), r>> \in flow
     \/ \E l, u, p : /\ Head(w) = Emit("GOTO", l)
                     /\ <<u, p>> \in places /\ There(code, p, Instr("LABEL", l))
                     /\ <<u, r>> \in flow
     \/ \E t, s, after : /\ Head(w) = Generate(t) /\ Matches(t, s)
                         /\ IsSeq(after) /\ r = Join(s, after)
                         /\ <<Tail(w), after>> \in flow

Flow(flow, places, code) == \A w, r : <<w, r>> \in flow => Leads(flow, places, code, w, r)

Follows(places, code, w, r) == \E flow : Flow(flow, places, code) /\ <<w, r>> \in flow

\* Where a label is, the code goes on with r.
Reaches(places, code, l, r) ==
  \E u, p : /\ <<u, p>> \in places /\ There(code, p, Instr("LABEL", l))
            /\ Follows(places, code, u, r)

LEMMA LeadsInMore ==
  ASSUME NEW flow, NEW more, flow \subseteq more, NEW places, NEW code, NEW w, NEW r,
         Leads(flow, places, code, w, r)
  PROVE  Leads(more, places, code, w, r)
<1>1. \A pair : pair \in flow => pair \in more
  OBVIOUS
<1> QED BY <1>1, Zenon DEF Leads

\* A stack that leads on into a flow follows.
LEMMA FlowGrows ==
  ASSUME NEW flow, NEW places, NEW code, Flow(flow, places, code), NEW w, NEW r,
         Leads(flow, places, code, w, r)
  PROVE  Follows(places, code, w, r)
<1>1. PICK more : more = flow \cup {<<w, r>>}
  OBVIOUS
<1>2. flow \subseteq more /\ <<w, r>> \in more
  BY <1>1
<1>3. ASSUME NEW v, NEW q, <<v, q>> \in more PROVE Leads(more, places, code, v, q)
  <2>1. CASE <<v, q>> \in flow
    <3>1. Leads(flow, places, code, v, q)
      BY <2>1, Zenon DEF Flow
    <3> QED BY <1>2, <3>1, LeadsInMore
  <2>2. CASE v = w /\ q = r
    BY <1>2, <2>2, LeadsInMore
  <2> QED BY <1>1, <1>3, <2>1, <2>2
<1> QED BY <1>2, <1>3, Zenon DEF Follows, Flow

LEMMA FollowsParts ==
  ASSUME NEW places, NEW code, NEW w, NEW r, Follows(places, code, w, r)
  PROVE  /\ IsSeq(w) /\ w # <<>> /\ IsSeq(r)
         /\ \/ \E f : Head(w) = Emit("END", f) /\ r = <<>>
            \/ \E l : Head(w) = Emit("LABEL", l) /\ Follows(places, code, Tail(w), r)
            \/ \E l : Head(w) = Emit("GOTO", l) /\ Reaches(places, code, l, r)
            \/ \E t, s, after : /\ Head(w) = Generate(t) /\ Matches(t, s)
                                /\ IsSeq(after) /\ r = Join(s, after)
                                /\ Follows(places, code, Tail(w), after)
<1>1. PICK flow : Flow(flow, places, code) /\ <<w, r>> \in flow
  BY DEF Follows
<1>2. Leads(flow, places, code, w, r)
  BY <1>1, Zenon DEF Flow
<1>3. \A v, q : <<v, q>> \in flow => Follows(places, code, v, q)
  BY <1>1, Zenon DEF Follows
<1> QED BY <1>2, <1>3, Zenon DEF Leads, Reaches

LEMMA EndFollows ==
  ASSUME NEW places, NEW code, NEW w, IsSeq(w), NEW f
  PROVE  Follows(places, code, Push(Emit("END", f), w), <<>>)
<1>1. PICK v : v = Push(Emit("END", f), w)
  OBVIOUS
<1>2. IsSeq(v) /\ v # <<>> /\ Head(v) = Emit("END", f)
  BY <1>1, Pushed
<1>3. Leads({}, places, code, v, <<>>)
  BY <1>2, EmptyIsSeq, Zenon DEF Leads
<1>4. Flow({}, places, code)
  BY DEF Flow
<1> QED BY <1>1, <1>3, <1>4, FlowGrows

LEMMA LabelFollows ==
  ASSUME NEW places, NEW code, NEW w, NEW r, Follows(places, code, w, r), NEW l
  PROVE  Follows(places, code, Push(Emit("LABEL", l), w), r)
<1>1. PICK flow : Flow(flow, places, code) /\ <<w, r>> \in flow
  BY DEF Follows
<1>2. IsSeq(w) /\ IsSeq(r)
  BY FollowsParts
<1>3. PICK v : v = Push(Emit("LABEL", l), w)
  OBVIOUS
<1>4. IsSeq(v) /\ v # <<>> /\ Head(v) = Emit("LABEL", l) /\ Tail(v) = w
  BY <1>2, <1>3, Pushed
<1>5. Leads(flow, places, code, v, r)
  BY <1>1, <1>2, <1>4, Zenon DEF Leads
<1> QED BY <1>1, <1>3, <1>5, FlowGrows

LEMMA GotoFollows ==
  ASSUME NEW places, NEW code, NEW w, IsSeq(w), NEW r, NEW l, Reaches(places, code, l, r)
  PROVE  Follows(places, code, Push(Emit("GOTO", l), w), r)
<1>1. PICK u, p : /\ <<u, p>> \in places /\ There(code, p, Instr("LABEL", l))
                  /\ Follows(places, code, u, r)
  BY DEF Reaches
<1>2. PICK flow : Flow(flow, places, code) /\ <<u, r>> \in flow
  BY <1>1 DEF Follows
<1>3. IsSeq(r)
  BY <1>1, FollowsParts
<1>4. PICK v : v = Push(Emit("GOTO", l), w)
  OBVIOUS
<1>5. IsSeq(v) /\ v # <<>> /\ Head(v) = Emit("GOTO", l)
  BY <1>4, Pushed
<1>6. Leads(flow, places, code, v, r)
  BY <1>1, <1>2, <1>3, <1>5, Zenon DEF Leads
<1> QED BY <1>2, <1>4, <1>6, FlowGrows

LEMMA ListFollows ==
  ASSUME NEW places, NEW code, NEW w, NEW after, Follows(places, code, w, after),
         NEW t, NEW s, Matches(t, s)
  PROVE  Follows(places, code, Push(Generate(t), w), Join(s, after))
<1>1. PICK flow : Flow(flow, places, code) /\ <<w, after>> \in flow
  BY DEF Follows
<1>2. IsSeq(w) /\ IsSeq(after) /\ IsSeq(s)
  BY FollowsParts, MatchesParts
<1>3. PICK v, r : v = Push(Generate(t), w) /\ r = Join(s, after)
  OBVIOUS
<1>4. IsSeq(v) /\ v # <<>> /\ Head(v) = Generate(t) /\ Tail(v) = w
  BY <1>2, <1>3, Pushed
<1>5. IsSeq(r)
  BY <1>2, <1>3, Joined
<1>6. Leads(flow, places, code, v, r)
  BY <1>1, <1>2, <1>3, <1>4, <1>5, Zenon DEF Leads
<1> QED BY <1>1, <1>3, <1>6, FlowGrows

\* The end of a function follows when nothing is left.
LEMMA EndOfFunctionFollows ==
  ASSUME NEW places, NEW code, NEW u, NEW l, EndOfFunction(u, l)
  PROVE  Follows(places, code, u, <<>>)
<1>1. PICK f, T : IsSeq(T) /\ u = Push(Emit("LABEL", l), Push(Emit("END", f), T))
  BY DEF EndOfFunction
<1>2. Follows(places, code, Push(Emit("END", f), T), <<>>)
  BY <1>1, EndFollows
<1> QED BY <1>1, <1>2, LabelFollows

\* A statement first on the stack is the first that is left of the source.
LEMMA StatementFollows ==
  ASSUME NEW places, NEW code, NEW w, NEW r, Follows(places, code, w, r),
         Head(w).do = "list", Head(w).arg # <<>>
  PROVE  /\ r # <<>> /\ NodeMatches(NodeOf(w), Head(r)) /\ IsSeq(Tail(r))
         /\ Follows(places, code, BelowOf(w), Tail(r))
<1>1. \A op, k : Emit(op, k).do # "list"
  BY DEF Emit
<1>2. PICK t, s, after : /\ Head(w) = Generate(t) /\ Matches(t, s)
                         /\ IsSeq(after) /\ r = Join(s, after)
                         /\ Follows(places, code, Tail(w), after)
  <2>1. \/ \E f : Head(w) = Emit("END", f) /\ r = <<>>
        \/ \E l : Head(w) = Emit("LABEL", l) /\ Follows(places, code, Tail(w), r)
        \/ \E l : Head(w) = Emit("GOTO", l) /\ Reaches(places, code, l, r)
        \/ \E t, s, after : /\ Head(w) = Generate(t) /\ Matches(t, s)
                            /\ IsSeq(after) /\ r = Join(s, after)
                            /\ Follows(places, code, Tail(w), after)
    BY FollowsParts
  <2>2. \A op, k : Head(w) # Emit(op, k)
    BY <1>1
  <2> QED BY <2>1, <2>2
<1>3. t = Head(w).arg /\ t # <<>>
  <2>1. Generate(t).arg = t
    BY DEF Generate
  <2> QED BY <1>2, <2>1
<1>4. s # <<>> /\ NodeMatches(Head(t), Head(s)) /\ Matches(Tail(t), Tail(s)) /\ IsSeq(s)
  BY <1>2, <1>3, MatchesTail, MatchesParts
<1>5. IsSeq(Tail(s)) /\ s = Push(Head(s), Tail(s))
  BY <1>4, Split, PushHeadTail
<1>6. PICK h, rest1 : h = Head(s) /\ rest1 = Join(Tail(s), after)
  OBVIOUS
<1>7. r = Push(h, rest1) /\ IsSeq(rest1)
  <2>1. PICK ts : ts = Tail(s)
    OBVIOUS
  <2>2. IsSeq(ts) /\ s = Push(h, ts)
    BY <1>5, <1>6, <2>1
  <2>3. Join(Push(h, ts), after) = Push(h, Join(ts, after))
    BY <1>2, <2>2, InFront
  <2>4. IsSeq(Join(ts, after))
    BY <1>2, <2>2, Joined
  <2> QED BY <1>2, <1>6, <2>1, <2>2, <2>3, <2>4
<1>8. r # <<>> /\ Head(r) = h /\ Tail(r) = rest1
  BY <1>7, Pushed
<1>9. Follows(places, code, Push(Generate(Tail(t)), Tail(w)), rest1)
  BY <1>2, <1>4, <1>6, ListFollows
<1> QED BY <1>3, <1>4, <1>6, <1>7, <1>8, <1>9, Zenon DEF NodeOf, BelowOf

-----------------------------------------------------------------------------
(* Where a run is, and what is left of the source there. *)

AtPlace(places, code, p, r) == \E w : <<w, p>> \in places /\ Follows(places, code, w, r)

AtEntry(places, fns, p, r) ==
  \E w : /\ <<w, p>> \in places /\ w # <<>>
         /\ Head(w).do = "function" /\ Head(w).arg \in DOMAIN fns
         /\ r = fns[Head(w).arg].source

AtJump(places, code, p, r) ==
  \E l : There(code, p, Instr("GOTO", l)) /\ Reaches(places, code, l, r)

\* c is the condition just computed.
AtBranch(places, code, p, c, r) ==
  \E l : /\ There(code, p, Instr("IFF", l))
         /\ c => AtPlace(places, code, p + 1, r)
         /\ ~ c => Reaches(places, code, l, r)

\* Past the label of a loop, at its condition.
AtLoop(places, code, p, r) ==
  \E w, q : /\ <<w, q>> \in places /\ p = q + 1
            /\ Follows(places, code, w, r) /\ FitsWhile(places, code, w, q)

RunAt(places, code, fns, p, c, r) ==
  \/ AtPlace(places, code, p, r)
  \/ AtEntry(places, fns, p, r)
  \/ AtJump(places, code, p, r)
  \/ AtBranch(places, code, p, c, r)
  \/ AtLoop(places, code, p, r)

\* When nothing is left to generate every stack has its place.
LEMMA WholeMap ==
  ASSUME NEW places, NEW code, NEW fns, Map(places, <<>>, code, fns)
  PROVE  /\ \A v, p : <<v, p>> \in places /\ v # <<>> =>
              /\ IsSeq(v) /\ p \in Nat /\ Fits(places, <<>>, code, fns, v, p)
              /\ \E q : <<Tail(v), q>> \in places
         /\ \A v : Known(places, <<>>, v) => \E q : <<v, q>> \in places
<1>1. <<<<>>, Len(code) + 1>> \in places
  BY DEF Map
<1>2. \A v : Known(places, <<>>, v) => \E q : <<v, q>> \in places
  BY <1>1, TailsOfEmpty DEF Known
<1>3. ASSUME NEW v, NEW p, <<v, p>> \in places, v # <<>>
      PROVE  /\ IsSeq(v) /\ p \in Nat /\ Fits(places, <<>>, code, fns, v, p)
             /\ Known(places, <<>>, Tail(v))
  BY <1>3, Zenon DEF Map
<1> QED BY <1>2, <1>3

LEMMA EmitPlaced ==
  ASSUME NEW places, NEW code, NEW fns, Map(places, <<>>, code, fns),
         NEW v, NEW p, <<v, p>> \in places, v # <<>>, NEW op, NEW k, Head(v) = Emit(op, k)
  PROVE  There(code, p, Instr(op, k)) /\ <<Tail(v), p + 1>> \in places /\ p \in Nat
<1>1. Fits(places, <<>>, code, fns, v, p) /\ p \in Nat
  BY WholeMap
<1>2. Head(v).do = "emit" /\ Head(v).arg = Instr(op, k)
  BY DEF Emit
<1>3. FitsEmit(places, code, v, p)
  BY <1>1, <1>2 DEF Fits, FitsFunction, FitsEmpty, FitsExpression, FitsReturn, FitsIf, FitsWhile,
                    IsStatement
<1> QED BY <1>1, <1>2, <1>3, Zenon DEF FitsEmit

LEMMA LabelReached ==
  ASSUME NEW places, NEW code, NEW fns, Map(places, <<>>, code, fns),
         NEW l, NEW w, NEW p, <<Push(Emit("LABEL", l), w), p>> \in places,
         NEW r, Follows(places, code, w, r)
  PROVE  Reaches(places, code, l, r)
<1>1. PICK u : u = Push(Emit("LABEL", l), w)
  OBVIOUS
<1>2. IsSeq(w)
  BY FollowsParts
<1>3. u # <<>> /\ Head(u) = Emit("LABEL", l)
  BY <1>1, <1>2, Pushed
<1>4. There(code, p, Instr("LABEL", l))
  BY <1>1, <1>3, EmitPlaced
<1>5. Follows(places, code, u, r)
  BY <1>1, LabelFollows
<1> QED BY <1>1, <1>4, <1>5, Zenon DEF Reaches

\* The stacks below one with a place have places.
LEMMA BelowPlaced ==
  ASSUME NEW places, NEW code, NEW fns, Map(places, <<>>, code, fns),
         NEW x, NEW w, IsSeq(w), NEW p, <<Push(x, w), p>> \in places
  PROVE  \E q : <<w, q>> \in places
<1>1. PICK v : v = Push(x, w)
  OBVIOUS
<1>2. v # <<>> /\ Tail(v) = w
  BY <1>1, Pushed
<1> QED BY <1>1, <1>2, WholeMap

LEMMA Smallest ==
  ASSUME NEW S, S \subseteq Nat, S # {}
  PROVE  \E n \in S : \A m \in S : ~ (m < n)
<1>1. PICK n \in S : \A m \in S : <<m, n>> \notin OpToRel(<, Nat)
  BY NatLessThanWellFounded, WFMin, Zenon
<1> QED BY <1>1, Zenon DEF OpToRel

\* Of the stacks at a place the shortest is not an empty list.
LEMMA Settled ==
  ASSUME NEW places, NEW code, NEW fns, Map(places, <<>>, code, fns),
         NEW p, NEW r, AtPlace(places, code, p, r)
  PROVE  \E w : /\ <<w, p>> \in places /\ Follows(places, code, w, r)
                /\ ~ FitsEmpty(places, w, p)
<1> DEFINE Here(w) == <<w, p>> \in places /\ Follows(places, code, w, r)
           lengths == {n \in Nat : \E w : Here(w) /\ n = Len(w)}
<1>1. \A w : Here(w) => Len(w) \in Nat
  BY FollowsParts, SeqLen
<1>2. lengths # {}
  BY <1>1 DEF AtPlace
<1>3. lengths \subseteq Nat
  OBVIOUS
<1>4. PICK n \in lengths : \A m \in lengths : ~ (m < n)
  <2> HIDE DEF lengths
  <2> QED BY <1>2, <1>3, Smallest
<1>5. \A m \in lengths : ~ (m < n)
  BY <1>4
<1>6. PICK w : Here(w) /\ n = Len(w)
  OBVIOUS
<1>7. ASSUME FitsEmpty(places, w, p) PROVE FALSE
  <2>1. Head(w).do = "list" /\ Head(w).arg = <<>> /\ <<Tail(w), p>> \in places
    BY <1>7 DEF FitsEmpty
  <2>2. /\ IsSeq(w) /\ w # <<>>
        /\ \/ \E f : Head(w) = Emit("END", f) /\ r = <<>>
           \/ \E l : Head(w) = Emit("LABEL", l) /\ Follows(places, code, Tail(w), r)
           \/ \E l : Head(w) = Emit("GOTO", l) /\ Reaches(places, code, l, r)
           \/ \E t, s, after : /\ Head(w) = Generate(t) /\ Matches(t, s)
                               /\ IsSeq(after) /\ r = Join(s, after)
                               /\ Follows(places, code, Tail(w), after)
    BY <1>6, FollowsParts
  <2>3. \A op, k : Head(w) # Emit(op, k)
    BY <2>1 DEF Emit
  <2>4. PICK t, s, after : /\ Head(w) = Generate(t) /\ Matches(t, s)
                           /\ IsSeq(after) /\ r = Join(s, after)
                           /\ Follows(places, code, Tail(w), after)
    BY <2>2, <2>3
  <2>5. t = <<>>
    BY <2>1, <2>4 DEF Generate
  <2>6. s = <<>>
    BY <2>4, <2>5, MatchesEmpty
  <2>7. r = after
    BY <2>4, <2>6, JoinedEmpty
  <2>8. Here(Tail(w))
    BY <2>1, <2>4, <2>7
  <2>9. Len(Tail(w)) = Len(w) - 1 /\ Len(w) \in Nat /\ Len(Tail(w)) \in Nat
    BY <2>2, Split, SeqLen
  <2>10. Len(Tail(w)) \in lengths
    BY <2>8, <2>9
  <2>11. Len(Tail(w)) < n
    BY <1>6, <2>9
  <2> QED BY <1>5, <2>10, <2>11
<1> QED BY <1>6, <1>7

\* What the code is at a place.
LEMMA PlaceCases ==
  ASSUME NEW places, NEW code, NEW fns, Map(places, <<>>, code, fns),
         NEW p, NEW r, AtPlace(places, code, p, r)
  PROVE  \/ r = <<>> /\ \E f : There(code, p, Instr("END", f))
         \/ AtPlace(places, code, p + 1, r) /\ \E l : There(code, p, Instr("LABEL", l))
         \/ AtJump(places, code, p, r)
         \/ \E w : /\ <<w, p>> \in places /\ IsSeq(w) /\ w # <<>> /\ p \in Nat
                   /\ Head(w).do = "list" /\ Head(w).arg # <<>>
                   /\ Follows(places, code, w, r)
                   /\ \/ FitsExpression(places, code, w, p)
                      \/ FitsReturn(places, <<>>, code, w, p)
                      \/ FitsIf(places, code, w, p)
                      \/ FitsWhile(places, code, w, p)
<1>1. PICK w : /\ <<w, p>> \in places /\ Follows(places, code, w, r)
               /\ ~ FitsEmpty(places, w, p)
  BY Settled
<1>2. /\ IsSeq(w) /\ w # <<>>
      /\ \/ \E f : Head(w) = Emit("END", f) /\ r = <<>>
         \/ \E l : Head(w) = Emit("LABEL", l) /\ Follows(places, code, Tail(w), r)
         \/ \E l : Head(w) = Emit("GOTO", l) /\ Reaches(places, code, l, r)
         \/ \E t, s, after : /\ Head(w) = Generate(t) /\ Matches(t, s)
                             /\ IsSeq(after) /\ r = Join(s, after)
                             /\ Follows(places, code, Tail(w), after)
  BY <1>1, FollowsParts
<1>3. Fits(places, <<>>, code, fns, w, p) /\ p \in Nat
  BY <1>1, <1>2, WholeMap
<1>4. CASE \E f : Head(w) = Emit("END", f) /\ r = <<>>
  BY <1>1, <1>2, <1>4, EmitPlaced
<1>5. CASE \E l : Head(w) = Emit("LABEL", l) /\ Follows(places, code, Tail(w), r)
  <2>1. PICK l : Head(w) = Emit("LABEL", l) /\ Follows(places, code, Tail(w), r)
    BY <1>5
  <2>2. There(code, p, Instr("LABEL", l)) /\ <<Tail(w), p + 1>> \in places
    BY <1>1, <1>2, <2>1, EmitPlaced
  <2>3. AtPlace(places, code, p + 1, r)
    BY <2>1, <2>2, Zenon DEF AtPlace
  <2> QED BY <2>2, <2>3
<1>6. CASE \E l : Head(w) = Emit("GOTO", l) /\ Reaches(places, code, l, r)
  <2>1. PICK l : Head(w) = Emit("GOTO", l) /\ Reaches(places, code, l, r)
    BY <1>6
  <2>2. There(code, p, Instr("GOTO", l))
    BY <1>1, <1>2, <2>1, EmitPlaced
  <2> QED BY <2>1, <2>2, Zenon DEF AtJump
<1>7. CASE \E t : Head(w) = Generate(t)
  <2>1. Head(w).do = "list"
    BY <1>7 DEF Generate
  <2>2. \/ FitsEmpty(places, w, p)
        \/ FitsExpression(places, code, w, p)
        \/ FitsReturn(places, <<>>, code, w, p)
        \/ FitsIf(places, code, w, p)
        \/ FitsWhile(places, code, w, p)
    BY <1>3, <2>1 DEF Fits, FitsFunction, FitsEmit
  <2>3. Head(w).arg # <<>>
    BY <1>1, <2>2 DEF FitsExpression, FitsReturn, FitsIf, FitsWhile, IsStatement
  <2> QED BY <1>1, <1>2, <1>3, <2>1, <2>2, <2>3, Zenon
<1> QED BY <1>2, <1>4, <1>5, <1>6, <1>7, Zenon

-----------------------------------------------------------------------------
(* A step of a run goes from a place to the place of what is left. *)

\* What the next statement is, and that it can run: its instruction is at p.
Statement(places, code, w, p, r) ==
  /\ <<w, p>> \in places /\ IsSeq(w) /\ w # <<>> /\ p \in Nat
  /\ Head(w).do = "list" /\ Head(w).arg # <<>>
  /\ Follows(places, code, w, r)

LEMMA ExpressionRun ==
  ASSUME NEW places, NEW code, NEW w, NEW p, NEW r, Statement(places, code, w, p, r),
         FitsExpression(places, code, w, p)
  PROVE  /\ r # <<>> /\ Head(r).op = "OP" /\ There(code, p, Instr("OP", Head(r).id))
         /\ \A o : AtPlace(places, code, p + 1, After(r, o))
<1>1. /\ r # <<>> /\ NodeMatches(NodeOf(w), Head(r))
      /\ Follows(places, code, BelowOf(w), Tail(r))
  BY StatementFollows DEF Statement
<1>2. NodeOf(w).op = Head(r).op /\ NodeOf(w).id = Head(r).id
  BY <1>1 DEF NodeMatches, Alike
<1>3. /\ NodeOf(w).op = "OP" /\ There(code, p, Instr("OP", NodeOf(w).id))
      /\ <<BelowOf(w), p + 1>> \in places
  BY DEF FitsExpression, IsStatement
<1>4. AtPlace(places, code, p + 1, Tail(r))
  BY <1>1, <1>3, Zenon DEF AtPlace
<1>5. \A o : After(r, o) = Tail(r)
  BY <1>2, <1>3 DEF After
<1> QED BY <1>1, <1>2, <1>3, <1>4, <1>5

LEMMA ReturnRun ==
  ASSUME NEW places, NEW code, NEW fns, Map(places, <<>>, code, fns),
         NEW w, NEW p, NEW r, Statement(places, code, w, p, r),
         FitsReturn(places, <<>>, code, w, p)
  PROVE  /\ r # <<>> /\ Head(r).op = "RETURN" /\ There(code, p, Instr("RETURN", Head(r).id))
         /\ \A o : AtJump(places, code, p + 1, After(r, o))
<1>1. r # <<>> /\ NodeMatches(NodeOf(w), Head(r))
  BY StatementFollows DEF Statement
<1>2. NodeOf(w).op = Head(r).op /\ NodeOf(w).id = Head(r).id
  BY <1>1 DEF NodeMatches, Alike
<1>3. NodeOf(w).op = "RETURN" /\ There(code, p, Instr("RETURN", NodeOf(w).id))
  BY DEF FitsReturn, IsStatement
<1>4. PICK l, u : /\ There(code, p + 1, Instr("GOTO", l))
                  /\ EndOfFunction(u, l) /\ Known(places, <<>>, u)
  BY DEF FitsReturn
<1>5. Follows(places, code, u, <<>>)
  BY <1>4, EndOfFunctionFollows
<1>6. PICK q : <<u, q>> \in places
  BY <1>4, WholeMap
<1>7. There(code, q, Instr("LABEL", l))
  <2>1. PICK f, T : IsSeq(T) /\ u = Push(Emit("LABEL", l), Push(Emit("END", f), T))
    BY <1>4 DEF EndOfFunction
  <2>2. u # <<>> /\ Head(u) = Emit("LABEL", l)
    BY <2>1, Pushed
  <2> QED BY <1>6, <2>2, EmitPlaced
<1>8. Reaches(places, code, l, <<>>)
  BY <1>5, <1>6, <1>7, Zenon DEF Reaches
<1>9. AtJump(places, code, p + 1, <<>>)
  BY <1>4, <1>8, Zenon DEF AtJump
<1>10. \A o : After(r, o) = <<>>
  BY <1>2, <1>3 DEF After
<1> QED BY <1>1, <1>2, <1>3, <1>9, <1>10

\* After the first list of an if, and at its label.
LEMMA ElseReached ==
  ASSUME NEW places, NEW code, NEW fns, Map(places, <<>>, code, fns),
         NEW w, NEW after, Follows(places, code, w, after),
         NEW node, NEW s, Matches(Child(node, 2), s),
         NEW n, NEW q, <<ElseStack(node, n, w), q>> \in places
  PROVE  /\ Follows(places, code, ElseStack(node, n, w), after)
         /\ Reaches(places, code, n, Join(s, after))
<1>1. IsSeq(w) /\ IsSeq(after)
  BY FollowsParts
<1>2. CASE Child(node, 2) = <<>>
  <2>1. PICK v : v = Push(Emit("LABEL", n), w)
    OBVIOUS
  <2>2. ElseStack(node, n, w) = v
    BY <1>2, <2>1 DEF ElseStack
  <2>3. Follows(places, code, v, after)
    BY <2>1, LabelFollows
  <2>4. <<Push(Emit("LABEL", n), w), q>> \in places
    BY <2>1, <2>2
  <2>5. Reaches(places, code, n, after)
    BY <2>4, LabelReached
  <2>6. Join(s, after) = after
    BY <1>1, <1>2, MatchesEmpty, JoinedEmpty
  <2> QED BY <2>2, <2>3, <2>5, <2>6
<1>3. CASE Child(node, 2) # <<>>
  <2>1. PICK last : last = Push(Emit("LABEL", n + 1), w)
    OBVIOUS
  <2>2. PICK list : list = Push(Generate(Child(node, 2)), last)
    OBVIOUS
  <2>3. PICK first : first = Push(Emit("LABEL", n), list)
    OBVIOUS
  <2>4. PICK jump : jump = Push(Emit("GOTO", n + 1), first)
    OBVIOUS
  <2>5. ElseStack(node, n, w) = jump
    BY <1>3, <2>1, <2>2, <2>3, <2>4 DEF ElseStack
  <2>6. Follows(places, code, last, after)
    BY <2>1, LabelFollows
  <2>7. Follows(places, code, list, Join(s, after))
    BY <2>2, <2>6, ListFollows
  <2>8. IsSeq(last) /\ IsSeq(list) /\ IsSeq(first)
    BY <1>1, <2>1, <2>2, <2>3, Pushed
  <2>9. PICK a : <<first, a>> \in places
    BY <2>4, <2>5, <2>8, BelowPlaced
  <2>10. PICK b : <<list, b>> \in places
    BY <2>3, <2>8, <2>9, BelowPlaced
  <2>11. PICK c : <<last, c>> \in places
    BY <2>2, <2>8, <2>10, BelowPlaced
  <2>12. Reaches(places, code, n + 1, after)
    BY <2>1, <2>11, LabelReached
  <2>13. Follows(places, code, jump, after)
    BY <2>4, <2>8, <2>12, GotoFollows
  <2>14. Reaches(places, code, n, Join(s, after))
    BY <2>3, <2>7, <2>9, LabelReached
  <2> QED BY <2>5, <2>13, <2>14
<1> QED BY <1>2, <1>3

LEMMA IfRun ==
  ASSUME NEW places, NEW code, NEW fns, Map(places, <<>>, code, fns),
         NEW w, NEW p, NEW r, Statement(places, code, w, p, r), FitsIf(places, code, w, p)
  PROVE  /\ r # <<>> /\ Head(r).op = "IF" /\ There(code, p, Instr("CONDITION", Head(r).id))
         /\ \A o \in BOOLEAN : AtBranch(places, code, p + 1, o, After(r, o))
<1>1. /\ r # <<>> /\ NodeMatches(NodeOf(w), Head(r)) /\ IsSeq(Tail(r))
      /\ Follows(places, code, BelowOf(w), Tail(r)) /\ p \in Nat
  BY StatementFollows DEF Statement
<1>2. PICK node, first, below, after : /\ node = NodeOf(w) /\ first = Head(r)
                                       /\ below = BelowOf(w) /\ after = Tail(r)
  OBVIOUS
<1>3. /\ node.op = first.op /\ node.id = first.id
      /\ Matches(Child(node, 1), first.then) /\ Matches(Child(node, 2), first.otherwise)
  BY <1>1, <1>2 DEF NodeMatches, Alike
<1>4. PICK n : /\ node.op = "IF" /\ There(code, p, Instr("CONDITION", node.id))
               /\ There(code, p + 1, Instr("IFF", n))
               /\ <<IfStack(node, n, below), p + 2>> \in places
  BY <1>2, Zenon DEF FitsIf, IsStatement
<1>5. PICK els : els = ElseStack(node, n, below)
  OBVIOUS
<1>6. IfStack(node, n, below) = Push(Generate(Child(node, 1)), els)
  BY <1>5 DEF IfStack
<1>7. IsSeq(els)
  <2>1. IsSeq(below)
    BY <1>1, <1>2, FollowsParts
  <2> QED BY <1>5, <2>1, Pushed DEF ElseStack
<1>8. PICK q : <<els, q>> \in places
  BY <1>4, <1>6, <1>7, BelowPlaced
<1>9. Follows(places, code, below, after)
  BY <1>1, <1>2
<1>10. /\ Follows(places, code, els, after)
       /\ Reaches(places, code, n, Join(first.otherwise, after))
  BY <1>3, <1>5, <1>8, <1>9, ElseReached
<1>11. AtPlace(places, code, (p + 1) + 1, Join(first.then, after))
  <2>1. Follows(places, code, Push(Generate(Child(node, 1)), els), Join(first.then, after))
    BY <1>3, <1>10, ListFollows
  <2>2. (p + 1) + 1 = p + 2
    BY <1>1
  <2> QED BY <1>4, <1>6, <2>1, <2>2 DEF AtPlace
<1>12. /\ After(r, TRUE) = Join(first.then, after)
       /\ After(r, FALSE) = Join(first.otherwise, after)
  BY <1>2, <1>3, <1>4 DEF After, Join
<1>13. /\ AtBranch(places, code, p + 1, TRUE, After(r, TRUE))
       /\ AtBranch(places, code, p + 1, FALSE, After(r, FALSE))
  BY <1>4, <1>10, <1>11, <1>12 DEF AtBranch
<1> QED BY <1>1, <1>2, <1>3, <1>4, <1>13

LEMMA LoopRun ==
  ASSUME NEW places, NEW code, NEW fns, Map(places, <<>>, code, fns),
         NEW w, NEW p, NEW r, Statement(places, code, w, p, r), FitsWhile(places, code, w, p)
  PROVE  /\ r # <<>> /\ Head(r).op = "WHILE"
         /\ There(code, p + 1, Instr("CONDITION", Head(r).id))
         /\ \A o \in BOOLEAN : AtBranch(places, code, (p + 1) + 1, o, After(r, o))
<1>1. /\ r # <<>> /\ NodeMatches(NodeOf(w), Head(r))
      /\ Follows(places, code, BelowOf(w), Tail(r)) /\ p \in Nat
      /\ <<w, p>> \in places /\ Follows(places, code, w, r)
  BY StatementFollows DEF Statement
<1>2. PICK node, first, below, after : /\ node = NodeOf(w) /\ first = Head(r)
                                       /\ below = BelowOf(w) /\ after = Tail(r)
  OBVIOUS
<1>3. node.op = first.op /\ node.id = first.id /\ Matches(Child(node, 1), first.then)
  BY <1>1, <1>2 DEF NodeMatches, Alike
<1>4. PICK n : /\ node.op = "WHILE" /\ There(code, p + 1, Instr("CONDITION", node.id))
               /\ There(code, p, Instr("LABEL", n)) /\ There(code, p + 2, Instr("IFF", n + 1))
               /\ <<WhileStack(node, n, below), p + 3>> \in places
  BY <1>2, Zenon DEF FitsWhile, IsStatement
<1>5. PICK end : end = Push(Emit("LABEL", n + 1), below)
  OBVIOUS
<1>6. PICK jump : jump = Push(Emit("GOTO", n), end)
  OBVIOUS
<1>7. WhileStack(node, n, below) = Push(Generate(Child(node, 1)), jump)
  BY <1>5, <1>6 DEF WhileStack
<1>8. IsSeq(end) /\ IsSeq(jump)
  BY <1>1, <1>2, <1>5, <1>6, FollowsParts, Pushed
<1>9. Reaches(places, code, n, r)
  BY <1>1, <1>4, Zenon DEF Reaches
<1>10. Follows(places, code, jump, r)
  BY <1>6, <1>8, <1>9, GotoFollows
<1>11. Reaches(places, code, n + 1, after)
  <2>1. PICK a : <<jump, a>> \in places
    BY <1>4, <1>7, <1>8, BelowPlaced
  <2>2. PICK b : <<end, b>> \in places
    BY <1>6, <1>8, <2>1, BelowPlaced
  <2>3. Follows(places, code, below, after)
    BY <1>1, <1>2
  <2> QED BY <1>5, <2>2, <2>3, LabelReached
<1>12. AtPlace(places, code, ((p + 1) + 1) + 1, Join(first.then, r))
  <2>1. Follows(places, code, Push(Generate(Child(node, 1)), jump), Join(first.then, r))
    BY <1>3, <1>10, ListFollows
  <2>2. ((p + 1) + 1) + 1 = p + 3
    BY <1>1
  <2> QED BY <1>4, <1>7, <2>1, <2>2 DEF AtPlace
<1>13. After(r, TRUE) = Join(first.then, r) /\ After(r, FALSE) = after
  BY <1>2, <1>3, <1>4 DEF After, Join
<1>14. (p + 1) + 1 = p + 2
  BY <1>1
<1>15. /\ AtBranch(places, code, (p + 1) + 1, TRUE, After(r, TRUE))
       /\ AtBranch(places, code, (p + 1) + 1, FALSE, After(r, FALSE))
  BY <1>4, <1>11, <1>12, <1>13, <1>14 DEF AtBranch
<1> QED BY <1>1, <1>2, <1>3, <1>4, <1>15

\* A call of a function.
LEMMA EntryRun ==
  ASSUME NEW places, NEW code, NEW fns, Map(places, <<>>, code, fns),
         \A f \in DOMAIN fns : ListMatches(fns[f]),
         NEW p, NEW r, AtEntry(places, fns, p, r)
  PROVE  (\E f : There(code, p, Instr("FUN", f))) /\ AtPlace(places, code, p + 1, r)
<1>1. PICK w : /\ <<w, p>> \in places /\ w # <<>>
               /\ Head(w).do = "function" /\ Head(w).arg \in DOMAIN fns
               /\ r = fns[Head(w).arg].source
  BY DEF AtEntry
<1>2. PICK f : f = Head(w).arg
  OBVIOUS
<1>3. IsSeq(w) /\ Fits(places, <<>>, code, fns, w, p)
  BY <1>1, WholeMap
<1>4. FitsFunction(places, code, fns, w, p)
  BY <1>1, <1>3 DEF Fits, FitsEmit, FitsEmpty, FitsExpression, FitsReturn, FitsIf, FitsWhile,
                    IsStatement
<1>5. PICK n : /\ There(code, p, Instr("FUN", f))
               /\ <<FunctionStack(fns[f].tree, f, n, Tail(w)), p + 1>> \in places
  BY <1>2, <1>4, Zenon DEF FitsFunction
<1>6. Matches(fns[f].tree, r)
  BY <1>1, <1>2 DEF ListMatches
<1>7. IsSeq(Tail(w))
  BY <1>1, <1>3, Split
<1>8. Follows(places, code, Push(Emit("LABEL", n), Push(Emit("END", f), Tail(w))), <<>>)
  BY <1>7, EndFollows, LabelFollows
<1>9. Join(r, <<>>) = r
  BY <1>6, MatchesParts, JoinedEmpty
<1>10. Follows(places, code, FunctionStack(fns[f].tree, f, n, Tail(w)), r)
  BY <1>6, <1>8, <1>9, ListFollows DEF FunctionStack
<1> QED BY <1>5, <1>10, Zenon DEF AtPlace

\* The instruction a run is at, and where it goes from there.
Passes(places, code, fns, p, r) ==
  /\ \E k : There(code, p, Instr("FUN", k)) \/ There(code, p, Instr("LABEL", k))
  /\ \A c : RunAt(places, code, fns, p + 1, c, r)

Branches(places, code, p, c, r) ==
  \E l : /\ There(code, p, Instr("IFF", l))
         /\ c => AtPlace(places, code, p + 1, r)
         /\ ~ c => Reaches(places, code, l, r)

Executes(places, code, fns, p, r) ==
  /\ r # <<>> /\ Head(r).op \in {"OP", "RETURN"}
  /\ There(code, p, Instr(Head(r).op, Head(r).id))
  /\ \A o, c : RunAt(places, code, fns, p + 1, c, After(r, o))

Decides(places, code, fns, p, r) ==
  /\ r # <<>> /\ Head(r).op \in {"IF", "WHILE"}
  /\ There(code, p, Instr("CONDITION", Head(r).id))
  /\ \A o \in BOOLEAN : RunAt(places, code, fns, p + 1, o, After(r, o))

Ends(code, p, r) == r = <<>> /\ \E f : There(code, p, Instr("END", f))

LEMMA RunCases ==
  ASSUME NEW places, NEW code, NEW fns, Map(places, <<>>, code, fns),
         \A f \in DOMAIN fns : ListMatches(fns[f]),
         NEW p, NEW c, NEW r, RunAt(places, code, fns, p, c, r)
  PROVE  \/ Passes(places, code, fns, p, r)
         \/ AtJump(places, code, p, r)
         \/ Branches(places, code, p, c, r)
         \/ Executes(places, code, fns, p, r)
         \/ Decides(places, code, fns, p, r)
         \/ Ends(code, p, r)
<1>1. CASE AtPlace(places, code, p, r)
  <2>1. CASE r = <<>> /\ \E f : There(code, p, Instr("END", f))
    BY <2>1 DEF Ends
  <2>2. CASE AtPlace(places, code, p + 1, r) /\ \E l : There(code, p, Instr("LABEL", l))
    BY <2>2 DEF Passes, RunAt
  <2>3. CASE \E w : /\ <<w, p>> \in places /\ IsSeq(w) /\ w # <<>> /\ p \in Nat
                    /\ Head(w).do = "list" /\ Head(w).arg # <<>>
                    /\ Follows(places, code, w, r)
                    /\ \/ FitsExpression(places, code, w, p)
                       \/ FitsReturn(places, <<>>, code, w, p)
                       \/ FitsIf(places, code, w, p)
                       \/ FitsWhile(places, code, w, p)
    <3>1. PICK w : /\ Statement(places, code, w, p, r)
                   /\ \/ FitsExpression(places, code, w, p)
                      \/ FitsReturn(places, <<>>, code, w, p)
                      \/ FitsIf(places, code, w, p)
                      \/ FitsWhile(places, code, w, p)
      BY <2>3, Zenon DEF Statement
    <3>2. CASE FitsExpression(places, code, w, p)
      BY <3>1, <3>2, ExpressionRun DEF Executes, RunAt
    <3>3. CASE FitsReturn(places, <<>>, code, w, p)
      BY <3>1, <3>3, ReturnRun DEF Executes, RunAt
    <3>4. CASE FitsIf(places, code, w, p)
      BY <3>1, <3>4, IfRun DEF Decides, RunAt
    <3>5. CASE FitsWhile(places, code, w, p)
      <4>1. <<w, p>> \in places /\ Follows(places, code, w, r)
        BY <3>1 DEF Statement
      <4>2. AtLoop(places, code, p + 1, r)
        BY <3>5, <4>1, Zenon DEF AtLoop
      <4>3. \E n : There(code, p, Instr("LABEL", n))
        BY <3>5, Zenon DEF FitsWhile
      <4> QED BY <4>2, <4>3 DEF Passes, RunAt
    <3> QED BY <3>1, <3>2, <3>3, <3>4, <3>5
  <2> QED BY <1>1, <2>1, <2>2, <2>3, PlaceCases, Zenon
<1>2. CASE AtEntry(places, fns, p, r)
  <2>1. (\E f : There(code, p, Instr("FUN", f))) /\ AtPlace(places, code, p + 1, r)
    BY <1>2, EntryRun
  <2> QED BY <2>1 DEF Passes, RunAt
<1>3. CASE AtBranch(places, code, p, c, r)
  BY <1>3 DEF AtBranch, Branches
<1>4. CASE AtLoop(places, code, p, r)
  <2>1. PICK w, q : /\ <<w, q>> \in places /\ p = q + 1
                    /\ Follows(places, code, w, r) /\ FitsWhile(places, code, w, q)
    BY <1>4 DEF AtLoop
  <2>2. IsSeq(w) /\ w # <<>> /\ q \in Nat
    BY <2>1, FollowsParts, WholeMap
  <2>3. Head(w).do = "list" /\ Head(w).arg # <<>>
    BY <2>1 DEF FitsWhile, IsStatement
  <2>4. Statement(places, code, w, q, r)
    BY <2>1, <2>2, <2>3 DEF Statement
  <2> QED BY <2>1, <2>4, LoopRun DEF Decides, RunAt
<1> QED BY <1>1, <1>2, <1>3, <1>4, Zenon DEF RunAt

-----------------------------------------------------------------------------
(* The addresses the jumps of a run get. *)

LEMMA LabelAddress ==
  ASSUME LabelInv, phase = "run", NEW p, NEW a, There(intermediate_code, p, a),
         NEW id, Marks(a, id)
  PROVE  get_label_address(id) = p
<1>1. /\ label_vector = LabelsOf(intermediate_code)
      /\ \A i, j \in DOMAIN intermediate_code :
           Marks(intermediate_code[i], id) /\ Marks(intermediate_code[j], id) => i = j
  BY DEF LabelInv, Assembled, Sound, Once
<1>2. PICK named : named = {label \in label_vector : label.id = id}
  OBVIOUS
<1>3. named = {[id |-> id, address |-> p]}
  <2>1. ASSUME NEW label \in named PROVE label = [id |-> id, address |-> p]
    BY <1>1, <1>2 DEF There, Marks, LabelsOf
  <2>2. [id |-> id, address |-> p] \in named
    BY <1>1, <1>2 DEF There, Marks, LabelsOf
  <2> QED BY <2>1, <2>2
<1>4. {label.address : label \in named} = {p}
  BY <1>3
<1>5. Min({p}) = p
  <2>1. p \in Int
    BY SeqLen DEF There, LabelInv, Shaped
  <2> QED BY <2>1 DEF Min
<1>6. get_label_address(id) = IF named = {} THEN -1 ELSE Min({label.address : label \in named})
  BY <1>2 DEF get_label_address
<1> QED BY <1>3, <1>4, <1>5, <1>6

LEMMA JumpGoes ==
  ASSUME LabelInv, phase = "run", NEW places, NEW l, NEW r,
         Reaches(places, intermediate_code, l, r)
  PROVE  AtPlace(places, intermediate_code, get_label_address(<<"Label", l>>), r)
<1>1. PICK u, p : /\ <<u, p>> \in places /\ There(intermediate_code, p, Instr("LABEL", l))
                  /\ Follows(places, intermediate_code, u, r)
  BY DEF Reaches
<1>2. Marks(Instr("LABEL", l), <<"Label", l>>)
  BY InstrMarks
<1>3. get_label_address(<<"Label", l>>) = p
  BY <1>1, <1>2, LabelAddress
<1> QED BY <1>1, <1>3, Zenon DEF AtPlace

\* The code of every function is there.
LEMMA FunctionThere ==
  ASSUME NEW places, NEW code, NEW fns, Map(places, <<>>, code, fns), NEW f \in DOMAIN fns
  PROVE  \E v, p : /\ <<v, p>> \in places /\ v # <<>>
                   /\ Head(v).do = "function" /\ Head(v).arg = f
                   /\ There(code, p, Instr("FUN", f))
<1>1. PICK v : /\ Known(places, <<>>, v) /\ v # <<>>
               /\ Head(v).do = "function" /\ Head(v).arg = f
  BY Zenon DEF Map
<1>2. PICK p : <<v, p>> \in places
  BY <1>1, WholeMap
<1>3. Fits(places, <<>>, code, fns, v, p)
  BY <1>1, <1>2, WholeMap
<1>4. There(code, p, Instr("FUN", f))
  BY <1>1, <1>3 DEF Fits, FitsFunction, FitsEmit, FitsEmpty, FitsExpression, FitsReturn, FitsIf,
                    FitsWhile, IsStatement
<1> QED BY <1>1, <1>2, <1>4

LEMMA CallGoes ==
  ASSUME LabelInv, phase = "run", NEW places,
         Map(places, <<>>, intermediate_code, functions), NEW f \in DOMAIN functions
  PROVE  AtEntry(places, functions, get_label_address(<<"function", f>>), functions[f].source)
<1>1. PICK v, p : /\ <<v, p>> \in places /\ v # <<>>
                  /\ Head(v).do = "function" /\ Head(v).arg = f
                  /\ There(intermediate_code, p, Instr("FUN", f))
  BY FunctionThere
<1>2. Marks(Instr("FUN", f), <<"function", f>>)
  BY InstrMarks
<1>3. get_label_address(<<"function", f>>) = p
  BY <1>1, <1>2, LabelAddress
<1> QED BY <1>1, <1>3, Zenon DEF AtEntry

-----------------------------------------------------------------------------
(* The code has places for everything the generator had to do. *)

Placed(places) == Map(places, work, intermediate_code, functions)

CodePlaced ==
  /\ phase = "generate" => Orderly(work, func_label)
  /\ phase # "parse" => \E places : Placed(places)

\* The functions of a program wait for their code.
LEMMA ProgramPlaced ==
  ASSUME LabelInv, ParseDone
  PROVE  Orderly(work', func_label') /\ \E places : Placed(places)'
<1>1. /\ IsSeq(functions) /\ intermediate_code = <<>> /\ UNCHANGED <<functions, intermediate_code>>
  BY DEF LabelInv, Shaped, Waiting, ParseDone, parsevars
<1>2. PICK w : w = work'
  OBVIOUS
<1>3. w = [f \in DOMAIN functions |-> [do |-> "function", arg |-> f]]
  BY <1>2 DEF ParseDone
<1>4. IsSeq(w) /\ Len(w) = Len(functions) /\ Len(functions) \in Nat
  <2>1. Len(functions) \in Nat /\ DOMAIN functions = 1..Len(functions)
    BY <1>1, SeqLen
  <2>2. PICK n : n \in Nat /\ n = Len(functions)
    BY <2>1
  <2>3. w = [f \in 1..n |-> [do |-> "function", arg |-> f]]
    BY <1>3, <2>1, <2>2
  <2>4. w \in Seq({[do |-> "function", arg |-> f] : f \in 1..n}) /\ Len(w) = n
    BY <2>2, <2>3
  <2> QED BY <2>2, <2>4 DEF IsSeq
<1>5. DOMAIN functions = 1..Len(w) /\ \A f \in 1..Len(w) : w[f] = [do |-> "function", arg |-> f]
  BY <1>1, <1>3, <1>4, SeqLen
<1>6. \A v \in Pending(w) : Head(v).do = "function"
  <2> SUFFICES ASSUME NEW v \in Tails(w), v # <<>> PROVE Head(v).do = "function"
    BY DEF Pending
  <2>1. PICK i \in 1..Len(w) : Head(v) = w[i]
    BY <1>4, SuffixByLength
  <2>2. w[i] = [do |-> "function", arg |-> i]
    BY <1>5
  <2> QED BY <2>1, <2>2
<1>7. Orderly(w, func_label')
  <2> SUFFICES ASSUME NEW v \in Pending(w), NEW u \in Pending(Tail(v))
               PROVE  Head(u).do = "function"
    BY <1>6 DEF Orderly
  <2>1. v \in Tails(w) /\ v # <<>>
    BY DEF Pending
  <2>2. u \in Tails(Tail(v)) /\ u # <<>>
    BY DEF Pending
  <2>3. IsSeq(v) /\ \A i \in 1..Len(v) : v[i].do = "function"
    <3>1. PICK k \in 1..Len(w) + 1 : v = Suffix(w, k)
      BY <2>1 DEF Tails
    <3>2. /\ IsSeq(v) /\ Len(v) = Len(w) + 1 - k
          /\ \A i \in 1..Len(w) + 1 - k : v[i] = w[k + i - 1]
      BY <1>4, <3>1, SuffixParts
    <3>3. SUFFICES ASSUME NEW i \in 1..Len(v) PROVE v[i].do = "function"
      BY <3>2
    <3>4. k + i - 1 \in 1..Len(w) /\ v[i] = w[k + i - 1]
      BY <1>4, <3>2
    <3>5. w[k + i - 1] = [do |-> "function", arg |-> k + i - 1]
      BY <1>5, <3>4
    <3> QED BY <3>4, <3>5
  <2>4. /\ IsSeq(Tail(v)) /\ Len(Tail(v)) = Len(v) - 1 /\ Len(v) \in Nat
        /\ \A i \in 1..Len(v) - 1 : Tail(v)[i] = v[i + 1]
    BY <2>1, <2>3, Split, SeqLen
  <2>5. Len(Tail(v)) + 1 - Len(u) \in 1..Len(Tail(v)) /\ Head(u) = Tail(v)[Len(Tail(v)) + 1 - Len(u)]
    BY <2>2, <2>4, SuffixByLength
  <2>6. PICK i \in 1..Len(v) - 1 : Head(u) = Tail(v)[i]
    BY <2>4, <2>5
  <2> QED BY <2>3, <2>4, <2>6
<1>8. PICK places : places = {<<w, 1>>}
  OBVIOUS
<1>9. Map(places, w, <<>>, functions)
  <2>1. \A v, p : <<v, p>> \in places <=> v = w /\ p = 1
    BY <1>8
  <2>2. Len(<<>>) + 1 = 1
    BY EmptyIsSeq
  <2>3. w # <<>> => Known(places, w, Tail(w))
    BY <1>4, TailsOfWhole, WholeIsSuffix DEF Known
  <2>4. ASSUME NEW f \in DOMAIN functions
        PROVE  \E v : /\ Known(places, w, v) /\ v # <<>>
                      /\ Head(v).do = "function" /\ Head(v).arg = f
    <3>1. f \in 1..Len(w) /\ Len(w) \in Nat /\ f \in 1..Len(w) + 1
      BY <1>4, <1>5, <2>4
    <3>2. PICK v : v = Suffix(w, f)
      OBVIOUS
    <3>3. IsSeq(v) /\ Len(v) = Len(w) + 1 - f /\ \A i \in 1..Len(w) + 1 - f : v[i] = w[f + i - 1]
      BY <1>4, <3>1, <3>2, SuffixParts
    <3>4. v # <<>> /\ Head(v) = v[1] /\ v[1] = w[f]
      <4>1. Len(v) \in Nat /\ Len(v) > 0
        BY <3>1, <3>3
      <4>2. v # <<>> /\ Head(v) = v[1]
        BY <3>3, <4>1, Split, SeqLen
      <4>3. 1 \in 1..Len(w) + 1 - f /\ f + 1 - 1 = f
        BY <3>1
      <4> QED BY <3>3, <4>2, <4>3
    <3>6. Head(v) = [do |-> "function", arg |-> f]
      BY <1>5, <3>1, <3>4
    <3>5. Known(places, w, v)
      BY <3>1, <3>2 DEF Known, Tails
    <3> QED BY <3>4, <3>5, <3>6
  <2> QED BY <1>4, <2>1, <2>2, <2>3, <2>4 DEF Map
<1>10. Placed(places)'
  BY <1>1, <1>2, <1>9 DEF Placed
<1> QED BY <1>2, <1>7, <1>10

LEMMA CodePlacedInit == Init => CodePlaced
  BY DEF Init, CodePlaced

LEMMA CodePlacedStep ==
  ASSUME LabelInv, CodePlaced, [Next]_vars
  PROVE  CodePlaced'
<1>1. CASE \/ OpenFunction \/ CloseFunction \/ SimpleStatement \/ OpenStatement
           \/ Else \/ CloseIf \/ CloseElse \/ CloseWhile
  <2>1. phase' = "parse"
    BY <1>1, ParserSteps
  <2> QED BY <2>1 DEF CodePlaced
<1>2. CASE ParseDone
  <2>1. Orderly(work', func_label') /\ \E places : Placed(places)'
    BY <1>2, ProgramPlaced
  <2> QED BY <2>1 DEF CodePlaced
<1>3. CASE \/ intermediate_code_decl_func
           \/ EmitLater
           \/ EndOfList
           \/ GenerateExpression
           \/ intermediate_code_decl_return
           \/ intermediate_code_decl_if
           \/ intermediate_code_decl_while
  <2>1. phase = "generate"
    BY <1>3 DEF intermediate_code_decl_func, EmitLater, EndOfList, GenerateExpression,
                intermediate_code_decl_return, intermediate_code_decl_if,
                intermediate_code_decl_while, Generating, create_intermediate_code
  <2>2. IsSeq(work) /\ IsSeq(intermediate_code)
    BY DEF LabelInv, Shaped
  <2>3. PICK places : Map(places, work, intermediate_code, functions)
    BY <2>1 DEF CodePlaced, Placed
  <2>4. Orderly(work, func_label)
    BY <2>1 DEF CodePlaced
  <2>5. \E newer : Map(newer, work', intermediate_code', functions')
    BY <1>3, <2>2, <2>3, <2>4, MapStep
  <2>6. Orderly(work', func_label')
    BY <1>3, <2>2, <2>4, OrderlyStep
  <2> QED BY <2>5, <2>6 DEF CodePlaced, Placed
<1>4. CASE Assemble
  <2>1. /\ phase = "generate" /\ phase' = "run"
        /\ UNCHANGED <<work, intermediate_code, functions>>
    BY <1>4 DEF Assemble, parsevars
  <2>2. PICK places : Map(places, work, intermediate_code, functions)
    BY <2>1 DEF CodePlaced, Placed
  <2>3. Map(places, work', intermediate_code', functions')
    BY <2>1, <2>2
  <2> QED BY <2>1, <2>3 DEF CodePlaced, Placed
<1>5. CASE Run \/ UNCHANGED vars
  <2>1. UNCHANGED <<phase, work, intermediate_code, functions, func_label>>
    BY <1>5, RunSteps DEF vars, parsevars, codevars
  <2> QED BY <2>1 DEF CodePlaced, Placed
<1> QED BY <1>1, <1>2, <1>3, <1>4, <1>5 DEF Next

-----------------------------------------------------------------------------
(* The inductive invariant of a run: it is at the place of what is left. *)

PlaceInv ==
  /\ phase # "run" => pc = 0
  /\ phase = "run" =>
       \E places : /\ Placed(places)
                   /\ \/ pc = 0
                      \/ RunAt(places, intermediate_code, functions, pc, condition, rest)

\* A step of a run keeps it at a place of what is left.
LEMMA RunStep ==
  ASSUME LabelInv, ParserInv, PlaceInv, Run
  PROVE  PlaceInv'
<1>1. phase = "run" /\ UNCHANGED <<phase, parsevars, codevars>>
  BY RunSteps
<1>2. work = <<>>
  BY <1>1 DEF LabelInv, Assembled
<1>3. PICK places : /\ Map(places, <<>>, intermediate_code, functions)
                    /\ \/ pc = 0
                       \/ RunAt(places, intermediate_code, functions, pc, condition, rest)
  BY <1>1, <1>2 DEF PlaceInv, Placed
<1>4. PICK code, fns, p, c, r : /\ code = intermediate_code /\ fns = functions
                                /\ p = pc /\ c = condition /\ r = rest
  OBVIOUS
<1>5. SUFFICES RunAt(places, code, fns, pc', condition', rest')
  <2>1. UNCHANGED <<phase, work, intermediate_code, functions>>
    BY <1>1 DEF parsevars, codevars
  <2>2. SUFFICES ASSUME RunAt(places, code, fns, pc', condition', rest')
                 PROVE  PlaceInv'
    OBVIOUS
  <2>3. RunAt(places, intermediate_code', functions', pc', condition', rest')
    BY <1>4, <2>1, <2>2
  <2>4. Placed(places)'
    BY <1>2, <1>3, <2>1 DEF Placed
  <2>5. phase' = "run"
    BY <1>1, <2>1
  <2> QED BY <2>3, <2>4, <2>5 DEF PlaceInv
<1>6. \A f \in DOMAIN fns : ListMatches(fns[f])
  BY <1>4 DEF ParserInv
<1>7. p = 0 => p \notin DOMAIN code
  BY <1>4, SeqLen DEF LabelInv, Shaped
<1>8. ASSUME p \in DOMAIN code
      PROVE  \/ Passes(places, code, fns, p, r)
             \/ AtJump(places, code, p, r)
             \/ Branches(places, code, p, c, r)
             \/ Executes(places, code, fns, p, r)
             \/ Decides(places, code, fns, p, r)
             \/ Ends(code, p, r)
  <2>1. RunAt(places, code, fns, p, c, r)
    BY <1>3, <1>4, <1>7, <1>8
  <2>2. Map(places, <<>>, code, fns)
    BY <1>3, <1>4
  <2> QED BY <1>6, <2>1, <2>2, RunCases
<1>9. /\ Passes(places, code, fns, p, r) => code[p].op \in {"FUN", "LABEL"}
      /\ AtJump(places, code, p, r) => code[p].op = "GOTO"
      /\ Branches(places, code, p, c, r) => code[p].op = "IFF"
      /\ Executes(places, code, fns, p, r) => code[p].op \in {"OP", "RETURN"}
      /\ Decides(places, code, fns, p, r) => code[p].op = "CONDITION"
      /\ Ends(code, p, r) => code[p].op = "END"
  BY InstrMarks DEF Passes, AtJump, Branches, Executes, Decides, Ends, There
<1>10. CASE Enter
  <2>1. PICK f \in DOMAIN functions : /\ pc' = get_label_address(<<"function", f>>)
                                      /\ rest' = functions[f].source
    BY <1>10 DEF Enter
  <2>2. AtEntry(places, functions, get_label_address(<<"function", f>>), functions[f].source)
    BY <1>1, <1>3, CallGoes
  <2> QED BY <1>4, <2>1, <2>2 DEF RunAt
<1>11. CASE Pass
  <2>1. /\ p \in DOMAIN code /\ code[p].op \in {"FUN", "LABEL"}
        /\ pc' = p + 1 /\ condition' = c /\ rest' = r
    BY <1>4, <1>11 DEF Pass, Running, Current
  <2>2. Passes(places, code, fns, p, r)
    BY <1>8, <1>9, <2>1
  <2> QED BY <2>1, <2>2 DEF Passes
<1>12. CASE Goto
  <2>1. /\ p \in DOMAIN code /\ code[p].op = "GOTO"
        /\ pc' = get_label_address(<<"Label", code[p].arg>>) /\ rest' = r
    BY <1>4, <1>12 DEF Goto, Running, Current
  <2>2. AtJump(places, code, p, r)
    BY <1>8, <1>9, <2>1
  <2>3. PICK l : There(code, p, Instr("GOTO", l)) /\ Reaches(places, code, l, r)
    BY <2>2 DEF AtJump
  <2>4. code[p].arg = l
    BY <2>3, InstrMarks DEF There
  <2>5. AtPlace(places, code, get_label_address(<<"Label", l>>), r)
    BY <1>1, <1>4, <2>3, JumpGoes
  <2> QED BY <2>1, <2>4, <2>5 DEF RunAt
<1>13. CASE Branch
  <2>1. /\ p \in DOMAIN code /\ code[p].op = "IFF" /\ rest' = r
        /\ c => pc' = p + 1
        /\ ~ c => pc' = get_label_address(<<"Label", code[p].arg>>)
    BY <1>4, <1>13 DEF Branch, Running, Current
  <2>2. Branches(places, code, p, c, r)
    BY <1>8, <1>9, <2>1
  <2>3. PICK l : /\ There(code, p, Instr("IFF", l))
                 /\ c => AtPlace(places, code, p + 1, r)
                 /\ ~ c => Reaches(places, code, l, r)
    BY <2>2 DEF Branches
  <2>4. code[p].arg = l
    BY <2>3, InstrMarks DEF There
  <2>5. Reaches(places, code, l, r) => AtPlace(places, code, get_label_address(<<"Label", l>>), r)
    BY <1>1, <1>4, JumpGoes
  <2>6. AtPlace(places, code, pc', r)
    <3>1. CASE c
      BY <2>1, <2>3, <3>1
    <3>2. CASE ~ c
      BY <2>1, <2>3, <2>4, <2>5, <3>2
    <3> QED BY <3>1, <3>2
  <2> QED BY <2>1, <2>6 DEF RunAt
<1>14. CASE Execute
  <2>1. PICK o \in BOOLEAN : /\ condition' = IF code[p].op = "CONDITION" THEN o ELSE c
                             /\ rest' = After(r, o)
    BY <1>4, <1>14 DEF Execute, Current
  <2>2. p \in DOMAIN code /\ code[p].op \in {"OP", "RETURN", "CONDITION"} /\ pc' = p + 1
    BY <1>4, <1>14 DEF Execute, Running, Current
  <2>3. CASE Executes(places, code, fns, p, r)
    BY <2>1, <2>2, <2>3 DEF Executes
  <2>4. CASE Decides(places, code, fns, p, r)
    <3>1. condition' = o
      BY <1>9, <2>1, <2>4
    <3> QED BY <2>1, <2>2, <2>4, <3>1 DEF Decides
  <2> QED BY <1>8, <1>9, <2>2, <2>3, <2>4
<1> QED BY <1>10, <1>11, <1>12, <1>13, <1>14 DEF Run

LEMMA PlaceInit == Init => PlaceInv
  BY DEF Init, PlaceInv

LEMMA PlaceStep ==
  ASSUME LabelInv, ParserInv, CodePlaced, PlaceInv, [Next]_vars
  PROVE  PlaceInv'
<1>1. CASE UNCHANGED vars
  BY <1>1 DEF PlaceInv, Placed, vars, parsevars, codevars, runvars
<1>2. CASE \/ OpenFunction \/ CloseFunction \/ SimpleStatement \/ OpenStatement
           \/ Else \/ CloseIf \/ CloseElse \/ CloseWhile
  <2>1. phase = "parse" /\ UNCHANGED <<phase, runvars>>
    BY <1>2, ParserSteps
  <2> QED BY <2>1 DEF PlaceInv, runvars
<1>3. CASE ParseDone
  <2>1. phase = "parse" /\ phase' = "generate" /\ UNCHANGED pc
    BY <1>3 DEF ParseDone, runvars
  <2> QED BY <2>1 DEF PlaceInv
<1>4. CASE \/ intermediate_code_decl_func
           \/ EmitLater
           \/ EndOfList
           \/ GenerateExpression
           \/ intermediate_code_decl_return
           \/ intermediate_code_decl_if
           \/ intermediate_code_decl_while
  <2>1. phase = "generate" /\ UNCHANGED <<phase, runvars>>
    BY <1>4 DEF intermediate_code_decl_func, EmitLater, EndOfList, GenerateExpression,
                intermediate_code_decl_return, intermediate_code_decl_if,
                intermediate_code_decl_while, Generating, create_intermediate_code
  <2> QED BY <2>1 DEF PlaceInv, runvars
<1>5. CASE Assemble
  <2>1. /\ phase = "generate" /\ phase' = "run"
        /\ UNCHANGED <<work, intermediate_code, functions, pc>>
    BY <1>5 DEF Assemble, parsevars, runvars
  <2>2. PICK places : Map(places, work, intermediate_code, functions)
    BY <2>1 DEF CodePlaced, Placed
  <2>3. pc' = 0
    BY <2>1 DEF PlaceInv
  <2>4. Map(places, work', intermediate_code', functions')
    BY <2>1, <2>2
  <2> QED BY <2>1, <2>3, <2>4 DEF PlaceInv, Placed
<1>6. CASE Run
  BY <1>6, RunStep
<1> QED BY <1>1, <1>2, <1>3, <1>4, <1>5, <1>6 DEF Next

LEMMA PlacedFollows ==
  ASSUME LabelInv, ParserInv, PlaceInv
  PROVE  FollowsSource
<1>1. SUFFICES ASSUME phase = "run", pc # 0
               PROVE  /\ Current.op \in {"OP", "RETURN"} =>
                           rest # <<>> /\ Current = Instr(Head(rest).op, Head(rest).id)
                      /\ Current.op = "CONDITION" =>
                           /\ rest # <<>> /\ Head(rest).op \in {"IF", "WHILE"}
                           /\ Head(rest).id = Current.arg
                      /\ Current.op = "END" => rest = <<>>
  BY DEF FollowsSource
<1>2. work = <<>>
  BY <1>1 DEF LabelInv, Assembled
<1>3. PICK places : /\ Map(places, <<>>, intermediate_code, functions)
                    /\ RunAt(places, intermediate_code, functions, pc, condition, rest)
  BY <1>1, <1>2 DEF PlaceInv, Placed
<1>4. \A f \in DOMAIN functions : ListMatches(functions[f])
  BY DEF ParserInv
<1>5. \/ Passes(places, intermediate_code, functions, pc, rest)
      \/ AtJump(places, intermediate_code, pc, rest)
      \/ Branches(places, intermediate_code, pc, condition, rest)
      \/ Executes(places, intermediate_code, functions, pc, rest)
      \/ Decides(places, intermediate_code, functions, pc, rest)
      \/ Ends(intermediate_code, pc, rest)
  BY <1>3, <1>4, RunCases
<1>6. \A op, k : Instr(op, k).op = op /\ Instr(op, k).arg = k
  BY InstrMarks
<1> QED BY <1>5, <1>6 DEF Passes, AtJump, Branches, Executes, Decides, Ends, There, Current

\* Whatever the functions of a program and however deep its statements are
\* nested, its code runs the statements and the conditions the source has next,
\* in its order, and ends where the source ends: if and else, loops left and
\* entered again, returns from within (codeGen.c create_intermediate_code and
\* intermediate_code_decl_*, label.c get_label_address).  An if whose first
\* statement is empty is left out: tree.c add_child would move its else up.
THEOREM RunsFollowSource ==
  ASSUME EmptyThen = FALSE
  PROVE  Spec => []FollowsSource
<1> DEFINE Inv == LabelInv /\ ParserInv /\ CodePlaced /\ PlaceInv
<1>1. Init => Inv
  BY LabelInit, ParserInit, CodePlacedInit, PlaceInit
<1>2. Inv /\ [Next]_vars => Inv'
  BY LabelStep, ParserStep, CodePlacedStep, PlaceStep
<1>3. Inv => FollowsSource
  BY PlacedFollows
<1> QED BY <1>1, <1>2, <1>3, PTL DEF Spec

-----------------------------------------------------------------------------
(* Types, and how many labels a program takes: two for each statement and    *)
(* one for each function.  The statements of a list are counted as trees are *)
(* compared, by a set of pairs that is closed: with a list and a number it   *)
(* has those of its first node's children and of its tail.                   *)

CountedIn(pairs, t, n) ==
  \E a, b, c \in Nat :
    /\ <<Child(Head(t), 1), a>> \in pairs /\ <<Child(Head(t), 2), b>> \in pairs
    /\ <<Tail(t), c>> \in pairs
    /\ n >= 1 + a + b + c

Counts(pairs) ==
  \A t, n : <<t, n>> \in pairs =>
    /\ IsSeq(t) /\ n \in Nat
    /\ \A i \in 1..Len(t) : IsTree(t[i])
    /\ t # <<>> => CountedIn(pairs, t, n)

\* A list has at most n statements, those in its statements included.
AtMost(t, n) == \E pairs : Counts(pairs) /\ <<t, n>> \in pairs

NodeAtMost(node, n) ==
  /\ IsTree(node)
  /\ \E a, b \in Nat :
       AtMost(Child(node, 1), a) /\ AtMost(Child(node, 2), b) /\ n >= 1 + a + b

LEMMA AtMostParts ==
  ASSUME NEW t, NEW n, AtMost(t, n)
  PROVE  /\ IsSeq(t) /\ n \in Nat
         /\ \A i \in 1..Len(t) : IsTree(t[i])
         /\ t # <<>> => \E a, b, c \in Nat :
              /\ AtMost(Child(Head(t), 1), a) /\ AtMost(Child(Head(t), 2), b)
              /\ AtMost(Tail(t), c) /\ n >= 1 + a + b + c
<1>1. PICK pairs : Counts(pairs) /\ <<t, n>> \in pairs
  BY DEF AtMost
<1>2. /\ IsSeq(t) /\ n \in Nat
      /\ \A i \in 1..Len(t) : IsTree(t[i])
      /\ t # <<>> => CountedIn(pairs, t, n)
  BY <1>1, Zenon DEF Counts
<1>3. ASSUME t # <<>>
      PROVE  \E a, b, c \in Nat :
               /\ AtMost(Child(Head(t), 1), a) /\ AtMost(Child(Head(t), 2), b)
               /\ AtMost(Tail(t), c) /\ n >= 1 + a + b + c
  BY <1>1, <1>2, <1>3, Zenon DEF CountedIn, AtMost
<1> QED BY <1>2, <1>3

LEMMA CountsUnion ==
  ASSUME NEW P, Counts(P), NEW Q, Counts(Q)
  PROVE  Counts(P \cup Q)
<1> SUFFICES ASSUME NEW t, NEW n, <<t, n>> \in P \cup Q
             PROVE  /\ IsSeq(t) /\ n \in Nat
                    /\ \A i \in 1..Len(t) : IsTree(t[i])
                    /\ t # <<>> => CountedIn(P \cup Q, t, n)
  BY Zenon DEF Counts
<1>1. PICK R \in {P, Q} : <<t, n>> \in R
  OBVIOUS
<1>2. /\ IsSeq(t) /\ n \in Nat
      /\ \A i \in 1..Len(t) : IsTree(t[i])
      /\ t # <<>> => CountedIn(R, t, n)
  BY <1>1, Zenon DEF Counts
<1>3. t # <<>> => CountedIn(P \cup Q, t, n)
  BY <1>2 DEF CountedIn
<1> QED BY <1>2, <1>3

LEMMA EmptyCounts == Counts({<<<<>>, 0>>})
<1>1. IsSeq(<<>>) /\ 1..Len(<<>>) = {}
  BY EmptyIsSeq
<1> QED BY <1>1 DEF Counts

LEMMA EmptyAtMost == AtMost(<<>>, 0)
BY EmptyCounts DEF AtMost

\* What a list is after a statement is added.
LEMMA AppendedList ==
  ASSUME NEW t, IsSeq(t), NEW x
  PROVE  /\ IsSeq(Append(t, x)) /\ Append(t, x) # <<>>
         /\ \A i \in 1..Len(Append(t, x)) :
              Append(t, x)[i] = x \/ (i \in 1..Len(t) /\ Append(t, x)[i] = t[i])
         /\ t = <<>> => Head(Append(t, x)) = x /\ Tail(Append(t, x)) = <<>>
         /\ t # <<>> => Head(Append(t, x)) = Head(t) /\ Tail(Append(t, x)) = Append(Tail(t), x)
<1>1. PICK new : new = Append(t, x)
  OBVIOUS
<1>2. /\ IsSeq(new) /\ Len(new) = Len(t) + 1 /\ \A i \in 1..Len(t) : new[i] = t[i]
      /\ new[Len(t) + 1] = x
  BY <1>1, AppendParts
<1>3. Len(t) \in Nat /\ new # <<>>
  BY <1>2, SeqLen
<1>4. ASSUME NEW i \in 1..Len(new) PROVE new[i] = x \/ (i \in 1..Len(t) /\ new[i] = t[i])
  <2>1. i = Len(t) + 1 \/ i \in 1..Len(t)
    BY <1>2, <1>3
  <2> QED BY <1>2, <2>1
<1>5. /\ IsSeq(Tail(new)) /\ Len(Tail(new)) = Len(t) /\ Head(new) = new[1]
      /\ \A i \in 1..Len(t) : Tail(new)[i] = new[i + 1]
  <2>1. /\ IsSeq(Tail(new)) /\ Len(Tail(new)) = Len(new) - 1 /\ Head(new) = new[1]
        /\ \A i \in 1..Len(new) - 1 : Tail(new)[i] = new[i + 1]
    BY <1>2, <1>3, Split
  <2>2. Len(new) - 1 = Len(t)
    BY <1>2, <1>3
  <2> QED BY <2>1, <2>2
<1>6. ASSUME t = <<>> PROVE Head(new) = x /\ Tail(new) = <<>>
  <2>1. Len(t) = 0
    BY <1>6, EmptyIsSeq
  <2>2. Head(new) = x
    BY <1>2, <1>5, <2>1
  <2>3. Tail(new) = <<>>
    BY <1>5, <2>1, SeqLen
  <2> QED BY <2>2, <2>3
<1>7. ASSUME t # <<>> PROVE Head(new) = Head(t) /\ Tail(new) = Append(Tail(t), x)
  <2>1. PICK r : r = Tail(t)
    OBVIOUS
  <2>2. /\ IsSeq(r) /\ Len(r) = Len(t) - 1 /\ Head(t) = t[1]
        /\ \A i \in 1..Len(t) - 1 : r[i] = t[i + 1]
    BY <1>7, <2>1, Split
  <2>3. Len(t) > 0
    BY <1>3, <1>7, SeqLen
  <2>4. Head(new) = Head(t)
    BY <1>2, <1>3, <1>5, <2>2, <2>3
  <2>5. PICK more : more = Append(r, x)
    OBVIOUS
  <2>6. /\ IsSeq(more) /\ Len(more) = Len(r) + 1 /\ \A i \in 1..Len(r) : more[i] = r[i]
        /\ more[Len(r) + 1] = x
    BY <2>2, <2>5, AppendParts
  <2>7. ASSUME NEW i \in 1..Len(more) PROVE more[i] = Tail(new)[i]
    <3>1. Tail(new)[i] = new[i + 1]
      BY <1>3, <1>5, <2>2, <2>6
    <3>2. CASE i = Len(t)
      BY <1>2, <1>3, <2>2, <2>6, <3>1, <3>2
    <3>3. CASE i # Len(t)
      <4>1. i \in 1..Len(t) - 1 /\ i + 1 \in 1..Len(t)
        BY <1>3, <2>2, <2>6, <3>3
      <4> QED BY <1>2, <2>2, <2>6, <3>1, <4>1
    <3> QED BY <3>2, <3>3
  <2>8. Len(more) = Len(Tail(new))
    BY <1>3, <1>5, <2>2, <2>6
  <2>9. more = Tail(new)
    BY <1>5, <2>6, <2>7, <2>8, SameSeq
  <2> QED BY <2>1, <2>4, <2>5, <2>9
<1> QED BY <1>1, <1>2, <1>3, <1>4, <1>6, <1>7

LEMMA AtMostAppend ==
  ASSUME NEW t, NEW n, AtMost(t, n), NEW node, NEW d \in Nat, NodeAtMost(node, d)
  PROVE  AtMost(Append(t, node), n + d)
<1>1. PICK P : Counts(P) /\ <<t, n>> \in P
  BY DEF AtMost
<1>2. PICK a \in Nat, b \in Nat :
        /\ AtMost(Child(node, 1), a) /\ AtMost(Child(node, 2), b) /\ d >= 1 + a + b
  BY DEF NodeAtMost
<1>3. PICK A, B : /\ Counts(A) /\ <<Child(node, 1), a>> \in A
                  /\ Counts(B) /\ <<Child(node, 2), b>> \in B
  BY <1>2, Zenon DEF AtMost
<1>4. PICK E : E = {<<<<>>, 0>>}
  OBVIOUS
<1>5. PICK old : old = (A \cup B) \cup E
  OBVIOUS
<1>6. Counts(old)
  BY <1>3, <1>4, <1>5, CountsUnion, EmptyCounts
<1>7. /\ <<Child(node, 1), a>> \in old /\ <<Child(node, 2), b>> \in old
      /\ <<<<>>, 0>> \in old
  BY <1>3, <1>4, <1>5
<1>8. PICK whole : whole = P \cup old
  OBVIOUS
<1>9. Counts(whole) /\ P \subseteq whole /\ old \subseteq whole
  BY <1>1, <1>6, <1>8, CountsUnion
<1>a. PICK longer : longer = {<<Append(p[1], node), p[2] + d>> :
                                p \in {q \in P : \E s, m : q = <<s, m>>}}
  OBVIOUS
<1>b. PICK all : all = whole \cup longer
  OBVIOUS
<1>10. ASSUME NEW s, NEW m, <<s, m>> \in P PROVE <<Append(s, node), m + d>> \in longer
  <2>1. PICK p : p = <<s, m>>
    OBVIOUS
  <2>2. p \in {q \in P : \E r, k : q = <<r, k>>} /\ p[1] = s /\ p[2] = m
    BY <1>10, <2>1
  <2> QED BY <1>a, <2>2
<1>11. ASSUME NEW p \in longer
       PROVE  \E s, m : <<s, m>> \in P /\ p = <<Append(s, node), m + d>>
  <2>1. PICK q \in P : p = <<Append(q[1], node), q[2] + d>> /\ \E s, m : q = <<s, m>>
    BY <1>a, <1>11
  <2>2. PICK s, m : q = <<s, m>>
    BY <2>1
  <2>3. q[1] = s /\ q[2] = m
    BY <2>2
  <2> QED BY <2>1, <2>2, <2>3, Zenon
<1>12. Counts(all)
  <2> SUFFICES ASSUME NEW u, NEW k, <<u, k>> \in all
               PROVE  /\ IsSeq(u) /\ k \in Nat
                      /\ \A i \in 1..Len(u) : IsTree(u[i])
                      /\ u # <<>> => CountedIn(all, u, k)
    BY Zenon DEF Counts
  <2>1. CASE <<u, k>> \in whole
    <3>1. /\ IsSeq(u) /\ k \in Nat
          /\ \A i \in 1..Len(u) : IsTree(u[i])
          /\ u # <<>> => CountedIn(whole, u, k)
      BY <1>9, <2>1, Zenon DEF Counts
    <3>2. u # <<>> => CountedIn(all, u, k)
      BY <1>b, <3>1 DEF CountedIn
    <3> QED BY <3>1, <3>2
  <2>2. CASE <<u, k>> \in longer
    <3>1. PICK s, m : <<s, m>> \in P /\ u = Append(s, node) /\ k = m + d
      <4>1. PICK s, m : <<s, m>> \in P /\ <<u, k>> = <<Append(s, node), m + d>>
        BY <1>11, <2>2
      <4> QED BY <4>1
    <3>2. /\ IsSeq(s) /\ m \in Nat
          /\ \A i \in 1..Len(s) : IsTree(s[i])
          /\ s # <<>> => CountedIn(P, s, m)
      BY <1>1, <3>1, Zenon DEF Counts
    <3>3. /\ IsSeq(u)
          /\ \A i \in 1..Len(u) : u[i] = node \/ (i \in 1..Len(s) /\ u[i] = s[i])
          /\ s = <<>> => Head(u) = node /\ Tail(u) = <<>>
          /\ s # <<>> => Head(u) = Head(s) /\ Tail(u) = Append(Tail(s), node)
      BY <3>1, <3>2, AppendedList
    <3>4. \A i \in 1..Len(u) : IsTree(u[i])
      BY <3>2, <3>3 DEF NodeAtMost
    <3>5. k \in Nat /\ k >= d
      BY <3>1, <3>2
    <3>6. ASSUME s = <<>> PROVE CountedIn(all, u, k)
      <4>1. k >= 1 + a + b + 0
        BY <1>2, <3>1, <3>2
      <4>2. /\ <<Child(Head(u), 1), a>> \in all /\ <<Child(Head(u), 2), b>> \in all
            /\ <<Tail(u), 0>> \in all
        BY <1>7, <1>9, <1>b, <3>3, <3>6
      <4> QED BY <4>1, <4>2 DEF CountedIn
    <3>7. ASSUME s # <<>> PROVE CountedIn(all, u, k)
      <4>1. PICK e \in Nat, f \in Nat, g \in Nat :
              /\ <<Child(Head(s), 1), e>> \in P /\ <<Child(Head(s), 2), f>> \in P
              /\ <<Tail(s), g>> \in P
              /\ m >= 1 + e + f + g
        BY <3>2, <3>7 DEF CountedIn
      <4>2. <<Append(Tail(s), node), g + d>> \in all
        BY <1>10, <1>b, <4>1
      <4>3. g + d \in Nat /\ k >= 1 + e + f + (g + d)
        BY <3>1, <3>2, <4>1
      <4>4. /\ <<Child(Head(u), 1), e>> \in all /\ <<Child(Head(u), 2), f>> \in all
            /\ <<Tail(u), g + d>> \in all
        BY <1>9, <1>b, <3>3, <3>7, <4>1, <4>2
      <4> QED BY <4>1, <4>3, <4>4 DEF CountedIn
    <3> QED BY <3>3, <3>4, <3>5, <3>6, <3>7
  <2> QED BY <1>b, <2>1, <2>2
<1>13. <<Append(t, node), n + d>> \in all
  BY <1>1, <1>10, <1>b
<1> QED BY <1>12, <1>13, Zenon DEF AtMost

\* Two lists as the children of a node, the second in the place of an empty first.
ChildAt(children, i) == IF i <= Len(children) THEN children[i] ELSE <<>>

HoldsBoth(children, x, y) ==
  /\ Len(children) <= 2
  /\ \/ ChildAt(children, 1) = x /\ ChildAt(children, 2) = y
     \/ ChildAt(children, 1) = y /\ ChildAt(children, 2) = <<>>

LEMMA ChildrenAdded ==
  ASSUME NEW x, NEW y
  PROVE  HoldsBoth(add_child(add_child(<<>>, x), y), x, y)
<1>0. PICK c : c = add_child(add_child(<<>>, x), y)
  OBVIOUS
<1> SUFFICES HoldsBoth(c, x, y)
  BY <1>0
<1>1. \A z : Append(<<>>, z) = One(z) /\ Len(One(z)) = 1 /\ One(z)[1] = z
  BY AppendToEmpty, OneItem
<1>2. CASE x = <<>>
  <2>1. CASE y = <<>>
    <3>1. c = <<>> /\ Len(<<>>) = 0
      BY <1>0, <1>2, <2>1, EmptyIsSeq DEF add_child
    <3> QED BY <1>2, <2>1, <3>1 DEF HoldsBoth, ChildAt
  <2>2. CASE y # <<>>
    <3>1. c = One(y)
      BY <1>0, <1>1, <1>2, <2>2 DEF add_child
    <3>2. Len(c) = 1 /\ c[1] = y
      BY <1>1, <3>1
    <3>3. ChildAt(c, 1) = y /\ ChildAt(c, 2) = <<>>
      BY <3>2 DEF HoldsBoth, ChildAt
    <3>4. Len(c) <= 2
      BY <3>2
    <3> QED BY <1>2, <2>2, <3>3, <3>4 DEF HoldsBoth
  <2> QED BY <2>1, <2>2
<1>3. CASE x # <<>>
  <2>1. CASE y = <<>>
    <3>1. c = One(x)
      BY <1>0, <1>1, <1>3, <2>1 DEF add_child
    <3>2. Len(c) = 1 /\ c[1] = x
      BY <1>1, <3>1
    <3> QED BY <2>1, <3>2 DEF HoldsBoth, ChildAt
  <2>2. CASE y # <<>>
    <3>1. c = Append(One(x), y)
      BY <1>0, <1>1, <1>3, <2>2 DEF add_child
    <3>2. PICK o : o = One(x)
      OBVIOUS
    <3>3. IsSeq(o) /\ Len(o) = 1 /\ o[1] = x
      BY <3>2, OneItem
    <3>4. /\ Len(Append(o, y)) = Len(o) + 1
          /\ \A i \in 1..Len(o) : Append(o, y)[i] = o[i]
          /\ Append(o, y)[Len(o) + 1] = y
      BY <3>3, AppendParts
    <3>5. Len(Append(o, y)) = 2 /\ Append(o, y)[1] = x /\ Append(o, y)[2] = y
      BY <3>3, <3>4
    <3>6. Len(c) = 2 /\ c[1] = x /\ c[2] = y
      BY <3>1, <3>2, <3>5
    <3>7. ChildAt(c, 1) = x /\ ChildAt(c, 2) = y
      BY <3>6 DEF HoldsBoth, ChildAt
    <3>8. Len(c) <= 2
      BY <3>6
    <3> QED BY <3>7, <3>8 DEF HoldsBoth
  <2> QED BY <2>1, <2>2
<1> QED BY <1>2, <1>3

LEMMA LeafAtMost ==
  ASSUME NEW op \in {"OP", "RETURN"}, NEW id \in 1..MaxStatements
  PROVE  NodeAtMost(Leaf(op, id).tree, 1)
<1>1. PICK node : node = Leaf(op, id).tree
  OBVIOUS
<1>2. node.op = op /\ node.id = id /\ node.children = <<>>
  BY <1>1 DEF Leaf
<1>3. Len(<<>>) = 0
  BY EmptyIsSeq
<1>4. Child(node, 1) = <<>> /\ Child(node, 2) = <<>> /\ IsTree(node)
  BY <1>2, <1>3 DEF Child, IsTree
<1> QED BY <1>1, <1>4, EmptyAtMost DEF NodeAtMost

LEMMA CompoundAtMost ==
  ASSUME NEW op \in {"IF", "WHILE"}, NEW id \in 1..MaxStatements, NEW first, NEW second,
         NEW a \in Nat, AtMost(first.tree, a), NEW b \in Nat, AtMost(second.tree, b)
  PROVE  NodeAtMost(Compound(op, id, first, second).tree, 1 + a + b)
<1>1. PICK node : node = Compound(op, id, first, second).tree
  OBVIOUS
<1>2. /\ node.op = op /\ node.id = id
      /\ node.children = add_child(add_child(<<>>, first.tree), second.tree)
  BY <1>1 DEF Compound
<1>3. PICK x, y : x = first.tree /\ y = second.tree
  OBVIOUS
<1>4. HoldsBoth(node.children, x, y)
  BY <1>2, <1>3, ChildrenAdded
<1>5. IsTree(node)
  BY <1>2, <1>4 DEF IsTree, HoldsBoth
<1>6. \E c, d \in Nat :
        AtMost(Child(node, 1), c) /\ AtMost(Child(node, 2), d) /\ 1 + a + b >= 1 + c + d
  <2>1. CASE Child(node, 1) = x /\ Child(node, 2) = y
    BY <1>3, <2>1
  <2>2. CASE Child(node, 1) = y /\ Child(node, 2) = <<>>
    <3>1. AtMost(Child(node, 1), b) /\ AtMost(Child(node, 2), 0) /\ 1 + a + b >= 1 + b + 0
      BY <1>3, <2>2, EmptyAtMost
    <3> QED BY <3>1
  <2> QED BY <1>4, <2>1, <2>2 DEF HoldsBoth, ChildAt, Child
<1> QED BY <1>1, <1>5, <1>6 DEF NodeAtMost

-----------------------------------------------------------------------------
\* A statement not yet complete counts too; a function is none.
Kinds == {"function", "then", "else", "while"}

FrameAtMost(frame, n) ==
  /\ frame = [kind |-> frame.kind, id |-> frame.id, first |-> frame.first, list |-> frame.list]
  /\ frame.kind \in Kinds
  /\ frame.kind # "function" => frame.id \in 1..MaxStatements
  /\ \E a, b \in Nat :
       /\ AtMost(frame.list.tree, a) /\ AtMost(frame.first.tree, b)
       /\ n >= a + b + IF frame.kind = "function" THEN 0 ELSE 1

FramesCount(pairs) ==
  \A frames, n : <<frames, n>> \in pairs =>
    /\ IsSeq(frames) /\ n \in Nat
    /\ \A i \in 1..Len(frames) : frames[i].kind \in Kinds
    /\ frames # <<>> =>
         \E m, a \in Nat : /\ <<Front(frames), m>> \in pairs
                           /\ FrameAtMost(frames[Len(frames)], a) /\ n >= m + a

FramesAtMost(frames, n) == \E pairs : FramesCount(pairs) /\ <<frames, n>> \in pairs

LEMMA NoFrames == FramesAtMost(<<>>, 0)
<1>1. IsSeq(<<>>) /\ 1..Len(<<>>) = {}
  BY EmptyIsSeq
<1>2. FramesCount({<<<<>>, 0>>})
  BY <1>1 DEF FramesCount
<1> QED BY <1>2 DEF FramesAtMost

LEMMA FramesParts ==
  ASSUME NEW frames, NEW n, FramesAtMost(frames, n)
  PROVE  /\ IsSeq(frames) /\ n \in Nat
         /\ \A i \in 1..Len(frames) : frames[i].kind \in Kinds
         /\ frames # <<>> =>
              \E m, a \in Nat : /\ FramesAtMost(Front(frames), m)
                                /\ FrameAtMost(frames[Len(frames)], a) /\ n >= m + a
<1>1. PICK pairs : FramesCount(pairs) /\ <<frames, n>> \in pairs
  BY DEF FramesAtMost
<1>2. /\ IsSeq(frames) /\ n \in Nat
      /\ \A i \in 1..Len(frames) : frames[i].kind \in Kinds
      /\ frames # <<>> =>
           \E m, a \in Nat : /\ <<Front(frames), m>> \in pairs
                             /\ FrameAtMost(frames[Len(frames)], a) /\ n >= m + a
  BY <1>1, Zenon DEF FramesCount
<1> QED BY <1>1, <1>2, Zenon DEF FramesAtMost

LEMMA FrontOfAppend ==
  ASSUME NEW s, IsSeq(s), NEW x
  PROVE  /\ IsSeq(Append(s, x)) /\ Append(s, x) # <<>> /\ Len(Append(s, x)) = Len(s) + 1
         /\ Append(s, x)[Len(s) + 1] = x /\ Front(Append(s, x)) = s
<1>1. PICK new : new = Append(s, x)
  OBVIOUS
<1>2. /\ IsSeq(new) /\ Len(new) = Len(s) + 1 /\ new[Len(s) + 1] = x
      /\ \A i \in 1..Len(s) : new[i] = s[i]
  BY <1>1, AppendParts
<1>3. Len(s) \in Nat /\ new # <<>>
  BY <1>2, SeqLen
<1>4. PICK S : new \in Seq(S)
  BY <1>2 DEF IsSeq
<1>5. PICK front : front = SubSeq(new, 1, Len(s))
  OBVIOUS
<1>6. front \in Seq(S) /\ Len(front) = Len(s) /\ \A i \in 1..Len(s) : front[i] = new[i]
  BY <1>2, <1>3, <1>4, <1>5
<1>7. front = s
  <2>1. IsSeq(front) /\ \A i \in 1..Len(front) : front[i] = s[i]
    BY <1>2, <1>6 DEF IsSeq
  <2> QED BY <1>6, <2>1, SameSeq
<1>8. Front(new) = front
  <2>1. Len(new) - 1 = Len(s)
    BY <1>2, <1>3
  <2> QED BY <1>5, <2>1 DEF Front
<1> QED BY <1>1, <1>2, <1>3, <1>7, <1>8

LEMMA FramesPush ==
  ASSUME NEW frames, NEW m, FramesAtMost(frames, m),
         NEW frame, NEW a \in Nat, FrameAtMost(frame, a)
  PROVE  FramesAtMost(Append(frames, frame), m + a)
<1>1. PICK pairs : FramesCount(pairs) /\ <<frames, m>> \in pairs
  BY DEF FramesAtMost
<1>2. PICK new : new = Append(frames, frame)
  OBVIOUS
<1>3. /\ IsSeq(frames) /\ m \in Nat
      /\ \A i \in 1..Len(frames) : frames[i].kind \in Kinds
  BY FramesParts
<1>4. /\ IsSeq(new) /\ new # <<>> /\ Len(new) = Len(frames) + 1
      /\ new[Len(frames) + 1] = frame /\ Front(new) = frames
  BY <1>2, <1>3, FrontOfAppend
<1>5. \A i \in 1..Len(new) : new[i].kind \in Kinds
  <2>1. \A i \in 1..Len(new) : new[i] = frame \/ (i \in 1..Len(frames) /\ new[i] = frames[i])
    BY <1>2, <1>3, AppendedList
  <2> QED BY <1>3, <2>1 DEF FrameAtMost
<1>6. PICK all : all = pairs \cup {<<new, m + a>>}
  OBVIOUS
<1>7. FramesCount(all)
  <2> SUFFICES ASSUME NEW fs, NEW n, <<fs, n>> \in all
               PROVE  /\ IsSeq(fs) /\ n \in Nat
                      /\ \A i \in 1..Len(fs) : fs[i].kind \in Kinds
                      /\ fs # <<>> =>
                           \E l, b \in Nat : /\ <<Front(fs), l>> \in all
                                             /\ FrameAtMost(fs[Len(fs)], b) /\ n >= l + b
    BY Zenon DEF FramesCount
  <2>1. CASE <<fs, n>> \in pairs
    <3>1. /\ IsSeq(fs) /\ n \in Nat
          /\ \A i \in 1..Len(fs) : fs[i].kind \in Kinds
          /\ fs # <<>> =>
               \E l, b \in Nat : /\ <<Front(fs), l>> \in pairs
                                 /\ FrameAtMost(fs[Len(fs)], b) /\ n >= l + b
      BY <1>1, <2>1, Zenon DEF FramesCount
    <3> QED BY <1>6, <3>1
  <2>2. CASE <<fs, n>> = <<new, m + a>>
    <3>1. fs = new /\ n = m + a
      BY <2>2
    <3>2. <<Front(fs), m>> \in all /\ FrameAtMost(fs[Len(fs)], a) /\ n >= m + a /\ n \in Nat
      BY <1>1, <1>3, <1>4, <1>6, <3>1
    <3> QED BY <1>3, <1>4, <1>5, <3>1, <3>2
  <2> QED BY <1>6, <2>1, <2>2
<1>8. <<new, m + a>> \in all
  BY <1>6
<1> QED BY <1>2, <1>7, <1>8, Zenon DEF FramesAtMost

\* The last frame, with a statement added to its list.
Grown(frame, node) == [frame EXCEPT !.list = add_sibling(@, node)]

LEMMA AddToIsLast ==
  ASSUME NEW frames, IsSeq(frames), frames # <<>>, NEW node
  PROVE  AddTo(frames, node) = Append(Front(frames), Grown(frames[Len(frames)], node))
<1>1. PICK n, s : n = Len(frames) /\ s = frames
  OBVIOUS
<1>2. PICK last : last = Grown(s[n], node)
  OBVIOUS
<1>3. PICK new : new = AddTo(s, node)
  OBVIOUS
<1>4. n \in Nat /\ n > 0 /\ DOMAIN s = 1..n
  BY <1>1, SeqLen
<1>5. new = [s EXCEPT ![n] = last]
  BY <1>1, <1>2, <1>3 DEF AddTo, Grown
<1>6. PICK S : s \in Seq(S)
  BY <1>1 DEF IsSeq
<1>7. \A k \in 1..n : s[k] \in S
  BY <1>4, <1>6
<1>8. new \in [1..n -> S \cup {last}]
  BY <1>4, <1>5, <1>7
<1>9. new \in Seq(S \cup {last}) /\ Len(new) = n
  BY <1>4, <1>8
<1>10. PICK front : front = SubSeq(s, 1, n - 1)
  OBVIOUS
<1>11. front \in Seq(S) /\ Len(front) = n - 1 /\ \A k \in 1..n - 1 : front[k] = s[k]
  BY <1>1, <1>4, <1>6, <1>10
<1>12. IsSeq(front) /\ IsSeq(new)
  BY <1>9, <1>11 DEF IsSeq
<1>13. PICK longer : longer = Append(front, last)
  OBVIOUS
<1>14. /\ IsSeq(longer) /\ Len(longer) = Len(front) + 1
       /\ \A k \in 1..Len(front) : longer[k] = front[k]
       /\ longer[Len(front) + 1] = last
  BY <1>12, <1>13, AppendParts
<1>15. ASSUME NEW k \in 1..Len(new) PROVE new[k] = longer[k]
  <2>1. CASE k = n
    BY <1>4, <1>5, <1>11, <1>14, <2>1
  <2>2. CASE k # n
    <3>1. k \in 1..n - 1
      BY <1>4, <1>9, <2>2
    <3> QED BY <1>4, <1>5, <1>11, <1>14, <2>2, <3>1
  <2> QED BY <2>1, <2>2
<1>16. new = longer
  <2>1. Len(new) = Len(longer)
    BY <1>4, <1>9, <1>11, <1>14
  <2> QED BY <1>12, <1>14, <1>15, <2>1, SameSeq
<1>17. front = Front(s)
  BY <1>1, <1>10 DEF Front
<1> QED BY <1>1, <1>2, <1>3, <1>13, <1>16, <1>17

LEMMA FrameGrows ==
  ASSUME NEW frame, NEW a \in Nat, FrameAtMost(frame, a),
         NEW node, NEW d \in Nat, NodeAtMost(node.tree, d)
  PROVE  FrameAtMost(Grown(frame, node), a + d)
<1>1. PICK b \in Nat, c \in Nat :
        /\ AtMost(frame.list.tree, b) /\ AtMost(frame.first.tree, c)
        /\ a >= b + c + IF frame.kind = "function" THEN 0 ELSE 1
  BY DEF FrameAtMost
<1>2. PICK new, more : new = Grown(frame, node) /\ more = add_sibling(frame.list, node)
  OBVIOUS
<1>3. /\ frame = [kind |-> frame.kind, id |-> frame.id, first |-> frame.first,
                  list |-> frame.list]
      /\ frame.kind \in Kinds /\ (frame.kind # "function" => frame.id \in 1..MaxStatements)
  BY DEF FrameAtMost
<1>4. new = [kind |-> frame.kind, id |-> frame.id, first |-> frame.first, list |-> more]
  BY <1>2, <1>3 DEF Grown
<1>5. more.tree = Append(frame.list.tree, node.tree)
  BY <1>2 DEF add_sibling
<1>6. AtMost(more.tree, b + d)
  BY <1>1, <1>5, AtMostAppend
<1>7. b + d \in Nat /\ a + d >= (b + d) + c + IF frame.kind = "function" THEN 0 ELSE 1
  BY <1>1
<1>8. /\ new.kind = frame.kind /\ new.id = frame.id /\ new.first = frame.first
      /\ new.list = more
  BY <1>4
<1>9. FrameAtMost(new, a + d)
  BY <1>1, <1>3, <1>4, <1>6, <1>7, <1>8 DEF FrameAtMost
<1> QED BY <1>2, <1>9

LEMMA FramesAdd ==
  ASSUME NEW frames, NEW n, FramesAtMost(frames, n), frames # <<>>,
         NEW node, NEW d \in Nat, NodeAtMost(node.tree, d)
  PROVE  \E m \in Nat : FramesAtMost(AddTo(frames, node), m) /\ m <= n + d
<1>1. PICK m \in Nat, a \in Nat :
        /\ FramesAtMost(Front(frames), m)
        /\ FrameAtMost(frames[Len(frames)], a) /\ n >= m + a
  BY FramesParts
<1>2. IsSeq(frames) /\ n \in Nat
  BY FramesParts
<1>3. PICK last : last = frames[Len(frames)]
  OBVIOUS
<1>4. FrameAtMost(Grown(last, node), a + d)
  BY <1>1, <1>3, FrameGrows
<1>5. a + d \in Nat /\ m + (a + d) \in Nat /\ m + (a + d) <= n + d
  BY <1>1, <1>2
<1>6. FramesAtMost(Append(Front(frames), Grown(last, node)), m + (a + d))
  BY <1>1, <1>4, <1>5, FramesPush
<1>7. AddTo(frames, node) = Append(Front(frames), Grown(last, node))
  BY <1>2, <1>3, AddToIsLast
<1> QED BY <1>5, <1>6, <1>7

LEMMA NothingAtMost == AtMost(Nothing.tree, 0)
BY EmptyAtMost DEF Nothing

LEMMA NewFrameAtMost ==
  ASSUME NEW kind \in Kinds, NEW id, kind # "function" => id \in 1..MaxStatements,
         NEW first, NEW b \in Nat, AtMost(first.tree, b),
         NEW n \in Nat, n = b + IF kind = "function" THEN 0 ELSE 1
  PROVE  FrameAtMost(Frame(kind, id, first), n)
<1>1. PICK fr : fr = Frame(kind, id, first)
  OBVIOUS
<1>2. fr = [kind |-> kind, id |-> id, first |-> first, list |-> Nothing]
  BY <1>1 DEF Frame
<1>3. fr.kind = kind /\ fr.id = id /\ fr.first = first /\ fr.list = Nothing
  BY <1>2
<1>4. AtMost(fr.list.tree, 0) /\ AtMost(fr.first.tree, b)
  BY <1>3, NothingAtMost
<1>5. n >= 0 + b + IF fr.kind = "function" THEN 0 ELSE 1
  BY <1>3
<1>6. FrameAtMost(fr, n)
  BY <1>2, <1>3, <1>4, <1>5 DEF FrameAtMost
<1> QED BY <1>1, <1>6

LEMMA AddToNone == ASSUME NEW node PROVE AddTo(<<>>, node) = <<>>
<1>1. PICK s : s = <<>>
  OBVIOUS
<1>2. IsSeq(s) /\ Len(s) = 0
  BY <1>1, EmptyIsSeq
<1>3. PICK last : last = [s[0] EXCEPT !.list = add_sibling(@, node)]
  OBVIOUS
<1>4. PICK new : new = AddTo(s, node)
  OBVIOUS
<1>5. new = [s EXCEPT ![0] = last]
  BY <1>2, <1>3, <1>4 DEF AddTo
<1>6. PICK n \in Nat : n = Len(s)
  BY <1>2
<1>7. new \in [1..n -> {last}]
  <2>1. DOMAIN s = 1..n /\ 1..n = {}
    BY <1>2, <1>6, SeqLen
  <2> QED BY <1>5, <2>1
<1>8. new \in Seq({last}) /\ Len(new) = 0
  BY <1>2, <1>6, <1>7
<1>9. new = <<>>
  BY <1>8, SeqLen DEF IsSeq
<1> QED BY <1>1, <1>4, <1>9

LEMMA FramesAddAny ==
  ASSUME NEW frames, NEW n, FramesAtMost(frames, n),
         NEW node, NEW d \in Nat, NodeAtMost(node.tree, d)
  PROVE  \E m \in Nat : FramesAtMost(AddTo(frames, node), m) /\ m <= n + d
<1>1. CASE frames = <<>>
  <2>1. FramesAtMost(AddTo(frames, node), 0)
    BY <1>1, AddToNone, NoFrames
  <2>2. n \in Nat /\ 0 <= n + d
    BY FramesParts
  <2> QED BY <2>1, <2>2
<1>2. CASE frames # <<>>
  BY <1>2, FramesAdd
<1> QED BY <1>1, <1>2

-----------------------------------------------------------------------------
\* The statements of all functions.
FunctionsAtMost(fns, total) ==
  /\ IsSeq(fns) /\ total \in Nat
  /\ \E sum \in [0..Len(fns) -> 0..total] :
       \A f \in 1..Len(fns) :
         \E a \in Nat : AtMost(fns[f].tree, a) /\ sum[f - 1] + a <= sum[f]

LEMMA NoFunctions == FunctionsAtMost(<<>>, 0)
<1>1. IsSeq(<<>>) /\ Len(<<>>) = 0
  BY EmptyIsSeq
<1>2. PICK sum : sum = [k \in 0..0 |-> 0]
  OBVIOUS
<1>3. sum \in [0..0 -> 0..0] /\ 1..0 = {}
  BY <1>2
<1> QED BY <1>1, <1>3 DEF FunctionsAtMost

LEMMA MoreFunctions ==
  ASSUME NEW fns, NEW total, FunctionsAtMost(fns, total),
         NEW list, NEW b \in Nat, AtMost(list.tree, b)
  PROVE  FunctionsAtMost(Append(fns, list), total + b)
<1>1. IsSeq(fns) /\ total \in Nat /\ Len(fns) \in Nat
  BY SeqLen DEF FunctionsAtMost
<1>2. PICK n, sum : /\ n = Len(fns) /\ sum \in [0..Len(fns) -> 0..total]
                    /\ \A f \in 1..Len(fns) :
                         \E a \in Nat : AtMost(fns[f].tree, a) /\ sum[f - 1] + a <= sum[f]
  BY DEF FunctionsAtMost
<1>3. PICK new : new = Append(fns, list)
  OBVIOUS
<1>4. /\ IsSeq(new) /\ Len(new) = n + 1 /\ new[n + 1] = list
      /\ \A f \in 1..n : new[f] = fns[f]
  BY <1>1, <1>2, <1>3, AppendParts
<1>5. PICK more : more = [k \in 0..n + 1 |-> IF k <= n THEN sum[k] ELSE total + b]
  OBVIOUS
<1>6. more \in [0..n + 1 -> 0..total + b]
  BY <1>1, <1>2, <1>5
<1>7. ASSUME NEW f \in 1..n + 1
      PROVE  \E a \in Nat : AtMost(new[f].tree, a) /\ more[f - 1] + a <= more[f]
  <2>1. CASE f = n + 1
    <3>1. more[f] = total + b /\ more[f - 1] = sum[n] /\ sum[n] <= total /\ sum[n] \in Nat
      BY <1>1, <1>2, <1>5, <2>1
    <3> QED BY <1>1, <1>4, <2>1, <3>1
  <2>2. CASE f # n + 1
    <3>1. f \in 1..n /\ more[f] = sum[f] /\ more[f - 1] = sum[f - 1]
      BY <1>1, <1>2, <1>5, <2>2
    <3> QED BY <1>2, <1>4, <3>1
  <2> QED BY <2>1, <2>2
<1>8. total + b \in Nat
  BY <1>1
<1> QED BY <1>3, <1>4, <1>6, <1>7, <1>8 DEF FunctionsAtMost

-----------------------------------------------------------------------------
\* The statements counted are those there are.
ParserCount ==
  /\ statements \in 0..MaxStatements
  /\ Len(functions) <= MaxFunctions
  /\ open # <<>> => Len(functions) < MaxFunctions
  /\ \E total, n \in Nat :
       /\ FunctionsAtMost(functions, total) /\ FramesAtMost(open, n)
       /\ total + n <= statements

LEMMA CountInit == Init => ParserCount
<1> SUFFICES ASSUME Init PROVE ParserCount
  OBVIOUS
<1>1. statements = 0 /\ functions = <<>> /\ open = <<>>
  BY DEF Init
<1>2. Len(<<>>) = 0
  BY EmptyIsSeq
<1> QED BY <1>1, <1>2, NoFunctions, NoFrames, MaxFunctionsAssumption, MaxStatementsAssumption
        DEF ParserCount

LEMMA CountStep == ParserCount /\ [Next]_vars => ParserCount'
<1> SUFFICES ASSUME ParserCount, [Next]_vars PROVE ParserCount'
  OBVIOUS
<1>0. /\ statements \in 0..MaxStatements /\ Len(functions) <= MaxFunctions
      /\ open # <<>> => Len(functions) < MaxFunctions
  BY DEF ParserCount
<1>1. PICK total \in Nat, n \in Nat :
        /\ FunctionsAtMost(functions, total) /\ FramesAtMost(open, n)
        /\ total + n <= statements
  BY DEF ParserCount
<1>2. ASSUME UNCHANGED functions, open' # <<>> => Len(functions) < MaxFunctions,
             statements' \in 0..MaxStatements,
             NEW m \in Nat, FramesAtMost(open', m), total + m <= statements'
      PROVE  ParserCount'
  <2>1. /\ FunctionsAtMost(functions', total) /\ Len(functions') <= MaxFunctions
        /\ open' # <<>> => Len(functions') < MaxFunctions
    BY <1>0, <1>1, <1>2
  <2> QED BY <1>2, <2>1 DEF ParserCount
<1>3. ASSUME open # <<>>
      PROVE  \E m, a, b, c \in Nat :
               /\ FramesAtMost(Outer, m) /\ FrameAtMost(Inner, a) /\ n >= m + a
               /\ AtMost(Inner.list.tree, b) /\ AtMost(Inner.first.tree, c)
               /\ a >= b + c + IF Inner.kind = "function" THEN 0 ELSE 1
               /\ Inner.kind # "function" => Inner.id \in 1..MaxStatements
  <2>1. PICK m \in Nat, a \in Nat : /\ FramesAtMost(Front(open), m)
                                    /\ FrameAtMost(open[Len(open)], a) /\ n >= m + a
    BY <1>1, <1>3, FramesParts
  <2>2. FramesAtMost(Outer, m) /\ FrameAtMost(Inner, a)
    BY <2>1 DEF Outer, Inner
  <2>3. PICK fr : fr = Inner
    OBVIOUS
  <2>4. PICK b \in Nat, c \in Nat :
          /\ AtMost(fr.list.tree, b) /\ AtMost(fr.first.tree, c)
          /\ a >= b + c + IF fr.kind = "function" THEN 0 ELSE 1
          /\ fr.kind # "function" => fr.id \in 1..MaxStatements
    BY <2>2, <2>3 DEF FrameAtMost
  <2> QED BY <2>1, <2>2, <2>3, <2>4
<1>4. CASE OpenFunction
  <2>1. PICK frame : frame = Frame("function", 0, Nothing)
    OBVIOUS
  <2>2. /\ Len(functions) < MaxFunctions /\ open' = <<frame>>
        /\ UNCHANGED <<functions, statements>>
    BY <1>4, <2>1 DEF OpenFunction
  <2>3. "function" \in Kinds /\ 0 = 0 + IF "function" = "function" THEN 0 ELSE 1
    BY DEF Kinds
  <2>4. FrameAtMost(frame, 0)
    BY <2>1, <2>3, NewFrameAtMost, NothingAtMost
  <2>5. FramesAtMost(Append(<<>>, frame), 0 + 0)
    BY <2>4, NoFrames, FramesPush
  <2>6. Append(<<>>, frame) = <<frame>>
    BY AppendToEmpty DEF One
  <2>7. FramesAtMost(open', 0)
    BY <2>2, <2>5, <2>6
  <2>8. total + 0 <= statements' /\ statements' \in 0..MaxStatements
    BY <1>0, <1>1, <2>2
  <2> QED BY <1>2, <2>2, <2>7, <2>8
<1>5. CASE CloseFunction
  <2>1. /\ open # <<>> /\ open' = <<>> /\ functions' = Append(functions, Inner.list)
        /\ UNCHANGED statements
    BY <1>5 DEF CloseFunction
  <2>2. PICK list, new : list = Inner.list /\ new = functions'
    OBVIOUS
  <2>3. PICK b \in Nat : AtMost(list.tree, b) /\ b <= n
    <3>1. PICK m \in Nat, a \in Nat, b \in Nat, c \in Nat :
            /\ n >= m + a /\ AtMost(Inner.list.tree, b)
            /\ a >= b + c + IF Inner.kind = "function" THEN 0 ELSE 1
      BY <1>3, <2>1
    <3>2. b <= n
      BY <3>1
    <3> QED BY <2>2, <3>1, <3>2
  <2>4. FunctionsAtMost(new, total + b)
    BY <1>1, <2>1, <2>2, <2>3, MoreFunctions
  <2>5. IsSeq(functions) /\ Len(functions) \in Nat
    BY <1>1, SeqLen DEF FunctionsAtMost
  <2>6. Len(new) = Len(functions) + 1
    BY <2>1, <2>2, <2>5, AppendParts
  <2>7. Len(new) <= MaxFunctions
    BY <1>0, <2>1, <2>5, <2>6, MaxFunctionsAssumption
  <2>8. total + b \in Nat /\ (total + b) + 0 <= statements
    BY <1>0, <1>1, <2>3
  <2> QED BY <1>0, <2>1, <2>2, <2>4, <2>7, <2>8, NoFrames DEF ParserCount
<1>6. ASSUME open # <<>>, UNCHANGED functions, statements' = statements + 1,
             statements' \in 0..MaxStatements,
             NEW m \in Nat, FramesAtMost(open', m), m <= n + 1
      PROVE  ParserCount'
  <2>1. total + m <= statements'
    BY <1>0, <1>1, <1>6
  <2> QED BY <1>0, <1>2, <1>6, <2>1
<1>7. ASSUME NewStatement
      PROVE  /\ open # <<>> /\ UNCHANGED functions /\ statements' = statements + 1
             /\ statements' \in 0..MaxStatements /\ statements' \in 1..MaxStatements
  <2>1. /\ open # <<>> /\ UNCHANGED functions /\ statements' = statements + 1
        /\ statements < MaxStatements
    BY <1>7 DEF NewStatement
  <2> QED BY <1>0, <2>1, MaxStatementsAssumption
<1>8. CASE SimpleStatement
  <2>0. NewStatement
    BY <1>8 DEF SimpleStatement
  <2>1. PICK op \in {"OP", "RETURN"} : open' = AddTo(open, Leaf(op, statements'))
    BY <1>8 DEF SimpleStatement
  <2>2. PICK node : node = Leaf(op, statements')
    OBVIOUS
  <2>3. NodeAtMost(node.tree, 1)
    BY <1>7, <2>0, <2>2, LeafAtMost
  <2>4. PICK m \in Nat : FramesAtMost(AddTo(open, node), m) /\ m <= n + 1
    BY <1>1, <2>3, FramesAddAny
  <2> QED BY <1>6, <1>7, <2>0, <2>1, <2>2, <2>4
<1>9. CASE OpenStatement
  <2>0. NewStatement
    BY <1>9 DEF OpenStatement
  <2>1. PICK kind \in {"then", "while"} : open' = Append(open, Frame(kind, statements', Nothing))
    BY <1>9 DEF OpenStatement
  <2>2. PICK frame : frame = Frame(kind, statements', Nothing)
    OBVIOUS
  <2>3. kind \in Kinds /\ 1 = 0 + IF kind = "function" THEN 0 ELSE 1
    BY <2>1 DEF Kinds
  <2>4. FrameAtMost(frame, 1)
    BY <1>7, <2>0, <2>2, <2>3, NewFrameAtMost, NothingAtMost
  <2>5. FramesAtMost(Append(open, frame), n + 1)
    BY <1>1, <2>4, FramesPush
  <2>6. n + 1 \in Nat /\ n + 1 <= n + 1
    OBVIOUS
  <2> QED BY <1>6, <1>7, <2>0, <2>1, <2>2, <2>5, <2>6
<1>10. ASSUME NEW kind, Close(kind)
       PROVE  /\ open # <<>> /\ Inner.kind = kind /\ UNCHANGED <<functions, statements>>
  BY <1>10 DEF Close
<1>11. ASSUME open # <<>>, UNCHANGED <<functions, statements>>,
              NEW m \in Nat, FramesAtMost(open', m), m <= n
       PROVE  ParserCount'
  <2>1. total + m <= statements' /\ statements' \in 0..MaxStatements
    BY <1>0, <1>1, <1>11
  <2> QED BY <1>0, <1>2, <1>11, <2>1
<1>12. CASE Else
  <2>1. /\ open # <<>> /\ Inner.kind = "then" /\ UNCHANGED <<functions, statements>>
        /\ open' = Append(Outer, Frame("else", Inner.id, Inner.list))
    BY <1>10, <1>12 DEF Else
  <2>2. PICK m \in Nat, a \in Nat, b \in Nat, c \in Nat :
          /\ FramesAtMost(Outer, m) /\ n >= m + a
          /\ AtMost(Inner.list.tree, b)
          /\ a >= b + c + 1 /\ Inner.id \in 1..MaxStatements
    BY <1>3, <2>1
  <2>3. PICK list, id : list = Inner.list /\ id = Inner.id
    OBVIOUS
  <2>4. PICK frame : frame = Frame("else", id, list)
    OBVIOUS
  <2>5. "else" \in Kinds /\ b + 1 \in Nat /\ b + 1 = b + IF "else" = "function" THEN 0 ELSE 1
    BY DEF Kinds
  <2>6. FrameAtMost(frame, b + 1)
    BY <2>2, <2>3, <2>4, <2>5, NewFrameAtMost
  <2>7. FramesAtMost(Append(Outer, frame), m + (b + 1))
    BY <2>2, <2>5, <2>6, FramesPush
  <2>8. m + (b + 1) \in Nat /\ m + (b + 1) <= n
    BY <2>2
  <2> QED BY <1>11, <2>1, <2>3, <2>4, <2>7, <2>8
<1>13. CASE CloseIf
  <2>1. /\ open # <<>> /\ Inner.kind = "then" /\ UNCHANGED <<functions, statements>>
        /\ open' = AddTo(Outer, Compound("IF", Inner.id, Inner.list, Nothing))
    BY <1>10, <1>13 DEF CloseIf
  <2>2. PICK m \in Nat, a \in Nat, b \in Nat, c \in Nat :
          /\ FramesAtMost(Outer, m) /\ n >= m + a
          /\ AtMost(Inner.list.tree, b)
          /\ a >= b + c + 1 /\ Inner.id \in 1..MaxStatements
    BY <1>3, <2>1
  <2>3. PICK list, id : list = Inner.list /\ id = Inner.id
    OBVIOUS
  <2>4. PICK node : node = Compound("IF", id, list, Nothing)
    OBVIOUS
  <2>5. NodeAtMost(node.tree, 1 + b + 0)
    BY <2>2, <2>3, <2>4, CompoundAtMost, NothingAtMost
  <2>6. 1 + b + 0 \in Nat
    OBVIOUS
  <2>7. PICK k \in Nat : FramesAtMost(AddTo(Outer, node), k) /\ k <= m + (1 + b + 0)
    BY <2>2, <2>5, <2>6, FramesAddAny
  <2>8. k <= n
    BY <2>2, <2>7
  <2> QED BY <1>11, <2>1, <2>3, <2>4, <2>7, <2>8
<1>14. CASE CloseElse
  <2>1. /\ open # <<>> /\ Inner.kind = "else" /\ UNCHANGED <<functions, statements>>
        /\ open' = AddTo(Outer, Compound("IF", Inner.id, Inner.first, Inner.list))
    BY <1>10, <1>14 DEF CloseElse
  <2>2. PICK m \in Nat, a \in Nat, b \in Nat, c \in Nat :
          /\ FramesAtMost(Outer, m) /\ n >= m + a
          /\ AtMost(Inner.list.tree, b) /\ AtMost(Inner.first.tree, c)
          /\ a >= b + c + 1 /\ Inner.id \in 1..MaxStatements
    BY <1>3, <2>1
  <2>3. PICK list, first, id : list = Inner.list /\ first = Inner.first /\ id = Inner.id
    OBVIOUS
  <2>4. PICK node : node = Compound("IF", id, first, list)
    OBVIOUS
  <2>5. NodeAtMost(node.tree, 1 + c + b)
    BY <2>2, <2>3, <2>4, CompoundAtMost
  <2>6. 1 + c + b \in Nat
    OBVIOUS
  <2>7. PICK k \in Nat : FramesAtMost(AddTo(Outer, node), k) /\ k <= m + (1 + c + b)
    BY <2>2, <2>5, <2>6, FramesAddAny
  <2>8. k <= n
    BY <2>2, <2>7
  <2> QED BY <1>11, <2>1, <2>3, <2>4, <2>7, <2>8
<1>15. CASE CloseWhile
  <2>1. /\ open # <<>> /\ Inner.kind = "while" /\ UNCHANGED <<functions, statements>>
        /\ open' = AddTo(Outer, Compound("WHILE", Inner.id, Inner.list, Nothing))
    BY <1>10, <1>15 DEF CloseWhile
  <2>2. PICK m \in Nat, a \in Nat, b \in Nat, c \in Nat :
          /\ FramesAtMost(Outer, m) /\ n >= m + a
          /\ AtMost(Inner.list.tree, b)
          /\ a >= b + c + 1 /\ Inner.id \in 1..MaxStatements
    BY <1>3, <2>1
  <2>3. PICK list, id : list = Inner.list /\ id = Inner.id
    OBVIOUS
  <2>4. PICK node : node = Compound("WHILE", id, list, Nothing)
    OBVIOUS
  <2>5. NodeAtMost(node.tree, 1 + b + 0)
    BY <2>2, <2>3, <2>4, CompoundAtMost, NothingAtMost
  <2>6. 1 + b + 0 \in Nat
    OBVIOUS
  <2>7. PICK k \in Nat : FramesAtMost(AddTo(Outer, node), k) /\ k <= m + (1 + b + 0)
    BY <2>2, <2>5, <2>6, FramesAddAny
  <2>8. k <= n
    BY <2>2, <2>7
  <2> QED BY <1>11, <2>1, <2>3, <2>4, <2>7, <2>8
<1>16. CASE \/ ParseDone
            \/ intermediate_code_decl_func \/ EmitLater \/ EndOfList \/ GenerateExpression
            \/ intermediate_code_decl_return \/ intermediate_code_decl_if
            \/ intermediate_code_decl_while
            \/ Assemble \/ Run \/ UNCHANGED vars
  <2>1. UNCHANGED parsevars
    BY <1>16, RunSteps
       DEF ParseDone, intermediate_code_decl_func, EmitLater, EndOfList, GenerateExpression,
           intermediate_code_decl_return, intermediate_code_decl_if,
           intermediate_code_decl_while, create_intermediate_code, Generating, Assemble, vars
  <2> QED BY <2>1 DEF parsevars, ParserCount
<1> QED BY <1>4, <1>5, <1>8, <1>9, <1>12, <1>13, <1>14, <1>15, <1>16 DEF Next

-----------------------------------------------------------------------------
\* The labels an item of work can still take, and those of a stack of work.
Instruction ==
  [op : {"FUN", "LABEL", "END", "OP", "RETURN", "CONDITION", "IFF", "GOTO"}, arg : Nat]

Needs(fns, item, n) ==
  \/ item.do = "emit" /\ item.arg \in Instruction
  \/ item.do = "list" /\ \E a \in Nat : AtMost(item.arg, a) /\ n >= 2 * a
  \/ /\ item.do = "function" /\ item.arg \in DOMAIN fns
     /\ \E a \in Nat : AtMost(fns[item.arg].tree, a) /\ n >= 1 + 2 * a

\* The last item of a stack: the code ends with an END.
Closing(item) ==
  item.do = "function" \/ (item.do = "emit" /\ item.arg.op = "END")

StackCounts(fns, pairs) ==
  \A w, n : <<w, n>> \in pairs =>
    /\ IsSeq(w) /\ n \in Nat
    /\ w # <<>> =>
         /\ Tail(w) = <<>> => Closing(Head(w))
         /\ \E m, a \in Nat :
              <<Tail(w), m>> \in pairs /\ Needs(fns, Head(w), a) /\ n >= m + a

StackNeeds(fns, w, n) == \E pairs : StackCounts(fns, pairs) /\ <<w, n>> \in pairs

LEMMA StackParts ==
  ASSUME NEW fns, NEW w, NEW n, StackNeeds(fns, w, n)
  PROVE  /\ IsSeq(w) /\ n \in Nat
         /\ w # <<>> =>
              /\ Tail(w) = <<>> => Closing(Head(w))
              /\ \E m, a \in Nat :
                   StackNeeds(fns, Tail(w), m) /\ Needs(fns, Head(w), a) /\ n >= m + a
<1>1. PICK pairs : StackCounts(fns, pairs) /\ <<w, n>> \in pairs
  BY DEF StackNeeds
<1>2. /\ IsSeq(w) /\ n \in Nat
      /\ w # <<>> =>
           /\ Tail(w) = <<>> => Closing(Head(w))
           /\ \E m, a \in Nat :
                <<Tail(w), m>> \in pairs /\ Needs(fns, Head(w), a) /\ n >= m + a
  BY <1>1, Zenon DEF StackCounts
<1> QED BY <1>1, <1>2, Zenon DEF StackNeeds

LEMMA NothingNeeded == ASSUME NEW fns PROVE StackNeeds(fns, <<>>, 0)
<1>1. StackCounts(fns, {<<<<>>, 0>>})
  BY EmptyIsSeq DEF StackCounts
<1> QED BY <1>1 DEF StackNeeds

LEMMA StackPush ==
  ASSUME NEW fns, NEW w, NEW m, StackNeeds(fns, w, m),
         NEW x, NEW a \in Nat, Needs(fns, x, a), w = <<>> => Closing(x)
  PROVE  StackNeeds(fns, Push(x, w), m + a)
<1>1. PICK pairs : StackCounts(fns, pairs) /\ <<w, m>> \in pairs
  BY DEF StackNeeds
<1>2. IsSeq(w) /\ m \in Nat
  BY StackParts
<1>3. PICK p : p = Push(x, w)
  OBVIOUS
<1>4. IsSeq(p) /\ p # <<>> /\ Head(p) = x /\ Tail(p) = w
  BY <1>2, <1>3, Pushed
<1>5. PICK all : all = pairs \cup {<<p, m + a>>}
  OBVIOUS
<1>6. StackCounts(fns, all)
  <2> SUFFICES ASSUME NEW v, NEW n, <<v, n>> \in all
               PROVE  /\ IsSeq(v) /\ n \in Nat
                      /\ v # <<>> =>
                           /\ Tail(v) = <<>> => Closing(Head(v))
                           /\ \E l, b \in Nat :
                                <<Tail(v), l>> \in all /\ Needs(fns, Head(v), b) /\ n >= l + b
    BY Zenon DEF StackCounts
  <2>1. CASE <<v, n>> \in pairs
    <3>1. /\ IsSeq(v) /\ n \in Nat
          /\ v # <<>> =>
               /\ Tail(v) = <<>> => Closing(Head(v))
               /\ \E l, b \in Nat :
                    <<Tail(v), l>> \in pairs /\ Needs(fns, Head(v), b) /\ n >= l + b
      BY <1>1, <2>1, Zenon DEF StackCounts
    <3> QED BY <1>5, <3>1
  <2>2. CASE <<v, n>> = <<p, m + a>>
    <3>1. v = p /\ n = m + a
      BY <2>2
    <3>2. /\ <<Tail(v), m>> \in all /\ Needs(fns, Head(v), a)
          /\ n >= m + a /\ n \in Nat
      <4>1. Tail(v) = w /\ Head(v) = x
        BY <1>4, <3>1
      <4>2. n >= m + a /\ n \in Nat
        BY <1>2, <3>1
      <4>3. <<w, m>> \in all
        BY <1>1, <1>5
      <4> QED BY <4>1, <4>2, <4>3
    <3>3. IsSeq(v) /\ (Tail(v) = <<>> => Closing(Head(v)))
      BY <1>4, <3>1
    <3> QED BY <1>2, <3>2, <3>3
  <2> QED BY <1>5, <2>1, <2>2
<1>7. <<p, m + a>> \in all
  BY <1>5
<1> QED BY <1>3, <1>6, <1>7, Zenon DEF StackNeeds

LEMMA PushEmit ==
  ASSUME NEW fns, NEW w, NEW m, StackNeeds(fns, w, m),
         NEW op \in {"LABEL", "GOTO", "END"}, NEW k \in Nat, op = "END" \/ w # <<>>
  PROVE  StackNeeds(fns, Push(Emit(op, k), w), m) /\ Push(Emit(op, k), w) # <<>>
<1>1. PICK x : x = Emit(op, k)
  OBVIOUS
<1>2. x.do = "emit" /\ x.arg = Instr(op, k)
  BY <1>1 DEF Emit
<1>3. Instr(op, k) \in Instruction /\ Instr(op, k).op = op
  BY DEF Instr, Instruction
<1>4. Needs(fns, x, 0) /\ (w = <<>> => Closing(x))
  BY <1>2, <1>3 DEF Needs, Closing
<1>5. IsSeq(w) /\ m \in Nat
  BY StackParts
<1>6. StackNeeds(fns, Push(x, w), m + 0)
  BY <1>4, StackPush
<1>7. m + 0 = m
  BY <1>5
<1>8. Push(x, w) # <<>>
  BY <1>5, Pushed
<1> QED BY <1>1, <1>6, <1>7, <1>8

LEMMA PushList ==
  ASSUME NEW fns, NEW w, NEW m, StackNeeds(fns, w, m), w # <<>>,
         NEW list, NEW a \in Nat, AtMost(list, a)
  PROVE  /\ StackNeeds(fns, Push(Generate(list), w), m + 2 * a)
         /\ Push(Generate(list), w) # <<>>
<1>1. PICK x : x = Generate(list)
  OBVIOUS
<1>2. x.do = "list" /\ x.arg = list
  BY <1>1 DEF Generate
<1>3. Needs(fns, x, 2 * a) /\ 2 * a \in Nat
  BY <1>2 DEF Needs
<1>4. StackNeeds(fns, Push(x, w), m + 2 * a)
  BY <1>3, StackPush
<1>5. IsSeq(w)
  BY StackParts
<1>6. Push(x, w) # <<>>
  BY <1>5, Pushed
<1> QED BY <1>1, <1>4, <1>6

\* A program takes a label for each function and two for each statement.
LEMMA ProgramNeeds ==
  ASSUME NEW total, FunctionsAtMost(functions, total), ParseDone
  PROVE  /\ \E m \in Nat :
              StackNeeds(functions, work', m) /\ m <= Len(functions) + 2 * total
         /\ work' # <<>> /\ Len(functions) \in Nat
<1>1. PICK n, w, fns : n = Len(functions) /\ w = work' /\ fns = functions
  OBVIOUS
<1>2. n \in Nat /\ n > 0 /\ DOMAIN fns = 1..n /\ total \in Nat
  BY <1>1, SeqLen DEF FunctionsAtMost, ParseDone
<1>3. /\ w = [f \in 1..n |-> [do |-> "function", arg |-> f]]
      /\ \A f \in 1..n : w[f] = [do |-> "function", arg |-> f]
  BY <1>1, <1>2 DEF ParseDone
<1>4. IsSeq(w) /\ Len(w) = n
  <2>1. w = [f \in 1..n |-> [do |-> "function", arg |-> f]]
    BY <1>3
  <2>2. n \in Nat
    BY <1>2
  <2>3. PICK S : S = {[do |-> "function", arg |-> f] : f \in 1..n}
    OBVIOUS
  <2>4. w \in [1..n -> S]
    BY <2>1, <2>3
  <2>5. w \in Seq(S) /\ Len(w) = n
    BY <2>2, <2>4
  <2> QED BY <2>5 DEF IsSeq
<1>5. PICK sum \in [0..n -> 0..total] :
        \A f \in 1..n : \E a \in Nat : AtMost(fns[f].tree, a) /\ sum[f - 1] + a <= sum[f]
  BY <1>1 DEF FunctionsAtMost
<1>6. PICK pairs : pairs = {<<Suffix(w, k), (n + 1 - k) + 2 * (total - sum[k - 1])>> :
                              k \in 1..n + 1}
  OBVIOUS
<1>7. ASSUME NEW k \in 1..n + 1
      PROVE  /\ sum[k - 1] \in 0..total
             /\ (n + 1 - k) + 2 * (total - sum[k - 1]) \in Nat
             /\ IsSeq(Suffix(w, k)) /\ Len(Suffix(w, k)) = n + 1 - k
             /\ \A i \in 1..n + 1 - k : Suffix(w, k)[i] = w[k + i - 1]
  <2>1. k - 1 \in 0..n
    BY <1>2
  <2>2. sum[k - 1] \in 0..total
    BY <1>5, <2>1
  <2>3. total - sum[k - 1] \in Nat /\ n + 1 - k \in Nat
    BY <1>2, <2>2
  <2>4. (n + 1 - k) + 2 * (total - sum[k - 1]) \in Nat
    BY <2>3
  <2>5. /\ IsSeq(Suffix(w, k)) /\ Len(Suffix(w, k)) = n + 1 - k
        /\ \A i \in 1..n + 1 - k : Suffix(w, k)[i] = w[k + i - 1]
    BY <1>4, SuffixParts
  <2> QED BY <2>2, <2>4, <2>5
<1>8. ASSUME NEW k \in 1..n
      PROVE  /\ Suffix(w, k) # <<>> /\ Head(Suffix(w, k)) = [do |-> "function", arg |-> k]
             /\ Tail(Suffix(w, k)) = Suffix(w, k + 1)
  <2>1. PICK v, u : v = Suffix(w, k) /\ u = Suffix(w, k + 1)
    OBVIOUS
  <2>2. k \in 1..n + 1 /\ k + 1 \in 1..n + 1
    BY <1>2
  <2>3. IsSeq(v) /\ Len(v) = n + 1 - k /\ \A i \in 1..n + 1 - k : v[i] = w[k + i - 1]
    BY <1>7, <2>1, <2>2
  <2>4. /\ IsSeq(u) /\ Len(u) = n + 1 - (k + 1)
        /\ \A i \in 1..n + 1 - (k + 1) : u[i] = w[(k + 1) + i - 1]
    BY <1>7, <2>1, <2>2
  <2>5. v # <<>> /\ Len(v) > 0
    BY <1>2, <2>3, SeqLen
  <2>6. /\ IsSeq(Tail(v)) /\ Len(Tail(v)) = Len(v) - 1 /\ Head(v) = v[1]
        /\ \A i \in 1..Len(v) - 1 : Tail(v)[i] = v[i + 1]
    BY <2>3, <2>5, Split
  <2>7. Head(v) = w[k]
    <3>1. 1 \in 1..n + 1 - k /\ k + 1 - 1 = k
      BY <1>2
    <3> QED BY <2>3, <2>6, <3>1
  <2>8. w[k] = [do |-> "function", arg |-> k]
    BY <1>3
  <2>9. Len(Tail(v)) = Len(u)
    <3>1. n \in Nat /\ k \in Nat
      BY <1>2
    <3>2. (n + 1 - k) - 1 = n + 1 - (k + 1)
      BY <3>1
    <3>3. Len(v) = n + 1 - k /\ Len(u) = n + 1 - (k + 1) /\ Len(Tail(v)) = Len(v) - 1
      BY <2>3, <2>4, <2>6
    <3> QED BY <3>2, <3>3
  <2>10. ASSUME NEW i \in 1..Len(u) PROVE Tail(v)[i] = u[i]
    <3>1. i \in 1..Len(v) - 1 /\ i + 1 \in 1..n + 1 - k /\ i \in 1..n + 1 - (k + 1)
      BY <1>2, <2>3, <2>4
    <3>2. k + (i + 1) - 1 = (k + 1) + i - 1
      BY <3>1
    <3> QED BY <2>3, <2>4, <2>6, <3>1, <3>2
  <2>11. Tail(v) = u
    BY <2>4, <2>6, <2>9, <2>10, SameSeq
  <2> QED BY <2>1, <2>5, <2>7, <2>8, <2>11
<1>9. ASSUME NEW k \in 1..n + 1
      PROVE  <<Suffix(w, k), (n + 1 - k) + 2 * (total - sum[k - 1])>> \in pairs
  BY <1>6
<1>10. StackCounts(fns, pairs)
  <2> SUFFICES ASSUME NEW v, NEW m, <<v, m>> \in pairs
               PROVE  /\ IsSeq(v) /\ m \in Nat
                      /\ v # <<>> =>
                           /\ Tail(v) = <<>> => Closing(Head(v))
                           /\ \E l, b \in Nat :
                                <<Tail(v), l>> \in pairs /\ Needs(fns, Head(v), b) /\ m >= l + b
    BY Zenon DEF StackCounts
  <2>1. PICK k \in 1..n + 1 :
          <<v, m>> = <<Suffix(w, k), (n + 1 - k) + 2 * (total - sum[k - 1])>>
    BY <1>6
  <2>2. v = Suffix(w, k) /\ m = (n + 1 - k) + 2 * (total - sum[k - 1])
    BY <2>1
  <2>3. IsSeq(v) /\ Len(v) = n + 1 - k /\ m \in Nat
    BY <1>7, <2>2
  <2>4. ASSUME v # <<>>
        PROVE  /\ Closing(Head(v))
               /\ \E l, b \in Nat :
                    <<Tail(v), l>> \in pairs /\ Needs(fns, Head(v), b) /\ m >= l + b
    <3>1. k \in 1..n
      <4>1. Len(v) # 0
        BY <2>3, <2>4, SeqLen
      <4> QED BY <1>2, <2>3, <4>1
    <3>2. k + 1 \in 1..n + 1
      BY <1>2, <3>1
    <3>3. PICK item : item = [do |-> "function", arg |-> k]
      OBVIOUS
    <3>4. Head(v) = item /\ Tail(v) = Suffix(w, k + 1)
      BY <1>8, <2>2, <3>1, <3>3
    <3>5. item.do = "function" /\ item.arg = k
      BY <3>3
    <3>6. PICK a \in Nat : AtMost(fns[k].tree, a) /\ sum[k - 1] + a <= sum[k]
      BY <1>5, <3>1
    <3>7. Needs(fns, item, 1 + 2 * a) /\ 1 + 2 * a \in Nat
      BY <1>2, <3>1, <3>5, <3>6 DEF Needs
    <3>8. PICK l : l = (n + 1 - (k + 1)) + 2 * (total - sum[(k + 1) - 1])
      OBVIOUS
    <3>9. l \in Nat /\ <<Suffix(w, k + 1), l>> \in pairs
      BY <1>7, <1>9, <3>2, <3>8
    <3>10. m >= l + (1 + 2 * a)
      <4>1. (k + 1) - 1 = k
        BY <3>1
      <4>2. sum[k] \in 0..total /\ sum[k - 1] \in 0..total
        <5>1. sum[(k + 1) - 1] \in 0..total
          BY <1>7, <3>2
        <5> QED BY <1>7, <4>1, <5>1
      <4>3. l = (n + 1 - (k + 1)) + 2 * (total - sum[k])
        BY <3>8, <4>1
      <4>4. PICK s, r : s = sum[k - 1] /\ r = sum[k]
        OBVIOUS
      <4>5. s \in Nat /\ r \in Nat /\ s + a <= r
        BY <1>2, <3>6, <4>2, <4>4
      <4>6. m = (n + 1 - k) + 2 * (total - s) /\ l = (n + 1 - (k + 1)) + 2 * (total - r)
        BY <2>2, <4>3, <4>4
      <4> QED BY <1>2, <4>5, <4>6
    <3> QED BY <3>4, <3>5, <3>7, <3>9, <3>10 DEF Closing
  <2> QED BY <2>3, <2>4
<1>11. w = Suffix(w, 1)
  <2>1. w \in Tails(w)
    BY <1>4, WholeIsSuffix
  <2>2. w = Suffix(w, Len(w) + 1 - Len(w))
    BY <1>4, <2>1, SuffixByLength
  <2>3. Len(w) + 1 - Len(w) = 1
    BY <1>2, <1>4
  <2> QED BY <2>2, <2>3
<1>12. \E m \in Nat : StackNeeds(fns, w, m) /\ m <= n + 2 * total
  <2>1. 1 \in 1..n + 1
    BY <1>2
  <2>2. PICK m : m = (n + 1 - 1) + 2 * (total - sum[1 - 1])
    OBVIOUS
  <2>3. m \in Nat /\ <<Suffix(w, 1), m>> \in pairs /\ sum[1 - 1] \in 0..total
    BY <1>7, <1>9, <2>1, <2>2
  <2>4. m <= n + 2 * total
    BY <1>2, <2>2, <2>3
  <2>5. StackNeeds(fns, w, m)
    BY <1>10, <1>11, <2>3 DEF StackNeeds
  <2> QED BY <2>3, <2>4, <2>5
<1>13. w # <<>>
  BY <1>2, <1>4, SeqLen
<1> QED BY <1>1, <1>2, <1>12, <1>13

LEMMA TypedAdd ==
  ASSUME NEW code \in Seq(Instruction), NEW a \in Instruction
  PROVE  /\ Add(code, a) \in Seq(Instruction) /\ Len(Add(code, a)) \in Nat
         /\ Add(code, a) # <<>> /\ Add(code, a)[Len(Add(code, a))] = a
<1>1. PICK new : new = Add(code, a)
  OBVIOUS
<1>2. IsSeq(code) /\ Len(code) \in Nat
  BY SeqLen DEF IsSeq
<1>3. /\ IsSeq(new) /\ Len(new) = Len(code) + 1
      /\ \A i \in DOMAIN new : (i \in DOMAIN code /\ new[i] = code[i]) \/ new[i] = a
      /\ new[Len(code) + 1] = a
  BY <1>1, <1>2, Added
<1>4. new # <<>> /\ DOMAIN new = 1..Len(new) /\ Len(new) \in Nat
  BY <1>2, <1>3, SeqLen
<1>5. \A i \in 1..Len(new) : new[i] \in Instruction
  BY <1>3, <1>4
<1>6. PICK n : n = Len(new)
  OBVIOUS
<1>7. PICK S : new \in Seq(S)
  BY <1>3 DEF IsSeq
<1>8. new \in [1..n -> Instruction]
  BY <1>4, <1>5, <1>6, <1>7
<1>9. new \in Seq(Instruction)
  BY <1>4, <1>6, <1>8
<1> QED BY <1>1, <1>3, <1>4, <1>9

\* The code ends with an END once there is no more work.
Ended(code, w) == w = <<>> => code # <<>> /\ code[Len(code)].op = "END"

LEMMA TypedInstr ==
  ASSUME NEW op \in {"FUN", "LABEL", "END", "OP", "RETURN", "CONDITION", "IFF", "GOTO"},
         NEW k \in Nat
  PROVE  Instr(op, k) \in Instruction
BY DEF Instr, Instruction

\* A step of the generator takes the labels its item of work needs.
LEMMA GeneratorNeeds ==
  ASSUME IsSeq(work), IsSeq(functions), intermediate_code \in Seq(Instruction),
         NEW n, StackNeeds(functions, work, n),
         num_label \in Nat, func_label \in 0..num_label,
         \/ intermediate_code_decl_func
         \/ EmitLater
         \/ EndOfList
         \/ GenerateExpression
         \/ intermediate_code_decl_return
         \/ intermediate_code_decl_if
         \/ intermediate_code_decl_while
  PROVE  /\ intermediate_code' \in Seq(Instruction) /\ Ended(intermediate_code', work')
         /\ num_label' \in Nat /\ func_label' \in 0..num_label'
         /\ \E m \in Nat : /\ StackNeeds(functions', work', m)
                           /\ num_label' + m <= num_label + n
<1>0. IsSeq(intermediate_code)
  BY DEF IsSeq
<1>1. work # <<>>
  BY <1>0, FunctionStep, EmitStep, EmptyStep, ExpressionStep, ReturnStep, IfStep, WhileStep
     DEF Ready
<1>2. PICK c, k, l, x, w, b, fns :
        /\ c = intermediate_code /\ k = num_label /\ l = func_label
        /\ x = Head(work) /\ w = Tail(work) /\ b = Below /\ fns = functions
  OBVIOUS
<1>3. /\ k \in Nat /\ l \in 0..k /\ l \in Nat /\ k + 1 \in Nat /\ k + 2 \in Nat
      /\ c \in Seq(Instruction) /\ n \in Nat
  BY <1>2, StackParts
<1>4. PICK m \in Nat, a \in Nat :
        /\ StackNeeds(fns, w, m) /\ Needs(fns, x, a) /\ n >= m + a
  BY <1>1, <1>2, StackParts
<1>5. w = <<>> => Closing(x)
  BY <1>1, <1>2, StackParts
<1>6. ASSUME NEW i \in Instruction, NEW any \in Seq(Instruction)
      PROVE  Add(any, i) \in Seq(Instruction)
  BY TypedAdd
<1>7. CASE intermediate_code_decl_func
  <2>1. PICK f, tree : f = x.arg /\ tree = fns[f].tree
    OBVIOUS
  <2>2. /\ x.do = "function" /\ work' = FunctionStack(tree, f, k, w)
        /\ intermediate_code' = Add(c, Instr("FUN", f))
        /\ func_label' = k /\ num_label' = k + 1 /\ UNCHANGED functions
    BY <1>0, <1>2, <1>7, <2>1, FunctionStep
  <2>3. PICK d \in Nat : AtMost(tree, d) /\ a >= 1 + 2 * d
    BY <1>4, <2>1, <2>2 DEF Needs
  <2>4. f \in Nat
    <3>1. f \in DOMAIN fns
      BY <1>4, <2>1, <2>2 DEF Needs
    <3>2. IsSeq(fns)
      BY <1>2
    <3> QED BY <3>1, <3>2, SeqLen
  <2>5. PICK w1 : w1 = Push(Emit("END", f), w)
    OBVIOUS
  <2>6. StackNeeds(fns, w1, m) /\ w1 # <<>>
    BY <1>4, <2>4, <2>5, PushEmit
  <2>7. PICK w2 : w2 = Push(Emit("LABEL", k), w1)
    OBVIOUS
  <2>8. StackNeeds(fns, w2, m) /\ w2 # <<>>
    BY <1>3, <2>6, <2>7, PushEmit
  <2>9. StackNeeds(fns, Push(Generate(tree), w2), m + 2 * d) /\ Push(Generate(tree), w2) # <<>>
    BY <2>3, <2>8, PushList
  <2>10. work' = Push(Generate(tree), w2)
    BY <2>2, <2>5, <2>7, Zenon DEF FunctionStack
  <2>11. Add(c, Instr("FUN", f)) \in Seq(Instruction)
    BY <1>3, <1>6, <2>4, TypedInstr
  <2>12. m + 2 * d \in Nat /\ (k + 1) + (m + 2 * d) <= k + n /\ k \in 0..k + 1
    BY <1>3, <1>4, <2>3
  <2> QED BY <1>2, <1>3, <2>2, <2>9, <2>10, <2>11, <2>12 DEF Ended
<1>8. CASE EmitLater
  <2>1. /\ x.do = "emit" /\ work' = w /\ intermediate_code' = Add(c, x.arg)
        /\ func_label' = l /\ num_label' = k /\ UNCHANGED functions
    BY <1>0, <1>2, <1>8, EmitStep
  <2>2. x.arg \in Instruction
    BY <1>4, <2>1 DEF Needs
  <2>3. PICK new : new = Add(c, x.arg)
    OBVIOUS
  <2>4. new \in Seq(Instruction) /\ new # <<>> /\ new[Len(new)] = x.arg
    BY <1>3, <2>2, <2>3, TypedAdd
  <2>5. Ended(new, w)
    BY <1>5, <2>1, <2>4 DEF Ended, Closing
  <2>6. k + m <= k + n
    BY <1>3, <1>4
  <2> QED BY <1>2, <1>3, <1>4, <2>1, <2>3, <2>4, <2>5, <2>6
<1>9. ASSUME x.do = "list"
      PROVE  w # <<>> /\ \E d \in Nat : AtMost(x.arg, d) /\ a >= 2 * d
  <2>1. ~ Closing(x)
    BY <1>9 DEF Closing
  <2>2. \E d \in Nat : AtMost(x.arg, d) /\ a >= 2 * d
    BY <1>4, <1>9 DEF Needs
  <2> QED BY <1>5, <2>1, <2>2
<1>10. CASE EndOfList
  <2>1. /\ x.do = "list" /\ work' = w /\ intermediate_code' = c
        /\ func_label' = l /\ num_label' = k /\ UNCHANGED functions
    BY <1>0, <1>2, <1>10, EmptyStep
  <2>2. k + m <= k + n
    BY <1>3, <1>4
  <2> QED BY <1>2, <1>3, <1>4, <1>9, <2>1, <2>2 DEF Ended
<1>11. PICK node, d, first, second, tail :
         /\ node = Node /\ d = Node.id
         /\ first = Child(Node, 1) /\ second = Child(Node, 2) /\ tail = Tail(x.arg)
  OBVIOUS
<1>12. ASSUME x.do = "list", x.arg # <<>>
       PROVE  /\ d \in Nat
              /\ \E p, q, r \in Nat :
                   /\ AtMost(first, p) /\ AtMost(second, q)
                   /\ StackNeeds(fns, b, m + 2 * r) /\ b # <<>>
                   /\ n >= (m + 2 * r) + 2 * p + 2 * q + 2
  <2>1. PICK s : s = x.arg
    OBVIOUS
  <2>2. PICK e \in Nat : AtMost(s, e) /\ a >= 2 * e
    BY <1>9, <1>12, <2>1
  <2>3. /\ IsSeq(s) /\ \A i \in 1..Len(s) : IsTree(s[i])
        /\ \E p, q, r \in Nat :
             /\ AtMost(Child(Head(s), 1), p) /\ AtMost(Child(Head(s), 2), q)
             /\ AtMost(Tail(s), r) /\ e >= 1 + p + q + r
    BY <1>12, <2>1, <2>2, AtMostParts
  <2>4. Head(s) = node
    BY <1>2, <1>11, <2>1 DEF Node
  <2>5. d \in Nat
    <3>1. Len(s) \in Nat /\ Len(s) > 0 /\ Head(s) = s[1]
      BY <1>12, <2>1, <2>3, SeqLen, Split
    <3>2. IsTree(node)
      BY <2>3, <2>4, <3>1
    <3> QED BY <1>11, <3>2, MaxStatementsAssumption DEF IsTree
  <2>6. PICK p \in Nat, q \in Nat, r \in Nat :
          /\ AtMost(first, p) /\ AtMost(second, q)
          /\ AtMost(tail, r) /\ e >= 1 + p + q + r
    BY <1>11, <2>1, <2>3, <2>4
  <2>7. b = Push(Generate(tail), w)
    BY <1>2, <1>11, Zenon DEF Below
  <2>8. StackNeeds(fns, b, m + 2 * r) /\ b # <<>>
    BY <1>4, <1>9, <1>12, <2>6, <2>7, PushList
  <2>9. n >= (m + 2 * r) + 2 * p + 2 * q + 2
    BY <1>3, <1>4, <2>2, <2>6
  <2> QED BY <2>5, <2>6, <2>8, <2>9
<1>13. CASE GenerateExpression
  <2>1. /\ x.do = "list" /\ x.arg # <<>> /\ work' = b
        /\ intermediate_code' = Add(c, Instr("OP", d))
        /\ func_label' = l /\ num_label' = k /\ UNCHANGED functions
    BY <1>0, <1>2, <1>11, <1>13, ExpressionStep
  <2>2. PICK p \in Nat, q \in Nat, r \in Nat :
          /\ d \in Nat /\ StackNeeds(fns, b, m + 2 * r) /\ b # <<>>
          /\ n >= (m + 2 * r) + 2 * p + 2 * q + 2
    BY <1>12, <2>1
  <2>3. Add(c, Instr("OP", d)) \in Seq(Instruction)
    BY <1>3, <1>6, <2>2, TypedInstr
  <2>4. m + 2 * r \in Nat /\ k + (m + 2 * r) <= k + n
    BY <1>3, <2>2
  <2> QED BY <1>2, <1>3, <2>1, <2>2, <2>3, <2>4 DEF Ended
<1>14. CASE intermediate_code_decl_return
  <2>1. /\ x.do = "list" /\ x.arg # <<>> /\ work' = b
        /\ intermediate_code' = Add(Add(c, Instr("RETURN", d)), Instr("GOTO", l))
        /\ func_label' = l /\ num_label' = k /\ UNCHANGED functions
    BY <1>0, <1>2, <1>11, <1>14, ReturnStep
  <2>2. PICK p \in Nat, q \in Nat, r \in Nat :
          /\ d \in Nat /\ StackNeeds(fns, b, m + 2 * r) /\ b # <<>>
          /\ n >= (m + 2 * r) + 2 * p + 2 * q + 2
    BY <1>12, <2>1
  <2>3. Add(Add(c, Instr("RETURN", d)), Instr("GOTO", l)) \in Seq(Instruction)
    BY <1>3, <1>6, <2>2, TypedInstr
  <2>4. m + 2 * r \in Nat /\ k + (m + 2 * r) <= k + n
    BY <1>3, <2>2
  <2> QED BY <1>2, <1>3, <2>1, <2>2, <2>3, <2>4 DEF Ended
<1>15. CASE intermediate_code_decl_if
  <2>1. /\ x.do = "list" /\ x.arg # <<>> /\ work' = IfStack(node, k, b)
        /\ intermediate_code' = Add(Add(c, Instr("CONDITION", d)), Instr("IFF", k))
        /\ func_label' = l /\ num_label' = k + 2 /\ UNCHANGED functions
    BY <1>0, <1>2, <1>11, <1>15, IfStep
  <2>2. PICK p \in Nat, q \in Nat, r \in Nat :
          /\ d \in Nat /\ AtMost(first, p) /\ AtMost(second, q)
          /\ StackNeeds(fns, b, m + 2 * r) /\ b # <<>>
          /\ n >= (m + 2 * r) + 2 * p + 2 * q + 2
    BY <1>12, <2>1
  <2>3. Add(Add(c, Instr("CONDITION", d)), Instr("IFF", k)) \in Seq(Instruction)
    BY <1>3, <1>6, <2>2, TypedInstr
  <2>4. PICK w1 : w1 = ElseStack(node, k, b)
    OBVIOUS
  <2>5. PICK j \in Nat : StackNeeds(fns, w1, j) /\ w1 # <<>> /\ j <= (m + 2 * r) + 2 * q
    <3>1. CASE second = <<>>
      <4>1. w1 = Push(Emit("LABEL", k), b)
        BY <1>11, <2>4, <3>1 DEF ElseStack
      <4>2. StackNeeds(fns, w1, m + 2 * r) /\ w1 # <<>>
        BY <1>3, <2>2, <4>1, PushEmit
      <4>3. m + 2 * r \in Nat /\ m + 2 * r <= (m + 2 * r) + 2 * q
        OBVIOUS
      <4> QED BY <4>2, <4>3
    <3>2. CASE second # <<>>
      <4>1. PICK u1 : u1 = Push(Emit("LABEL", k + 1), b)
        OBVIOUS
      <4>2. StackNeeds(fns, u1, m + 2 * r) /\ u1 # <<>>
        BY <1>3, <2>2, <4>1, PushEmit
      <4>3. PICK u2 : u2 = Push(Generate(second), u1)
        OBVIOUS
      <4>4. StackNeeds(fns, u2, (m + 2 * r) + 2 * q) /\ u2 # <<>>
        BY <2>2, <4>2, <4>3, PushList
      <4>5. PICK u3 : u3 = Push(Emit("LABEL", k), u2)
        OBVIOUS
      <4>6. StackNeeds(fns, u3, (m + 2 * r) + 2 * q) /\ u3 # <<>>
        BY <1>3, <4>4, <4>5, PushEmit
      <4>7. w1 = Push(Emit("GOTO", k + 1), u3)
        BY <1>11, <2>4, <3>2, <4>1, <4>3, <4>5 DEF ElseStack
      <4>8. StackNeeds(fns, w1, (m + 2 * r) + 2 * q) /\ w1 # <<>>
        BY <1>3, <4>6, <4>7, PushEmit
      <4>9. (m + 2 * r) + 2 * q \in Nat
        OBVIOUS
      <4> QED BY <4>8, <4>9
    <3> QED BY <3>1, <3>2
  <2>6. work' = Push(Generate(first), w1)
    BY <1>11, <2>1, <2>4, Zenon DEF IfStack
  <2>7. StackNeeds(fns, work', j + 2 * p) /\ work' # <<>>
    BY <2>2, <2>5, <2>6, PushList
  <2>8. j + 2 * p \in Nat /\ (k + 2) + (j + 2 * p) <= k + n /\ l \in 0..k + 2
    BY <1>3, <2>2, <2>5
  <2> QED BY <1>2, <1>3, <2>1, <2>3, <2>7, <2>8 DEF Ended
<1>16. CASE intermediate_code_decl_while
  <2>1. /\ x.do = "list" /\ x.arg # <<>> /\ work' = WhileStack(node, k, b)
        /\ intermediate_code' = Add(Add(Add(c, Instr("LABEL", k)), Instr("CONDITION", d)),
                                    Instr("IFF", k + 1))
        /\ func_label' = l /\ num_label' = k + 2 /\ UNCHANGED functions
    BY <1>0, <1>2, <1>11, <1>16, WhileStep
  <2>2. PICK p \in Nat, q \in Nat, r \in Nat :
          /\ d \in Nat /\ AtMost(first, p)
          /\ StackNeeds(fns, b, m + 2 * r) /\ b # <<>>
          /\ n >= (m + 2 * r) + 2 * p + 2 * q + 2
    BY <1>12, <2>1
  <2>3. Add(Add(Add(c, Instr("LABEL", k)), Instr("CONDITION", d)), Instr("IFF", k + 1))
          \in Seq(Instruction)
    BY <1>3, <1>6, <2>2, TypedInstr
  <2>4. PICK u1 : u1 = Push(Emit("LABEL", k + 1), b)
    OBVIOUS
  <2>5. StackNeeds(fns, u1, m + 2 * r) /\ u1 # <<>>
    BY <1>3, <2>2, <2>4, PushEmit
  <2>6. PICK u2 : u2 = Push(Emit("GOTO", k), u1)
    OBVIOUS
  <2>7. StackNeeds(fns, u2, m + 2 * r) /\ u2 # <<>>
    BY <1>3, <2>5, <2>6, PushEmit
  <2>8. work' = Push(Generate(first), u2)
    BY <1>11, <2>1, <2>4, <2>6, Zenon DEF WhileStack
  <2>9. StackNeeds(fns, work', (m + 2 * r) + 2 * p) /\ work' # <<>>
    BY <2>2, <2>7, <2>8, PushList
  <2>10. /\ (m + 2 * r) + 2 * p \in Nat /\ (k + 2) + ((m + 2 * r) + 2 * p) <= k + n
         /\ l \in 0..k + 2
    BY <1>3, <2>2
  <2> QED BY <1>2, <1>3, <2>1, <2>3, <2>9, <2>10 DEF Ended
<1> QED BY <1>7, <1>8, <1>10, <1>13, <1>14, <1>15, <1>16

-----------------------------------------------------------------------------
(* The inductive invariant of the types. *)

CodeTyped ==
  /\ intermediate_code \in Seq(Instruction)
  /\ num_label \in Nat /\ func_label \in 0..num_label
  /\ phase = "parse" => num_label = 0
  /\ phase = "generate" =>
       /\ Ended(intermediate_code, work)
       /\ \E n \in Nat : /\ StackNeeds(functions, work, n)
                         /\ num_label + n <= MaxFunctions + 2 * MaxStatements
  /\ phase = "run" => /\ Ended(intermediate_code, <<>>)
                      /\ num_label <= MaxFunctions + 2 * MaxStatements

RunTyped ==
  /\ phase # "run" => pc = 0
  /\ pc \in 0..Len(intermediate_code) /\ condition \in BOOLEAN

LEMMA TypedInit == Init => CodeTyped /\ RunTyped
<1> SUFFICES ASSUME Init PROVE CodeTyped /\ RunTyped
  OBVIOUS
<1>1. /\ phase = "parse" /\ intermediate_code = <<>> /\ num_label = 0 /\ func_label = 0
      /\ pc = 0 /\ condition = FALSE
  BY DEF Init
<1>2. <<>> \in Seq(Instruction) /\ Len(<<>>) = 0
  BY EmptySeq
<1>3. CodeTyped
  <2>1. intermediate_code \in Seq(Instruction)
    BY <1>1, <1>2
  <2>2. num_label \in Nat /\ func_label \in 0..num_label
    BY <1>1
  <2> QED BY <1>1, <2>1, <2>2 DEF CodeTyped
<1>4. RunTyped
  <2>1. pc \in 0..Len(intermediate_code)
    BY <1>1, <1>2
  <2> QED BY <1>1, <2>1 DEF RunTyped
<1> QED BY <1>3, <1>4

LEMMA CodeStep ==
  ASSUME LabelInv, ParserCount, CodeTyped, [Next]_vars
  PROVE  CodeTyped'
<1>0. /\ intermediate_code \in Seq(Instruction) /\ num_label \in Nat
      /\ func_label \in 0..num_label
  BY DEF CodeTyped
<1>1. CASE \/ OpenFunction \/ CloseFunction \/ SimpleStatement \/ OpenStatement
           \/ Else \/ CloseIf \/ CloseElse \/ CloseWhile
  <2>1. phase = "parse" /\ phase' = "parse" /\ UNCHANGED codevars
    BY <1>1, ParserSteps
  <2> QED BY <2>1 DEF CodeTyped, codevars
<1>2. CASE ParseDone
  <2>1. /\ phase = "parse" /\ phase' = "generate"
        /\ UNCHANGED <<functions, intermediate_code, num_label, func_label>>
    BY <1>2 DEF ParseDone, parsevars
  <2>2. PICK total \in Nat : FunctionsAtMost(functions, total) /\ total <= statements
    <3>1. PICK total \in Nat, n \in Nat :
            FunctionsAtMost(functions, total) /\ total + n <= statements
      BY DEF ParserCount
    <3>2. total <= statements
      BY <3>1 DEF ParserCount
    <3> QED BY <3>1, <3>2
  <2>3. PICK m \in Nat : StackNeeds(functions, work', m) /\ m <= Len(functions) + 2 * total
    BY <1>2, <2>2, ProgramNeeds
  <2>4. work' # <<>> /\ Len(functions) \in Nat
    BY <1>2, <2>2, ProgramNeeds
  <2>5. num_label + m <= MaxFunctions + 2 * MaxStatements
    <3>1. num_label = 0 /\ Len(functions) <= MaxFunctions /\ statements \in 0..MaxStatements
      BY <2>1 DEF CodeTyped, ParserCount
    <3> QED BY <2>2, <2>3, <2>4, <3>1, MaxFunctionsAssumption, MaxStatementsAssumption
  <2>6. \E n \in Nat : /\ StackNeeds(functions', work', n)
                       /\ num_label' + n <= MaxFunctions + 2 * MaxStatements
    BY <2>1, <2>3, <2>5
  <2>7. Ended(intermediate_code', work')
    BY <2>4 DEF Ended
  <2> QED BY <1>0, <2>1, <2>6, <2>7 DEF CodeTyped
<1>3. CASE \/ intermediate_code_decl_func \/ EmitLater \/ EndOfList \/ GenerateExpression
           \/ intermediate_code_decl_return \/ intermediate_code_decl_if
           \/ intermediate_code_decl_while
  <2>1. phase = "generate" /\ phase' = "generate"
    BY <1>3 DEF intermediate_code_decl_func, EmitLater, EndOfList, GenerateExpression,
                intermediate_code_decl_return, intermediate_code_decl_if,
                intermediate_code_decl_while, create_intermediate_code, Generating
  <2>2. PICK n \in Nat : /\ StackNeeds(functions, work, n)
                         /\ num_label + n <= MaxFunctions + 2 * MaxStatements
    BY <2>1 DEF CodeTyped
  <2>3. IsSeq(work) /\ IsSeq(functions)
    BY DEF LabelInv, Shaped
  <2>4. /\ intermediate_code' \in Seq(Instruction) /\ Ended(intermediate_code', work')
        /\ num_label' \in Nat /\ func_label' \in 0..num_label'
        /\ \E m \in Nat : /\ StackNeeds(functions', work', m)
                          /\ num_label' + m <= num_label + n
    BY <1>0, <1>3, <2>2, <2>3, GeneratorNeeds
  <2>5. PICK m \in Nat : /\ StackNeeds(functions', work', m)
                         /\ num_label' + m <= num_label + n
    BY <2>4
  <2>6. num_label' + m <= MaxFunctions + 2 * MaxStatements
    <3>1. PICK k, l : k = num_label /\ l = num_label'
      OBVIOUS
    <3>2. k \in Nat /\ l \in Nat /\ l + m <= k + n
      BY <1>0, <2>4, <2>5, <3>1
    <3>3. k + n <= MaxFunctions + 2 * MaxStatements
      BY <2>2, <3>1
    <3>4. l + m <= MaxFunctions + 2 * MaxStatements
      BY <3>2, <3>3, MaxFunctionsAssumption, MaxStatementsAssumption
    <3> QED BY <3>1, <3>4
  <2> QED BY <2>1, <2>4, <2>5, <2>6 DEF CodeTyped
<1>4. CASE Assemble
  <2>1. /\ phase = "generate" /\ work = <<>> /\ phase' = "run"
        /\ UNCHANGED <<intermediate_code, num_label, func_label>>
    BY <1>4 DEF Assemble
  <2>2. Ended(intermediate_code, <<>>)
    BY <2>1 DEF CodeTyped
  <2>3. PICK n \in Nat : num_label + n <= MaxFunctions + 2 * MaxStatements
    BY <2>1 DEF CodeTyped
  <2>4. num_label <= MaxFunctions + 2 * MaxStatements
    BY <1>0, <2>3, MaxFunctionsAssumption, MaxStatementsAssumption
  <2>5. Ended(intermediate_code', <<>>)
    BY <2>1, <2>2
  <2> QED BY <1>0, <2>1, <2>4, <2>5 DEF CodeTyped
<1>5. CASE Run \/ UNCHANGED vars
  <2>1. UNCHANGED <<phase, functions, work, intermediate_code, num_label, func_label>>
    BY <1>5, RunSteps DEF vars, parsevars, codevars
  <2> QED BY <2>1 DEF CodeTyped
<1> QED BY <1>1, <1>2, <1>3, <1>4, <1>5 DEF Next

\* A jump stays in the code.
LEMMA JumpInside ==
  ASSUME LabelInv, phase = "run", NEW i \in DOMAIN intermediate_code,
         intermediate_code[i].op \in {"IFF", "GOTO"}
  PROVE  get_label_address(<<"Label", intermediate_code[i].arg>>) \in DOMAIN intermediate_code
<1>1. PICK id : id = <<"Label", intermediate_code[i].arg>>
  OBVIOUS
<1>2. PICK label \in label_vector : label.id = id
  BY <1>1, JumpsResolved DEF LabelsResolved
<1>3. label_vector = LabelsOf(intermediate_code)
  BY DEF LabelInv, Assembled
<1>4. PICK j \in DOMAIN intermediate_code :
        /\ intermediate_code[j].op \in {"FUN", "LABEL"}
        /\ label = [id |-> Label(intermediate_code[j]), address |-> j]
  BY <1>2, <1>3 DEF LabelsOf
<1>5. Marks(intermediate_code[j], id) /\ There(intermediate_code, j, intermediate_code[j])
  BY <1>2, <1>4 DEF Marks, There
<1>6. get_label_address(id) = j
  BY <1>5, LabelAddress
<1> QED BY <1>1, <1>4, <1>6

LEMMA RunTypedStep ==
  ASSUME LabelInv, CodePlaced, CodeTyped, CodeTyped', RunTyped, [Next]_vars
  PROVE  RunTyped'
<1>0. /\ pc \in 0..Len(intermediate_code) /\ condition \in BOOLEAN
      /\ IsSeq(intermediate_code) /\ IsSeq(work) /\ Len(intermediate_code) \in Nat
      /\ DOMAIN intermediate_code = 1..Len(intermediate_code)
      /\ Len(intermediate_code') \in Nat
  BY SeqLen DEF RunTyped, CodeTyped, LabelInv, Shaped
<1>1. CASE UNCHANGED vars
  BY <1>1 DEF RunTyped, vars, codevars, runvars
<1>2. CASE \/ OpenFunction \/ CloseFunction \/ SimpleStatement \/ OpenStatement
           \/ Else \/ CloseIf \/ CloseElse \/ CloseWhile
  <2>1. phase = "parse" /\ UNCHANGED <<phase, codevars, runvars>>
    BY <1>2, ParserSteps
  <2> QED BY <2>1 DEF RunTyped, runvars, codevars
<1>3. CASE ParseDone
  <2>1. phase = "parse" /\ UNCHANGED <<pc, condition, intermediate_code>>
    BY <1>3 DEF ParseDone, runvars
  <2> QED BY <2>1 DEF RunTyped
<1>4. CASE \/ intermediate_code_decl_func \/ EmitLater \/ EndOfList \/ GenerateExpression
           \/ intermediate_code_decl_return \/ intermediate_code_decl_if
           \/ intermediate_code_decl_while
  <2>1. phase = "generate" /\ UNCHANGED <<phase, runvars>>
    BY <1>4 DEF intermediate_code_decl_func, EmitLater, EndOfList, GenerateExpression,
                intermediate_code_decl_return, intermediate_code_decl_if,
                intermediate_code_decl_while, Generating, create_intermediate_code
  <2>2. pc' = 0 /\ condition' \in BOOLEAN
    BY <1>0, <2>1 DEF RunTyped, runvars
  <2> QED BY <1>0, <2>2 DEF RunTyped
<1>5. CASE Assemble
  <2>1. phase = "generate" /\ UNCHANGED <<intermediate_code, pc, condition>>
    BY <1>5 DEF Assemble, runvars
  <2> QED BY <2>1 DEF RunTyped
<1>6. CASE Run
  <2>1. /\ phase = "run" /\ UNCHANGED <<phase, work, intermediate_code, functions>>
    BY <1>6, RunSteps DEF parsevars, codevars
  <2>2. PICK places : Map(places, work, intermediate_code, functions)
    BY <2>1 DEF CodePlaced, Placed
  <2>3. work = <<>>
    BY <2>1 DEF LabelInv, Assembled
  <2>4. PICK c, n : c = intermediate_code /\ n = Len(intermediate_code)
    OBVIOUS
  <2>5. n \in Nat /\ n > 0 /\ c[n].op = "END" /\ DOMAIN c = 1..n
    <3>1. c # <<>> /\ c[n].op = "END"
      BY <2>1, <2>4 DEF CodeTyped, Ended
    <3> QED BY <1>0, <2>4, <3>1, SeqLen
  <2>6. ASSUME pc \in DOMAIN c, c[pc].op # "END" PROVE pc + 1 \in 0..n
    BY <2>5, <2>6
  <2>7. pc' \in 0..n /\ condition' \in BOOLEAN
    <3>1. CASE Enter
      <4>1. PICK f \in DOMAIN functions : pc' = get_label_address(<<"function", f>>)
        BY <3>1 DEF Enter
      <4>2. PICK p : There(c, p, Instr("FUN", f))
        BY <2>2, <2>3, <2>4, FunctionThere
      <4>3. Marks(Instr("FUN", f), <<"function", f>>)
        BY InstrMarks
      <4>4. pc' = p /\ p \in DOMAIN c
        BY <2>1, <2>4, <4>1, <4>2, <4>3, LabelAddress DEF There
      <4>5. UNCHANGED condition
        BY <3>1 DEF Enter
      <4> QED BY <1>0, <2>5, <4>4, <4>5
    <3>2. CASE Pass
      <4>1. /\ pc \in DOMAIN c /\ c[pc].op \in {"FUN", "LABEL"} /\ pc' = pc + 1
            /\ UNCHANGED condition
        BY <2>4, <3>2 DEF Pass, Running, Current
      <4> QED BY <1>0, <2>6, <4>1
    <3>3. CASE Goto
      <4>1. /\ pc \in DOMAIN c /\ c[pc].op = "GOTO"
            /\ pc' = get_label_address(<<"Label", c[pc].arg>>) /\ UNCHANGED condition
        BY <2>4, <3>3 DEF Goto, Running, Current
      <4>2. get_label_address(<<"Label", c[pc].arg>>) \in DOMAIN c
        BY <2>1, <2>4, <4>1, JumpInside
      <4> QED BY <1>0, <2>5, <4>1, <4>2
    <3>4. CASE Branch
      <4>1. /\ pc \in DOMAIN c /\ c[pc].op = "IFF" /\ UNCHANGED condition
            /\ pc' = pc + 1 \/ pc' = get_label_address(<<"Label", c[pc].arg>>)
        BY <2>4, <3>4 DEF Branch, Running, Current
      <4>2. get_label_address(<<"Label", c[pc].arg>>) \in DOMAIN c
        BY <2>1, <2>4, <4>1, JumpInside
      <4> QED BY <1>0, <2>5, <2>6, <4>1, <4>2
    <3>5. CASE Execute
      <4>1. /\ pc \in DOMAIN c /\ c[pc].op \in {"OP", "RETURN", "CONDITION"} /\ pc' = pc + 1
        BY <2>4, <3>5 DEF Execute, Running, Current
      <4>2. condition' \in BOOLEAN
        BY <1>0, <3>5 DEF Execute
      <4> QED BY <2>6, <4>1, <4>2
    <3> QED BY <1>6, <3>1, <3>2, <3>3, <3>4, <3>5 DEF Run
  <2>8. phase' = "run" /\ pc' \in 0..Len(intermediate_code')
    BY <2>1, <2>4, <2>7
  <2> QED BY <2>7, <2>8 DEF RunTyped
<1> QED BY <1>1, <1>2, <1>3, <1>4, <1>5, <1>6 DEF Next

LEMMA TypesCounted ==
  ASSUME LabelInv, ParserCount, CodeTyped, RunTyped
  PROVE  StatementsTypeOK
<1>1. PICK total \in Nat, n \in Nat :
        /\ FunctionsAtMost(functions, total) /\ FramesAtMost(open, n)
  BY DEF ParserCount
<1>2. ASSUME NEW f \in DOMAIN functions, NEW node \in Range(functions[f].tree)
      PROVE  IsTree(node)
  <2>1. PICK tree : tree = functions[f].tree
    OBVIOUS
  <2>2. f \in 1..Len(functions)
    BY <1>1, SeqLen DEF FunctionsAtMost
  <2>3. PICK a \in Nat : AtMost(tree, a)
    BY <1>1, <2>1, <2>2 DEF FunctionsAtMost
  <2>4. IsSeq(tree) /\ \A i \in 1..Len(tree) : IsTree(tree[i])
    BY <2>3, AtMostParts
  <2>5. PICK i \in DOMAIN tree : node = tree[i]
    BY <2>1 DEF Range
  <2>6. i \in 1..Len(tree)
    BY <2>4, <2>5, SeqLen
  <2> QED BY <2>4, <2>5, <2>6
<1>3. ASSUME NEW frame \in Range(open)
      PROVE  frame.kind \in {"function", "then", "else", "while"}
  <2>1. IsSeq(open) /\ \A i \in 1..Len(open) : open[i].kind \in Kinds
    BY <1>1, FramesParts
  <2>2. PICK i \in DOMAIN open : frame = open[i]
    BY DEF Range
  <2>3. i \in 1..Len(open)
    BY <2>1, <2>2, SeqLen
  <2> QED BY <2>1, <2>2, <2>3 DEF Kinds
<1>4. phase \in {"parse", "generate", "run"}
  BY DEF LabelInv, Shaped
<1>5. num_label \in 0..(MaxFunctions + 2 * MaxStatements)
  <2>1. num_label \in Nat
    BY DEF CodeTyped
  <2>2. num_label <= MaxFunctions + 2 * MaxStatements
    <3>1. CASE phase = "parse"
      BY <3>1, MaxFunctionsAssumption, MaxStatementsAssumption DEF CodeTyped
    <3>2. CASE phase = "generate"
      <4>1. PICK k \in Nat : num_label + k <= MaxFunctions + 2 * MaxStatements
        BY <3>2 DEF CodeTyped
      <4> QED BY <2>1, <4>1, MaxFunctionsAssumption, MaxStatementsAssumption
    <3>3. CASE phase = "run"
      BY <3>3 DEF CodeTyped
    <3> QED BY <1>4, <3>1, <3>2, <3>3
  <2> QED BY <2>1, <2>2, MaxFunctionsAssumption, MaxStatementsAssumption
<1>6. statements \in 0..MaxStatements
  BY DEF ParserCount
<1>7. /\ intermediate_code \in Seq(Instruction) /\ func_label \in 0..num_label
      /\ pc \in 0..Len(intermediate_code) /\ condition \in BOOLEAN
  BY DEF CodeTyped, RunTyped
<1> QED BY <1>2, <1>3, <1>4, <1>5, <1>6, <1>7 DEF StatementsTypeOK, Instruction

\* A program takes at most one label for each of its functions and two for each
\* of its statements, and a run never leaves its code, however the statements
\* are nested (codeGen.c intermediate_code_decl_*, num_label; label.c
\* get_label_address).  An empty if before its else is no exception.
THEOREM StatementsTyped == Spec => []StatementsTypeOK
<1> DEFINE Inv == LabelInv /\ CodePlaced /\ ParserCount /\ CodeTyped /\ RunTyped
<1>1. Init => Inv
  BY LabelInit, CodePlacedInit, CountInit, TypedInit
<1>2. Inv /\ [Next]_vars => Inv'
  BY LabelStep, CodePlacedStep, CountStep, CodeStep, RunTypedStep
<1>3. Inv => StatementsTypeOK
  BY TypesCounted
<1> QED BY <1>1, <1>2, <1>3, PTL DEF Spec

=============================================================================
