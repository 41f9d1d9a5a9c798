--------------------------- MODULE SemanticProofs ---------------------------
(***************************************************************************)
(* Proofs about Semantic, for programs of any length with any names: while *)
(* there is no error, the table holds the declarations of each name in the *)
(* order of the program, so that its searches find what the scope rules    *)
(* say, and the lines of an item are those of its uses.                    *)
(***************************************************************************)
EXTENDS SemanticProps, SequenceTheorems, WellFoundedInduction, TLAPS

-----------------------------------------------------------------------------
(* Numbers: the least of a set, a set that holds a range, a function       *)
(* defined along a range.                                                  *)

LEMMA LeastOne ==
  ASSUME NEW S, S \subseteq Nat, S # {}
  PROVE  \E n \in S : Min(S) = n /\ \A m \in S : n <= m
<1>1. PICK n \in S : \A m \in S : <<m, n>> \notin OpToRel(<, Nat)
  BY NatLessThanWellFounded, WFMin, Zenon
<1>2. \A m \in S : ~ (m < n)
  BY <1>1, Zenon DEF OpToRel
<1>3. \A m \in S : n <= m
  BY <1>2
<1>4. \A k \in S : (\A m \in S : k <= m) => k = n
  BY <1>3
<1>5. Min(S) \in S /\ \A m \in S : Min(S) <= m
  BY <1>3, Zenon DEF Min
<1> QED BY <1>4, <1>5

LEMMA Through ==
  ASSUME NEW a \in Nat, NEW n \in Nat, NEW S, a \in S,
         \A k \in (a + 1)..n : k - 1 \in S => k \in S
  PROVE  \A k \in a..n : k \in S
<1>1. SUFFICES ASSUME NEW k \in a..n, k \notin S PROVE FALSE
  OBVIOUS
<1>2. PICK R : R = {m \in a..n : m \notin S}
  OBVIOUS
<1>3. R \subseteq Nat /\ R # {}
  BY <1>1, <1>2
<1>4. PICK m \in R : \A l \in R : m <= l
  BY <1>3, LeastOne
<1>5. m \in (a + 1)..n /\ m - 1 \in a..n /\ m - 1 \notin R
  BY <1>2, <1>4
<1> QED BY <1>2, <1>4, <1>5

Along(f, h, a, n) == \A k \in (a + 1)..n : f[k] = h[<<k, f[k - 1]>>]

LEMMA Iterates ==
  ASSUME NEW D, NEW d \in D, NEW a \in Nat, NEW n \in Nat, a <= n,
         NEW h \in [((a + 1)..n) \X D -> D]
  PROVE  \E f \in [a..n -> D] : f[a] = d /\ Along(f, h, a, n)
<1>1. PICK S : S = {m \in a..n : \E f \in [a..m -> D] : f[a] = d /\ Along(f, h, a, m)}
  OBVIOUS
<1>2. a \in S
  <2>1. PICK f : f = [k \in a..a |-> d]
    OBVIOUS
  <2>2. f \in [a..a -> D] /\ f[a] = d /\ Along(f, h, a, a)
    BY <2>1 DEF Along
  <2> QED BY <1>1, <2>2
<1>3. ASSUME NEW k \in (a + 1)..n, k - 1 \in S PROVE k \in S
  <2>1. PICK f \in [a..(k - 1) -> D] : f[a] = d /\ Along(f, h, a, k - 1)
    BY <1>1, <1>3
  <2>2. PICK g : g = [m \in a..k |-> IF m < k THEN f[m] ELSE h[<<k, f[k - 1]>>]]
    OBVIOUS
  <2>3. h[<<k, f[k - 1]>>] \in D
    OBVIOUS
  <2>4. \A m \in a..(k - 1) : g[m] = f[m] /\ f[m] \in D
    BY <2>1, <2>2
  <2>5. g \in [a..k -> D] /\ g[a] = d
    <3>1. \A m \in a..k : m = k \/ m \in a..(k - 1)
      OBVIOUS
    <3>2. g[k] \in D
      BY <2>2, <2>3
    <3>3. \A m \in a..k : g[m] \in D
      BY <2>4, <3>1, <3>2
    <3> QED BY <2>1, <2>2, <2>4, <3>3
  <2>6. Along(g, h, a, k)
    <3>1. SUFFICES ASSUME NEW m \in (a + 1)..k PROVE g[m] = h[<<m, g[m - 1]>>]
      BY DEF Along
    <3>2. CASE m = k
      <4>1. g[k] = h[<<k, f[k - 1]>>] /\ g[k - 1] = f[k - 1]
        BY <2>2, <2>4
      <4> QED BY <3>2, <4>1
    <3>3. CASE m # k
      BY <2>1, <2>4, <3>3 DEF Along
    <3> QED BY <3>2, <3>3
  <2> QED BY <1>1, <2>5, <2>6
<1>4. n \in S
  BY <1>2, <1>3, Through
<1> QED BY <1>1, <1>4

-----------------------------------------------------------------------------
(* Searches. *)

\* The first of the places that satisfy a test, 0 if there are none.
LEMMA FirstPlace ==
  ASSUME NEW n \in Nat, NEW I, I \subseteq 1..n, NEW i, i = IF I # {} THEN Min(I) ELSE 0
  PROVE  i \in 0..n /\ (i = 0 <=> I = {}) /\ (i # 0 => i \in I /\ \A k \in I : i <= k)
<1>1. CASE I = {}
  <2>1. i = 0
    BY <1>1
  <2> QED BY <1>1, <2>1
<1>2. CASE I # {}
  <2>0. I \subseteq Nat
    OBVIOUS
  <2>1. PICK m \in I : Min(I) = m /\ \A k \in I : m <= k
    BY <1>2, <2>0, LeastOne, Zenon
  <2>2. i = m
    BY <1>2, <2>1
  <2> QED BY <1>2, <2>1, <2>2
<1> QED BY <1>1, <1>2

Chain == Seq(Item)
Places(chain) == 1..Len(chain)

LEMMA ChainFacts ==
  ASSUME NEW chain \in Chain
  PROVE  /\ Len(chain) \in Nat /\ DOMAIN chain = Places(chain)
         /\ \A k \in Places(chain) : chain[k] \in Item
BY DEF Chain, Places

FirstIn(chain, I, i) ==
  i \in 0..Len(chain) /\ (i = 0 <=> I = {}) /\ (i # 0 => i \in I /\ \A k \in I : i <= k)

\* What each search finds.
FunctionPlaces(chain)          == {k \in Places(chain) : chain[k].id_type = "FUNC"}
ScopePlaces(chain, where)      == {k \in Places(chain) : InScope(chain[k], where)}
TypePlaces(chain, types, where) ==
  {k \in Places(chain) : chain[k].id_type \in types /\ InScope(chain[k], where)}
ClashPlaces(chain, where) ==
  {k \in Places(chain) : InScope(chain[k], where) \/ chain[k].id_type = "FUNC"}

Expected(expr_type) == IF expr_type = "ELEMENT" THEN Arrays ELSE Scalars

LEMMA Searches ==
  ASSUME NEW table, NEW name, table[name] \in Chain, NEW where
  PROVE  /\ FirstIn(table[name], FunctionPlaces(table[name]), search_symbol_func(table, name))
         /\ FirstIn(table[name], ScopePlaces(table[name], where),
                    search_symbol_any(table, name, where))
         /\ \A op : op # "CALL" =>
              FirstIn(table[name], TypePlaces(table[name], Expected(op), where),
                      search_symbol_expr(table, name, where, op))
         /\ search_symbol_expr(table, name, where, "CALL") = search_symbol_func(table, name)
         /\ FirstIn(table[name], Places(table[name]), search_symbol(table, name, where, "FUNC"))
         /\ \A t : t # "FUNC" =>
              FirstIn(table[name], ClashPlaces(table[name], where),
                      search_symbol(table, name, where, t))
<1>1. PICK chain : chain = table[name]
  OBVIOUS
<1>2. Len(chain) \in Nat /\ (chain = <<>> <=> Len(chain) = 0)
  BY <1>1 DEF Chain
<1>3. \A I, i : I \subseteq Places(chain) /\ i = (IF I # {} THEN Min(I) ELSE 0) => FirstIn(chain, I, i)
  BY <1>2, FirstPlace DEF FirstIn, Places
<1>4. FirstIn(chain, FunctionPlaces(chain), search_symbol_func(table, name))
  <2>1. search_symbol_func(table, name) =
          IF FunctionPlaces(chain) # {} THEN Min(FunctionPlaces(chain)) ELSE 0
    BY <1>1 DEF search_symbol_func, SelectInSeq, FunctionPlaces, Places
  <2> QED BY <1>3, <2>1 DEF FunctionPlaces
<1>5. FirstIn(chain, ScopePlaces(chain, where), search_symbol_any(table, name, where))
  <2>1. search_symbol_any(table, name, where) =
          IF ScopePlaces(chain, where) # {} THEN Min(ScopePlaces(chain, where)) ELSE 0
    BY <1>1 DEF search_symbol_any, SelectInSeq, ScopePlaces, Places
  <2> QED BY <1>3, <2>1 DEF ScopePlaces
<1>6. ASSUME NEW op, op # "CALL"
      PROVE  FirstIn(chain, TypePlaces(chain, Expected(op), where),
                     search_symbol_expr(table, name, where, op))
  <2>1. search_symbol_expr(table, name, where, op) =
          IF TypePlaces(chain, Expected(op), where) # {}
          THEN Min(TypePlaces(chain, Expected(op), where)) ELSE 0
    BY <1>1, <1>6 DEF search_symbol_expr, SelectInSeq, TypePlaces, Places, Expected
  <2> QED BY <1>3, <2>1 DEF TypePlaces
<1>7. search_symbol_expr(table, name, where, "CALL") = search_symbol_func(table, name)
  BY DEF search_symbol_expr
<1>8. FirstIn(chain, Places(chain), search_symbol(table, name, where, "FUNC"))
  <2>1. search_symbol(table, name, where, "FUNC") = IF chain = <<>> THEN 0 ELSE 1
    BY <1>1 DEF search_symbol, search_symbol_id
  <2> QED BY <1>2, <2>1 DEF FirstIn, Places
<1>9. ASSUME NEW t, t # "FUNC"
      PROVE  FirstIn(chain, ClashPlaces(chain, where), search_symbol(table, name, where, t))
  <2>1. search_symbol(table, name, where, t) =
          IF ClashPlaces(chain, where) # {} THEN Min(ClashPlaces(chain, where)) ELSE 0
    BY <1>1, <1>9 DEF search_symbol, SelectInSeq, ClashPlaces, Places
  <2> QED BY <1>3, <2>1 DEF ClashPlaces
<1> QED BY <1>1, <1>4, <1>5, <1>6, <1>7, <1>8, <1>9

-----------------------------------------------------------------------------
(* Visits: a visit only adds the line of its node, to items it may refer   *)
(* to, and finds every name or reports an error.                           *)

State == [table : [Names -> Chain], errors : Nat]

Refers(item) == item.id_type = "FUNC" \/ InScope(item, scope)
Places_Refer(chain) == {k \in Places(chain) : Refers(chain[k])}
FirstIsVariable(chain) ==
  \E k \in Places_Refer(chain) :
    chain[k].id_type # "FUNC" /\ \A l \in Places_Refer(chain) : k <= l

Gains(a, b) ==
  /\ a.id_type = b.id_type /\ a.data_type = b.data_type /\ a.scope = b.scope
  /\ \A l : l # Line => (Contains(b.lines, l) <=> Contains(a.lines, l))
  /\ Contains(a.lines, Line) => Contains(b.lines, Line)

Grown(T, U, names) ==
  \A n \in Names :
    /\ Len(U[n]) = Len(T[n])
    /\ \A k \in Places(T[n]) :
         /\ Gains(T[n][k], U[n][k])
         /\ Contains(U[n][k].lines, Line) =>
              Contains(T[n][k].lines, Line) \/ (n \in names /\ Refers(T[n][k]))

Marked(T, n) ==
  \E k \in Places(T[n]) : Refers(T[n][k]) /\ Contains(T[n][k].lines, Line)

Visited(s, t, names) ==
  t \in State /\ t.errors >= s.errors /\ Grown(s.table, t.table, names)

LEMMA GrownNothing ==
  ASSUME NEW s \in State, NEW names
  PROVE  Visited(s, s, names)
BY DEF Visited, Grown, Gains, State

LEMMA GrownTwice ==
  ASSUME NEW T \in [Names -> Chain], NEW U \in [Names -> Chain], NEW V \in [Names -> Chain],
         NEW A, NEW B, NEW C, A \subseteq C, B \subseteq C,
         Grown(T, U, A), Grown(U, V, B)
  PROVE  Grown(T, V, C)
<1>1. SUFFICES ASSUME NEW n \in Names
               PROVE  /\ Len(V[n]) = Len(T[n])
                      /\ \A k \in Places(T[n]) :
                           /\ Gains(T[n][k], V[n][k])
                           /\ Contains(V[n][k].lines, Line) =>
                                Contains(T[n][k].lines, Line) \/ (n \in C /\ Refers(T[n][k]))
  BY Zenon DEF Grown
<1>2. /\ Len(U[n]) = Len(T[n])
      /\ \A k \in Places(T[n]) :
           /\ Gains(T[n][k], U[n][k])
           /\ Contains(U[n][k].lines, Line) =>
                Contains(T[n][k].lines, Line) \/ (n \in A /\ Refers(T[n][k]))
  BY Zenon DEF Grown
<1>3. /\ Len(V[n]) = Len(U[n])
      /\ \A k \in Places(U[n]) :
           /\ Gains(U[n][k], V[n][k])
           /\ Contains(V[n][k].lines, Line) =>
                Contains(U[n][k].lines, Line) \/ (n \in B /\ Refers(U[n][k]))
  BY Zenon DEF Grown
<1>4. Places(U[n]) = Places(T[n])
  BY <1>2 DEF Places
<1>5. ASSUME NEW k \in Places(T[n])
      PROVE  /\ Gains(T[n][k], V[n][k])
             /\ Contains(V[n][k].lines, Line) =>
                  Contains(T[n][k].lines, Line) \/ (n \in C /\ Refers(T[n][k]))
  <2>1. Gains(T[n][k], U[n][k]) /\ Gains(U[n][k], V[n][k])
    BY <1>2, <1>3, <1>4, Zenon
  <2>2. Gains(T[n][k], V[n][k])
    BY <2>1, Zenon DEF Gains
  <2>3. Refers(U[n][k]) => Refers(T[n][k])
    BY <2>1, Zenon DEF Gains, Refers, InScope
  <2> QED BY <1>2, <1>3, <1>4, <2>2, <2>3, Zenon
<1> QED BY <1>2, <1>3, <1>5

LEMMA VisitedTwice ==
  ASSUME NEW s \in State, NEW t, NEW u, NEW A, NEW B, NEW C, A \subseteq C, B \subseteq C,
         Visited(s, t, A), Visited(t, u, B)
  PROVE  Visited(s, u, C)
<1>1. t \in State /\ u \in State /\ t.errors >= s.errors /\ u.errors >= t.errors
      /\ Grown(s.table, t.table, A) /\ Grown(t.table, u.table, B)
  BY Zenon DEF Visited
<1>2. s.table \in [Names -> Chain] /\ t.table \in [Names -> Chain] /\ u.table \in [Names -> Chain]
  BY <1>1, Zenon DEF State
<1>3. Grown(s.table, u.table, C)
  BY <1>1, <1>2, GrownTwice
<1>4. s.errors \in Nat /\ t.errors \in Nat /\ u.errors \in Nat
  BY <1>1 DEF State
<1>5. u.errors >= s.errors
  BY <1>1, <1>4
<1> QED BY <1>1, <1>3, <1>5 DEF Visited

\* What a search finds is the same in a table that has only gained lines.
LEMMA GrownAlike ==
  ASSUME NEW T \in [Names -> Chain], NEW U \in [Names -> Chain], NEW A, Grown(T, U, A),
         NEW n \in Names
  PROVE  /\ Places(U[n]) = Places(T[n])
         /\ FunctionPlaces(U[n]) = FunctionPlaces(T[n])
         /\ \A types, where : TypePlaces(U[n], types, where) = TypePlaces(T[n], types, where)
         /\ FirstIsVariable(U[n]) <=> FirstIsVariable(T[n])
         /\ Marked(T, n) => Marked(U, n)
<1>1. /\ Len(U[n]) = Len(T[n])
      /\ \A k \in Places(T[n]) : Gains(T[n][k], U[n][k])
  BY Zenon DEF Grown
<1>2. Places(U[n]) = Places(T[n])
  BY <1>1 DEF Places
<1>3. \A k \in Places(T[n]) : U[n][k].id_type = T[n][k].id_type /\ U[n][k].scope = T[n][k].scope
  BY <1>1, Zenon DEF Gains
<1>4. FunctionPlaces(U[n]) = FunctionPlaces(T[n])
  BY <1>2, <1>3 DEF FunctionPlaces
<1>5. \A types, where : TypePlaces(U[n], types, where) = TypePlaces(T[n], types, where)
  BY <1>2, <1>3 DEF TypePlaces, InScope
<1>6. ASSUME Marked(T, n) PROVE Marked(U, n)
  <2>1. PICK k \in Places(T[n]) : Refers(T[n][k]) /\ Contains(T[n][k].lines, Line)
    BY <1>6, Zenon DEF Marked
  <2>2. Contains(U[n][k].lines, Line)
    BY <1>1, <2>1, Zenon DEF Gains
  <2>3. Refers(U[n][k])
    BY <1>3, <2>1 DEF Refers, InScope
  <2> QED BY <1>2, <2>1, <2>2, <2>3, Zenon DEF Marked
<1>7. FirstIsVariable(U[n]) <=> FirstIsVariable(T[n])
  <2>1. Places_Refer(U[n]) = Places_Refer(T[n])
    BY <1>2, <1>3 DEF Places_Refer, Refers, InScope
  <2>2. Places_Refer(T[n]) \subseteq Places(T[n])
    BY DEF Places_Refer
  <2> QED BY <1>3, <2>1, <2>2 DEF FirstIsVariable
<1> QED BY <1>2, <1>4, <1>5, <1>6, <1>7

LEMMA AppendContains ==
  ASSUME NEW S, NEW s \in Seq(S), NEW e \in S, NEW l
  PROVE  Contains(Append(s, e), l) <=> Contains(s, l) \/ l = e
<1>1. PICK t : t = Append(s, e)
  OBVIOUS
<1>2. /\ t \in Seq(S) /\ Len(t) = Len(s) + 1 /\ t[Len(s) + 1] = e /\ Len(s) \in Nat
      /\ \A k \in 1..Len(s) : t[k] = s[k]
  BY <1>1
<1>3. \A k \in 1..Len(t) : k = Len(s) + 1 \/ k \in 1..Len(s)
  BY <1>2
<1>4. 1..Len(s) \subseteq 1..Len(t) /\ Len(s) + 1 \in 1..Len(t)
  BY <1>2
<1>5. Contains(t, l) <=> Contains(s, l) \/ l = e
  BY <1>2, <1>3, <1>4, Zenon DEF Contains
<1> QED BY <1>1, <1>5

LEMMA LineAdded ==
  ASSUME NEW T \in [Names -> Chain], NEW n \in Names, NEW i \in Places(T[n]),
         Line \in 0..MaxNodes, Refers(T[n][i]), NEW U, U = add_line(T, n, i, Line)
  PROVE  U \in [Names -> Chain] /\ Grown(T, U, {n}) /\ Marked(U, n)
<1>1. PICK line : line = Line
  OBVIOUS
<1>2. PICK chain \in Chain : chain = T[n]
  OBVIOUS
<1>3. i \in 1..Len(chain) /\ chain[i] \in Item /\ Len(chain) \in Nat
  BY <1>2 DEF Places, Chain
<1>4. PICK old : old = chain[i]
  OBVIOUS
<1>5. PICK item : item = [old EXCEPT !.lines = Append(old.lines, line)]
  OBVIOUS
<1>6. /\ item \in Item /\ item.lines = Append(old.lines, line)
      /\ item.id_type = old.id_type /\ item.data_type = old.data_type
      /\ item.scope = old.scope /\ old.lines \in Seq(0..MaxNodes)
  <2>1. PICK S : S = 0..MaxNodes
    OBVIOUS
  <2>2. old \in [id_type : DeclTypes, data_type : {"INT", "VOID"}, scope : Scopes, lines : Seq(S)]
    BY <1>3, <1>4, <2>1, Zenon DEF Item
  <2>3. old.lines \in Seq(S) /\ line \in S
    BY <1>1, <2>1, <2>2
  <2>4. Append(old.lines, line) \in Seq(S)
    BY <2>3
  <2>5. item \in [id_type : DeclTypes, data_type : {"INT", "VOID"}, scope : Scopes, lines : Seq(S)]
    BY <1>5, <2>2, <2>4
  <2>6. /\ item.lines = Append(old.lines, line) /\ item.id_type = old.id_type
        /\ item.data_type = old.data_type /\ item.scope = old.scope
    BY <1>5, <2>2
  <2> QED BY <2>1, <2>3, <2>5, <2>6, Zenon DEF Item
<1>66. PICK new : new = [chain EXCEPT ![i] = item]
  OBVIOUS
<1>7. /\ new \in Chain /\ Len(new) = Len(chain) /\ new[i] = item
      /\ \A k \in 1..Len(chain) : k # i => new[k] = chain[k]
  BY <1>3, <1>6, <1>66 DEF Chain
<1>8. U = [T EXCEPT ![n] = new]
  BY <1>1, <1>2, <1>4, <1>5, <1>66 DEF add_line
<1>9. U \in [Names -> Chain] /\ U[n] = new /\ \A m \in Names : m # n => U[m] = T[m]
  BY <1>7, <1>8
<1>10. \A l : Contains(item.lines, l) <=> Contains(old.lines, l) \/ l = line
  <2>1. PICK S : S = 0..MaxNodes
    OBVIOUS
  <2>2. old.lines \in Seq(S) /\ line \in S
    BY <1>1, <1>6, <2>1
  <2>3. \A l : Contains(Append(old.lines, line), l) <=> Contains(old.lines, l) \/ l = line
    BY <2>2, AppendContains, Zenon
  <2> QED BY <1>6, <2>3
<1>11. Gains(chain[i], item)
  BY <1>1, <1>4, <1>6, <1>10, Zenon DEF Gains
<1>12. \A a : Gains(a, a)
  BY DEF Gains
<1>13. \A k \in Places(chain) : Gains(chain[k], new[k])
  <2>1. SUFFICES ASSUME NEW k \in Places(chain) PROVE Gains(chain[k], new[k])
    OBVIOUS
  <2>2. k = i \/ new[k] = chain[k]
    BY <1>7 DEF Places
  <2> QED BY <1>7, <1>11, <1>12, <2>2, Zenon
<1>14. ASSUME NEW k \in Places(chain), Contains(new[k].lines, Line)
       PROVE  Contains(chain[k].lines, Line) \/ Refers(chain[k])
  <2>1. CASE k = i
    BY <1>2, <2>1
  <2>2. CASE k # i
    BY <1>7, <1>14, <2>2 DEF Places
  <2> QED BY <2>1, <2>2
<1>15. Grown(T, U, {n})
  <2>1. SUFFICES ASSUME NEW m \in Names
                 PROVE  /\ Len(U[m]) = Len(T[m])
                        /\ \A k \in Places(T[m]) :
                             /\ Gains(T[m][k], U[m][k])
                             /\ Contains(U[m][k].lines, Line) =>
                                  Contains(T[m][k].lines, Line) \/ (m \in {n} /\ Refers(T[m][k]))
    BY Zenon DEF Grown
  <2>2. CASE m = n
    BY <1>2, <1>7, <1>9, <1>13, <1>14, <2>2
  <2>3. CASE m # n
    <3>1. U[m] = T[m]
      BY <1>9, <2>3
    <3> QED BY <1>12, <3>1, Zenon
  <2> QED BY <2>2, <2>3
<1>16. Marked(U, n)
  <2>1. Contains(U[n][i].lines, Line)
    BY <1>1, <1>7, <1>9, <1>10
  <2>2. Refers(U[n][i])
    BY <1>2, <1>4, <1>6, <1>7, <1>9 DEF Refers, InScope
  <2>3. i \in Places(U[n])
    BY <1>3, <1>7, <1>9 DEF Places
  <2> QED BY <2>1, <2>2, <2>3, Zenon DEF Marked
<1> QED BY <1>9, <1>15, <1>16


LEMMA Recorded ==
  ASSUME NEW s \in State, NEW n \in Names, NEW i \in 0..Len(s.table[n]),
         Line \in 0..MaxNodes, i # 0 => Refers(s.table[n][i])
  PROVE  /\ Visited(s, RecordUse(s, n, i), {n})
         /\ i # 0 => /\ RecordUse(s, n, i).errors = s.errors
                     /\ Marked(RecordUse(s, n, i).table, n)
         /\ i = 0 => RecordUse(s, n, i).errors = s.errors + 1
<1>1. s.table \in [Names -> Chain] /\ s.errors \in Nat
  BY DEF State
<1>2. CASE i = 0
  <2>1. RecordUse(s, n, i) = [s EXCEPT !.errors = @ + 1]
    BY <1>2 DEF RecordUse, show_semantic_error
  <2>2. PICK t : t = RecordUse(s, n, i)
    OBVIOUS
  <2>3. t \in State /\ t.errors = s.errors + 1 /\ t.table = s.table
    BY <1>1, <2>1, <2>2 DEF State
  <2>4. Grown(s.table, t.table, {n})
    BY <2>3, GrownNothing DEF Visited
  <2>5. t.errors >= s.errors
    BY <1>1, <2>3
  <2> QED BY <1>2, <2>2, <2>3, <2>4, <2>5, Zenon DEF Visited
<1>3. CASE i # 0
  <2>1. PICK U : U = add_line(s.table, n, i, Line)
    OBVIOUS
  <2>2. i \in Places(s.table[n])
    BY <1>1, <1>3 DEF Places, Chain
  <2>3. U \in [Names -> Chain] /\ Grown(s.table, U, {n}) /\ Marked(U, n)
    BY <1>1, <1>3, <2>1, <2>2, LineAdded
  <2>4. PICK t : t = RecordUse(s, n, i)
    OBVIOUS
  <2>5. t = [s EXCEPT !.table = U]
    BY <1>3, <2>1, <2>4 DEF RecordUse
  <2>6. t \in State /\ t.errors = s.errors /\ t.table = U
    BY <1>1, <2>3, <2>5 DEF State
  <2>7. t.errors >= s.errors
    BY <1>1, <2>6
  <2> QED BY <1>3, <2>3, <2>4, <2>6, <2>7, Zenon DEF Visited
<1> QED BY <1>2, <1>3

-----------------------------------------------------------------------------
(* Operands and arguments. *)

HasFunction(T, n)        == FunctionPlaces(T[n]) # {}
HasVariable(T, n, types) == TypePlaces(T[n], types, scope) # {}

FoundOperand(T, a) ==
  IF a.op = "CALL" THEN HasFunction(T, a.name) ELSE HasVariable(T, a.name, Expected(a.op))

FoundSimple(T, a) ==
  IF a.op = "CALL" THEN HasFunction(T, a.name) ELSE FirstIsVariable(T[a.name])

LEMMA GrownFinds ==
  ASSUME NEW T \in [Names -> Chain], NEW U \in [Names -> Chain], NEW A, Grown(T, U, A)
  PROVE  /\ \A a : a.name \in Names =>
              /\ FoundOperand(U, a) <=> FoundOperand(T, a)
              /\ FoundSimple(U, a) <=> FoundSimple(T, a)
         /\ \A n \in Names : Marked(T, n) => Marked(U, n)
<1>1. \A n \in Names : /\ FunctionPlaces(U[n]) = FunctionPlaces(T[n])
                       /\ \A types, where : TypePlaces(U[n], types, where) = TypePlaces(T[n], types, where)
                       /\ FirstIsVariable(U[n]) <=> FirstIsVariable(T[n])
                       /\ Marked(T, n) => Marked(U, n)
  BY GrownAlike, Zenon
<1>2. \A a : a.name \in Names => (FoundOperand(U, a) <=> FoundOperand(T, a))
  BY <1>1, Zenon DEF FoundOperand, HasFunction, HasVariable
<1>3. \A a : a.name \in Names => (FoundSimple(U, a) <=> FoundSimple(T, a))
  BY <1>1, Zenon DEF FoundSimple, HasFunction
<1> QED BY <1>1, <1>2, <1>3, Zenon

LEMMA OperandVisited ==
  ASSUME NEW s \in State, NEW a, a.name \in Names, Line \in 0..MaxNodes
  PROVE  /\ Visited(s, traverse_expr(s, a), {a.name})
         /\ FoundOperand(s.table, a) => /\ traverse_expr(s, a).errors = s.errors
                                        /\ Marked(traverse_expr(s, a).table, a.name)
         /\ ~ FoundOperand(s.table, a) => traverse_expr(s, a).errors = s.errors + 1
<1>1. PICK n \in Names : n = a.name
  OBVIOUS
<1>2. PICK i : i = search_symbol_expr(s.table, n, scope, a.op)
  OBVIOUS
<1>3. s.table[n] \in Chain /\ s.table \in [Names -> Chain]
  BY DEF State
<1>4. traverse_expr(s, a) = RecordUse(s, n, i)
  BY <1>1, <1>2 DEF traverse_expr
<1>5. /\ i \in 0..Len(s.table[n]) /\ (i # 0 => Refers(s.table[n][i]))
      /\ i # 0 <=> FoundOperand(s.table, a)
  <2>1. CASE a.op = "CALL"
    <3>1. FirstIn(s.table[n], FunctionPlaces(s.table[n]), i)
      BY <1>2, <1>3, <2>1, Searches
    <3> QED BY <1>1, <2>1, <3>1 DEF FirstIn, FunctionPlaces, Refers, FoundOperand, HasFunction
  <2>2. CASE a.op # "CALL"
    <3>1. FirstIn(s.table[n], TypePlaces(s.table[n], Expected(a.op), scope), i)
      BY <1>2, <1>3, <2>2, Searches
    <3> QED BY <1>1, <2>2, <3>1 DEF FirstIn, TypePlaces, Refers, FoundOperand, HasVariable
  <2> QED BY <2>1, <2>2
<1>6. /\ Visited(s, RecordUse(s, n, i), {n})
      /\ i # 0 => RecordUse(s, n, i).errors = s.errors /\ Marked(RecordUse(s, n, i).table, n)
      /\ i = 0 => RecordUse(s, n, i).errors = s.errors + 1
  BY <1>5, Recorded
<1> QED BY <1>1, <1>4, <1>5, <1>6, Zenon

LEMMA SimpleVisited ==
  ASSUME NEW s \in State, NEW a, a.name \in Names, Line \in 0..MaxNodes
  PROVE  /\ Visited(s, func_call(s, a), {a.name})
         /\ FoundSimple(s.table, a) => /\ func_call(s, a).errors = s.errors
                                       /\ Marked(func_call(s, a).table, a.name)
         /\ ~ FoundSimple(s.table, a) => func_call(s, a).errors = s.errors + 1
<1>1. CASE a.op = "CALL"
  <2>1. func_call(s, a) = traverse_expr(s, a)
    BY <1>1 DEF func_call
  <2>2. FoundSimple(s.table, a) <=> FoundOperand(s.table, a)
    BY <1>1 DEF FoundSimple, FoundOperand
  <2> QED BY <2>1, <2>2, OperandVisited, Zenon
<1>2. CASE a.op # "CALL"
  <2>1. PICK n \in Names : n = a.name
    OBVIOUS
  <2>2. PICK chain \in Chain : chain = s.table[n]
    BY DEF State
  <2>3. PICK first : first = SelectInSeq(chain, LAMBDA item : item.id_type = "FUNC" \/ InScope(item, scope))
    OBVIOUS
  <2>4. FirstIn(chain, Places_Refer(chain), first)
    <3>1. first = IF Places_Refer(chain) # {} THEN Min(Places_Refer(chain)) ELSE 0
      BY <2>3 DEF SelectInSeq, Places_Refer, Places, Refers
    <3>2. Places_Refer(chain) \subseteq 1..Len(chain) /\ Len(chain) \in Nat
      BY <2>2 DEF Places_Refer, Places, Chain
    <3> QED BY <3>1, <3>2, FirstPlace DEF FirstIn
  <2>5. PICK i : i = IF first # 0 /\ chain[first].id_type = "FUNC" THEN 0 ELSE first
    OBVIOUS
  <2>6. func_call(s, a) = RecordUse(s, n, i)
    BY <1>2, <2>1, <2>2, <2>3, <2>5 DEF func_call
  <2>7. i \in 0..Len(s.table[n]) /\ (i # 0 => Refers(s.table[n][i]))
    <3>1. 0 \in 0..Len(chain)
      BY <2>2 DEF Chain
    <3> QED BY <2>2, <2>4, <2>5, <3>1 DEF FirstIn, Places_Refer
  <2>8. /\ Visited(s, RecordUse(s, n, i), {n})
        /\ i # 0 => RecordUse(s, n, i).errors = s.errors /\ Marked(RecordUse(s, n, i).table, n)
        /\ i = 0 => RecordUse(s, n, i).errors = s.errors + 1
    BY <2>7, Recorded
  <2>9. i # 0 <=> FoundSimple(s.table, a)
    <3>1. Places_Refer(chain) \subseteq Nat
      BY DEF Places_Refer, Places
    <3>2. FirstIsVariable(chain) <=> first # 0 /\ chain[first].id_type # "FUNC"
      BY <2>4, <3>1 DEF FirstIn, FirstIsVariable
    <3> QED BY <1>2, <2>1, <2>2, <2>5, <3>2 DEF FoundSimple
  <2> QED BY <2>1, <2>6, <2>8, <2>9, Zenon
<1> QED BY <1>1, <1>2

NamesIn(args) == {args[k].name : k \in DOMAIN args}

\* What the visit of some arguments does to s, if it finds those in right and
\* misses those in wrong.
Passed(s, t, args, right, wrong) ==
  /\ Visited(s, t, NamesIn(args))
  /\ wrong = {} => t.errors = s.errors /\ \A k \in right : Marked(t.table, args[k].name)
  /\ wrong # {} => t.errors > s.errors

LEMMA PassedTwice ==
  ASSUME NEW s \in State, NEW t, NEW u, NEW args,
         \A k \in DOMAIN args : args[k].name \in Names,
         NEW A, A \subseteq DOMAIN args, NEW B, B \subseteq DOMAIN args, NEW AA, NEW BB,
         Passed(s, t, args, A, AA), Passed(t, u, args, B, BB)
  PROVE  Passed(s, u, args, A \cup B, AA \cup BB)
<1>1. /\ Visited(s, t, NamesIn(args)) /\ Visited(t, u, NamesIn(args))
      /\ AA = {} => t.errors = s.errors /\ \A k \in A : Marked(t.table, args[k].name)
      /\ AA # {} => t.errors > s.errors
      /\ BB = {} => u.errors = t.errors /\ \A k \in B : Marked(u.table, args[k].name)
      /\ BB # {} => u.errors > t.errors
  BY Zenon DEF Passed
<1>2. t \in State /\ u \in State /\ Grown(t.table, u.table, NamesIn(args))
      /\ t.errors >= s.errors /\ u.errors >= t.errors
  BY <1>1, Zenon DEF Visited
<1>3. /\ t.table \in [Names -> Chain] /\ u.table \in [Names -> Chain]
      /\ t.errors \in Nat /\ u.errors \in Nat /\ s.errors \in Nat
  BY <1>2 DEF State
<1>4. Visited(s, u, NamesIn(args))
  BY <1>1, VisitedTwice
<1>5. \A n \in Names : Marked(t.table, n) => Marked(u.table, n)
  BY <1>2, <1>3, GrownFinds
<1>6. ASSUME AA \cup BB = {}
      PROVE  u.errors = s.errors /\ \A k \in A \cup B : Marked(u.table, args[k].name)
  <2>1. AA = {} /\ BB = {}
    BY <1>6
  <2>2. \A k \in A \cup B : args[k].name \in Names
    OBVIOUS
  <2>3. \A k \in A : Marked(u.table, args[k].name)
    BY <1>1, <1>5, <2>1, <2>2
  <2> QED BY <1>1, <2>1, <2>3
<1>7. ASSUME AA \cup BB # {} PROVE u.errors > s.errors
  <2>1. AA # {} \/ BB # {}
    BY <1>7
  <2> QED BY <1>1, <1>2, <1>3, <2>1
<1> QED BY <1>4, <1>6, <1>7, Zenon DEF Passed

Through_Sets(R, lo, hi) == UNION {R[k] : k \in lo..hi}

LEMMA PassedAlong ==
  ASSUME NEW s \in State, NEW args, \A k \in DOMAIN args : args[k].name \in Names,
         NEW a \in Nat, NEW n \in Nat, a <= n, NEW f, f[a] = s,
         NEW R \in [(a + 1)..n -> SUBSET DOMAIN args], NEW W,
         \A k \in (a + 1)..n :
           f[k - 1] \in State /\ Grown(s.table, f[k - 1].table, NamesIn(args)) =>
             Passed(f[k - 1], f[k], args, R[k], W[k])
  PROVE  Passed(s, f[n], args, Through_Sets(R, a + 1, n), Through_Sets(W, a + 1, n))
<1>1. PICK S : S = {k \in a..n : Passed(s, f[k], args, Through_Sets(R, a + 1, k), Through_Sets(W, a + 1, k))}
  OBVIOUS
<1>2. a \in S
  <2>1. (a + 1)..a = {} /\ a \in a..n
    OBVIOUS
  <2>2. Through_Sets(R, a + 1, a) = {} /\ Through_Sets(W, a + 1, a) = {}
    BY <2>1 DEF Through_Sets
  <2>3. Visited(s, s, NamesIn(args))
    BY GrownNothing
  <2>4. Passed(s, s, args, {}, {})
    BY <2>3 DEF Passed
  <2> QED BY <1>1, <2>1, <2>2, <2>4
<1>3. ASSUME NEW k \in (a + 1)..n, k - 1 \in S PROVE k \in S
  <2>1. PICK t : t = f[k - 1]
    OBVIOUS
  <2>2. Passed(s, t, args, Through_Sets(R, a + 1, k - 1), Through_Sets(W, a + 1, k - 1))
    BY <1>1, <1>3, <2>1
  <2>3. t \in State /\ Grown(s.table, t.table, NamesIn(args))
    BY <2>2, Zenon DEF Passed, Visited
  <2>4. Passed(t, f[k], args, R[k], W[k])
    BY <2>1, <2>3
  <2>5. (a + 1)..k = ((a + 1)..(k - 1)) \cup {k} /\ (a + 1)..(k - 1) \subseteq (a + 1)..n /\ k \in a..n
    OBVIOUS
  <2>6. /\ Through_Sets(R, a + 1, k) = Through_Sets(R, a + 1, k - 1) \cup R[k]
        /\ Through_Sets(W, a + 1, k) = Through_Sets(W, a + 1, k - 1) \cup W[k]
    BY <2>5, Zenon DEF Through_Sets
  <2>7. Through_Sets(R, a + 1, k - 1) \subseteq DOMAIN args /\ R[k] \subseteq DOMAIN args
    BY <2>5 DEF Through_Sets
  <2>8. Passed(s, f[k], args, Through_Sets(R, a + 1, k - 1) \cup R[k],
               Through_Sets(W, a + 1, k - 1) \cup W[k])
    BY <2>2, <2>4, <2>7, PassedTwice
  <2> QED BY <1>1, <2>5, <2>6, <2>8
<1>4. n \in a..n
  OBVIOUS
<1>5. \A k \in a..n : k \in S
  BY <1>2, <1>3, Through
<1> QED BY <1>1, <1>4, <1>5

WrongOperands(T, args, lo, hi) == {k \in lo..hi : ~ FoundOperand(T, args[k])}

LEMMA ArgumentFacts ==
  ASSUME NEW args \in Seq(Arguments)
  PROVE  /\ Len(args) \in Nat /\ DOMAIN args = 1..Len(args)
         /\ \A k \in 1..Len(args) : args[k] \in Arguments /\ args[k].name \in Names
         /\ \A k \in 1..Len(args) : {args[k].name} \subseteq NamesIn(args)
<1>1. Len(args) \in Nat /\ DOMAIN args = 1..Len(args) /\ \A k \in 1..Len(args) : args[k] \in Arguments
  OBVIOUS
<1>2. \A a \in Arguments : a.name \in Names
  BY DEF Arguments
<1> QED BY <1>1, <1>2 DEF NamesIn

\* A function defined along a range exists.
Recurs(f, d, h, a, n) == f = [k \in a..n |-> IF k = a THEN d ELSE h[<<k, f[k - 1]>>]]

LEMMA Recursion ==
  ASSUME NEW D, NEW d \in D, NEW a \in Nat, NEW n \in Nat, a <= n,
         NEW h \in [((a + 1)..n) \X D -> D]
  PROVE  \E f \in [a..n -> D] : Recurs(f, d, h, a, n)
<1>1. PICK f \in [a..n -> D] : f[a] = d /\ Along(f, h, a, n)
  BY Iterates
<1>2. \A k \in a..n : k # a => k \in (a + 1)..n
  OBVIOUS
<1>3. \A k \in a..n : f[k] = IF k = a THEN d ELSE h[<<k, f[k - 1]>>]
  BY <1>1, <1>2 DEF Along
<1>4. f = [k \in a..n |-> f[k]]
  OBVIOUS
<1> QED BY <1>3, <1>4 DEF Recurs

LEMMA SiblingsVisited ==
  ASSUME NEW s \in State, NEW args \in Seq(Arguments), NEW first \in 1..Len(args),
         Line \in 0..MaxNodes
  PROVE  Passed(s, VisitSiblings(s, args, first), args, first..Len(args),
                WrongOperands(s.table, args, first, Len(args)))
<1>1. PICK n \in Nat : n = Len(args)
  OBVIOUS
<1>2. PICK before \in Nat : before = first - 1
  OBVIOUS
<1>3. /\ before <= n /\ before + 1 = first /\ DOMAIN args = 1..n
      /\ \A k \in before..n : k = before <=> k < first
      /\ \A k \in first..n : k \in 1..n /\ k - 1 \in before..n /\ k \in before..n /\ k # before
  BY <1>1, <1>2
<1>4. \A k \in 1..n : args[k].name \in Names /\ {args[k].name} \subseteq NamesIn(args)
  BY <1>1, ArgumentFacts
<1>5. \A t \in State : \A k \in 1..n : traverse_expr(t, args[k]) \in State
  BY <1>4, OperandVisited, Zenon DEF Visited
<1> DEFINE Step(f) == [k \in before..n |-> IF k < first THEN s ELSE traverse_expr(f[k - 1], args[k])]
<1>6. \E f : f = Step(f)
  <2>1. PICK h : h = [p \in (first..n) \X State |-> traverse_expr(p[2], args[p[1]])]
    OBVIOUS
  <2>2. h \in [((before + 1)..n) \X State -> State]
    BY <1>3, <1>5, <2>1
  <2>3. PICK f \in [before..n -> State] :
          f = [k \in before..n |-> IF k = before THEN s ELSE h[<<k, f[k - 1]>>]]
    <3>1. before <= n
      BY <1>3
    <3>2. \E f \in [before..n -> State] : Recurs(f, s, h, before, n)
      BY <2>2, <3>1, Recursion, Zenon
    <3> QED BY <3>2 DEF Recurs
  <2>4. \A k \in first..n : \A t \in State : h[<<k, t>>] = traverse_expr(t, args[k])
    BY <2>1
  <2>5. \A k \in before..n : k # before => k \in first..n
    BY <1>3
  <2>6. \A k \in before..n : k # before => h[<<k, f[k - 1]>>] = traverse_expr(f[k - 1], args[k])
    BY <1>3, <2>3, <2>4, <2>5
  <2>7. f = Step(f)
    BY <1>3, <2>3, <2>6
  <2> QED BY <2>7
<1>7. PICK g : g = CHOOSE f : f = Step(f)
  OBVIOUS
<1>8. g = Step(g)
  BY <1>6, <1>7, Zenon
<1>9. VisitSiblings(s, args, first) = g[n]
  BY <1>1, <1>2, <1>7 DEF VisitSiblings
<1>10. g[before] = s /\ \A k \in first..n : g[k] = traverse_expr(g[k - 1], args[k])
  <2>1. PICK e : e = Step(g)
    OBVIOUS
  <2>2. \A k \in before..n : e[k] = IF k < first THEN s ELSE traverse_expr(g[k - 1], args[k])
    BY <2>1
  <2> HIDE DEF Step
  <2>3. \A k \in before..n : g[k] = IF k < first THEN s ELSE traverse_expr(g[k - 1], args[k])
    BY <1>8, <2>1, <2>2
  <2>4. before \in before..n /\ before < first
    BY <1>3
  <2> QED BY <1>3, <2>3, <2>4
<1> HIDE DEF Step
<1>11. PICK T : T = s.table
  OBVIOUS
<1>12. PICK R : R = [k \in first..n |-> {k}]
  OBVIOUS
<1>13. PICK W : W = [k \in first..n |-> {l \in {k} : ~ FoundOperand(T, args[l])}]
  OBVIOUS
<1>14. ASSUME NEW k \in first..n, g[k - 1] \in State, Grown(T, g[k - 1].table, NamesIn(args))
       PROVE  Passed(g[k - 1], g[k], args, R[k], W[k])
  <2>1. PICK t \in State : t = g[k - 1]
    BY <1>14
  <2>2. PICK u : u = traverse_expr(t, args[k])
    OBVIOUS
  <2>3. args[k].name \in Names /\ {args[k].name} \subseteq NamesIn(args) /\ g[k] = u
    BY <1>3, <1>4, <1>10, <2>1, <2>2
  <2>4. t.table \in [Names -> Chain] /\ T \in [Names -> Chain]
    BY <1>11 DEF State
  <2>5. FoundOperand(t.table, args[k]) <=> FoundOperand(T, args[k])
    BY <1>14, <2>1, <2>3, <2>4, GrownFinds, Zenon
  <2>6. /\ Visited(t, u, {args[k].name})
        /\ FoundOperand(T, args[k]) => u.errors = t.errors /\ Marked(u.table, args[k].name)
        /\ ~ FoundOperand(T, args[k]) => u.errors = t.errors + 1
    <3>1. PICK a : a = args[k]
      OBVIOUS
    <3>2. /\ Visited(t, traverse_expr(t, a), {a.name})
          /\ FoundOperand(t.table, a) => /\ traverse_expr(t, a).errors = t.errors
                                         /\ Marked(traverse_expr(t, a).table, a.name)
          /\ ~ FoundOperand(t.table, a) => traverse_expr(t, a).errors = t.errors + 1
      BY <2>3, <3>1, OperandVisited
    <3> QED BY <2>2, <2>5, <3>1, <3>2
  <2>7. Visited(t, u, NamesIn(args))
    BY <2>3, <2>6, GrownNothing, VisitedTwice
  <2>8. u.errors \in Nat /\ t.errors \in Nat
    BY <2>7 DEF Visited, State
  <2>9. W[k] = {} => u.errors = t.errors /\ \A l \in R[k] : Marked(u.table, args[l].name)
    BY <1>12, <1>13, <2>6
  <2>10. W[k] # {} => u.errors > t.errors
    BY <1>13, <2>6, <2>8
  <2> QED BY <2>1, <2>3, <2>7, <2>9, <2>10, Zenon DEF Passed
<1>15. Passed(s, g[n], args, Through_Sets(R, first, n), Through_Sets(W, first, n))
  <2>1. R \in [first..n -> SUBSET DOMAIN args]
    BY <1>3, <1>12
  <2>2. \A k \in DOMAIN args : args[k].name \in Names
    BY <1>3, <1>4
  <2> QED BY <1>3, <1>10, <1>11, <1>14, <2>1, <2>2, PassedAlong
<1>16. Through_Sets(R, first, n) = first..n
  BY <1>12 DEF Through_Sets
<1>17. Through_Sets(W, first, n) = WrongOperands(T, args, first, n)
  BY <1>13 DEF Through_Sets, WrongOperands
<1> QED BY <1>1, <1>9, <1>11, <1>15, <1>16, <1>17

WrongArguments(T, args) ==
  {l \in DOMAIN args :
     \/ args[l].op \notin Complex /\ ~ FoundSimple(T, args[l])
     \/ ~ FoundOperand(T, args[l]) /\ \E k \in 1..l : args[k].op \in Complex}

VisitArgument(t, args, k) ==
  IF args[k].op \in Complex THEN VisitSiblings(t, args, k) ELSE func_call(t, args[k])

LEMMA ArgumentVisited ==
  ASSUME NEW t \in State, NEW args \in Seq(Arguments), NEW k \in 1..Len(args), NEW T,
         T = t.table, Line \in 0..MaxNodes,
         NEW R, R = IF args[k].op \in Complex THEN k..Len(args) ELSE {k},
         NEW W, W = {l \in R : IF args[k].op \in Complex THEN ~ FoundOperand(T, args[l])
                                                         ELSE ~ FoundSimple(T, args[l])}
  PROVE  Passed(t, VisitArgument(t, args, k), args, R, W)
<1>1. PICK u : u = VisitArgument(t, args, k)
  OBVIOUS
<1>2. CASE args[k].op \in Complex
  <2>1. u = VisitSiblings(t, args, k)
    BY <1>1, <1>2 DEF VisitArgument
  <2>2. R = k..Len(args) /\ W = WrongOperands(T, args, k, Len(args))
    BY <1>2 DEF WrongOperands
  <2> QED BY <1>1, <2>1, <2>2, SiblingsVisited
<1>3. CASE args[k].op \notin Complex
  <2>1. PICK a : a = args[k]
    OBVIOUS
  <2>2. a.name \in Names /\ {a.name} \subseteq NamesIn(args)
    BY <2>1, ArgumentFacts
  <2>3. u = func_call(t, a)
    BY <1>1, <1>3, <2>1 DEF VisitArgument
  <2>4. /\ Visited(t, u, {a.name})
        /\ FoundSimple(T, a) => u.errors = t.errors /\ Marked(u.table, a.name)
        /\ ~ FoundSimple(T, a) => u.errors = t.errors + 1
    BY <2>2, <2>3, SimpleVisited
  <2>5. Visited(t, u, NamesIn(args))
    BY <2>2, <2>4, GrownNothing, VisitedTwice
  <2>6. u.errors \in Nat /\ t.errors \in Nat
    BY <2>5 DEF Visited, State
  <2>7. R = {k} /\ (W = {} <=> FoundSimple(T, a))
    BY <1>3, <2>1
  <2>8. W = {} => u.errors = t.errors /\ \A l \in R : Marked(u.table, args[l].name)
    BY <2>1, <2>4, <2>7
  <2>9. W # {} => u.errors > t.errors
    BY <2>4, <2>6, <2>7
  <2> QED BY <1>1, <2>5, <2>8, <2>9, Zenon DEF Passed
<1> QED BY <1>2, <1>3

LEMMA ArgumentsVisited ==
  ASSUME NEW s \in State, NEW args \in Seq(Arguments), Line \in 0..MaxNodes
  PROVE  Passed(s, VisitArguments(s, args), args, DOMAIN args, WrongArguments(s.table, args))
<1>1. PICK n \in Nat : n = Len(args)
  OBVIOUS
<1>2. DOMAIN args = 1..n /\ 0 \in 0..n /\ n \in 0..n /\ 0 + 1 = 1 /\ 0 <= n
      /\ \A k \in 1..n : k \in 0..n /\ k # 0 /\ k - 1 \in 0..n
  BY <1>1
<1>3. \A k \in 1..n : args[k].name \in Names
  BY <1>1, ArgumentFacts
<1>4. \A t \in State : \A k \in 1..n : VisitArgument(t, args, k) \in State
  <2>1. SUFFICES ASSUME NEW t \in State, NEW k \in 1..n PROVE VisitArgument(t, args, k) \in State
    OBVIOUS
  <2>2. \E R, W : Passed(t, VisitArgument(t, args, k), args, R, W)
    BY <1>1, ArgumentVisited
  <2> QED BY <2>2, Zenon DEF Passed, Visited
<1> DEFINE Step(f) == [k \in 0..n |-> IF k = 0 THEN s
                                      ELSE IF args[k].op \in Complex THEN VisitSiblings(f[k - 1], args, k)
                                      ELSE func_call(f[k - 1], args[k])]
<1>5. \A f : \A k \in 0..n : Step(f)[k] = IF k = 0 THEN s ELSE VisitArgument(f[k - 1], args, k)
  BY DEF VisitArgument
<1>6. \E f : f = Step(f)
  <2>1. PICK h : h = [p \in (1..n) \X State |-> VisitArgument(p[2], args, p[1])]
    OBVIOUS
  <2>2. h \in [((0 + 1)..n) \X State -> State]
    BY <1>2, <1>4, <2>1
  <2>3. PICK f \in [0..n -> State] : f = [k \in 0..n |-> IF k = 0 THEN s ELSE h[<<k, f[k - 1]>>]]
    <3>1. \E f \in [0..n -> State] : Recurs(f, s, h, 0, n)
      BY <1>2, <2>2, Recursion, Zenon
    <3> QED BY <3>1 DEF Recurs
  <2>4. \A k \in 1..n : \A t \in State : h[<<k, t>>] = VisitArgument(t, args, k)
    BY <2>1
  <2>5. \A k \in 0..n : k # 0 => k \in 1..n
    OBVIOUS
  <2>6. \A k \in 0..n : k # 0 => h[<<k, f[k - 1]>>] = VisitArgument(f[k - 1], args, k)
    BY <1>2, <2>3, <2>4, <2>5
  <2>7. \A k \in 0..n : f[k] = Step(f)[k]
    <3> HIDE DEF Step
    <3> QED BY <1>5, <2>3, <2>6
  <2>8. Step(f) = [k \in 0..n |-> Step(f)[k]]
    OBVIOUS
  <2>9. f = Step(f)
    <3> HIDE DEF Step
    <3> QED BY <2>3, <2>7, <2>8
  <2> QED BY <2>9
<1>7. PICK g : g = CHOOSE f : f = Step(f)
  OBVIOUS
<1>8. g = Step(g)
  BY <1>6, <1>7, Zenon
<1>9. VisitArguments(s, args) = g[n]
  BY <1>1, <1>7 DEF VisitArguments
<1> HIDE DEF Step
<1>10. g[0] = s /\ \A k \in 1..n : g[k] = VisitArgument(g[k - 1], args, k)
  BY <1>2, <1>5, <1>8
<1>11. PICK T : T = s.table
  OBVIOUS
<1>12. PICK R : R = [k \in 1..n |-> IF args[k].op \in Complex THEN k..n ELSE {k}]
  OBVIOUS
<1>13. PICK W : W = [k \in 1..n |-> {l \in R[k] : IF args[k].op \in Complex
                                                 THEN ~ FoundOperand(T, args[l])
                                                 ELSE ~ FoundSimple(T, args[l])}]
  OBVIOUS
<1>14. R \in [1..n -> SUBSET DOMAIN args]
  BY <1>2, <1>12
<1>15. ASSUME NEW k \in 1..n, g[k - 1] \in State, Grown(T, g[k - 1].table, NamesIn(args))
       PROVE  Passed(g[k - 1], g[k], args, R[k], W[k])
  <2>1. PICK t \in State : t = g[k - 1]
    BY <1>15
  <2>2. t.table \in [Names -> Chain] /\ T \in [Names -> Chain]
    BY <1>11 DEF State
  <2>3. \A l \in 1..n : /\ FoundOperand(t.table, args[l]) <=> FoundOperand(T, args[l])
                        /\ FoundSimple(t.table, args[l]) <=> FoundSimple(T, args[l])
    BY <1>3, <1>15, <2>1, <2>2, GrownFinds, Zenon
  <2>4. R[k] \subseteq 1..n
    BY <1>2, <1>14
  <2>5. W[k] = {l \in R[k] : IF args[k].op \in Complex THEN ~ FoundOperand(t.table, args[l])
                                                      ELSE ~ FoundSimple(t.table, args[l])}
    BY <1>13, <2>3, <2>4
  <2>6. R[k] = IF args[k].op \in Complex THEN k..Len(args) ELSE {k}
    BY <1>1, <1>12
  <2>7. Passed(t, VisitArgument(t, args, k), args, R[k], W[k])
    BY <1>1, <2>5, <2>6, ArgumentVisited
  <2> QED BY <1>10, <2>1, <2>7
<1>16. Passed(s, g[n], args, Through_Sets(R, 1, n), Through_Sets(W, 1, n))
  <2>1. \A k \in DOMAIN args : args[k].name \in Names
    BY <1>2, <1>3
  <2>2. /\ R \in [(0 + 1)..n -> SUBSET DOMAIN args]
        /\ \A k \in (0 + 1)..n :
             g[k - 1] \in State /\ Grown(s.table, g[k - 1].table, NamesIn(args)) =>
               Passed(g[k - 1], g[k], args, R[k], W[k])
    BY <1>2, <1>11, <1>14, <1>15
  <2>3. Passed(s, g[n], args, Through_Sets(R, 0 + 1, n), Through_Sets(W, 0 + 1, n))
    BY <1>2, <1>10, <2>1, <2>2, PassedAlong
  <2> QED BY <1>2, <2>3
<1>17. Through_Sets(R, 1, n) = DOMAIN args
  <2>1. \A k \in 1..n : k \in R[k]
    BY <1>12
  <2> QED BY <1>2, <1>14, <2>1 DEF Through_Sets
<1>18. Through_Sets(W, 1, n) = WrongArguments(T, args)
  <2>1. \A k \in 1..n : \A l : l \in W[k] <=>
          \/ args[k].op \in Complex /\ l \in k..n /\ ~ FoundOperand(T, args[l])
          \/ args[k].op \notin Complex /\ l = k /\ ~ FoundSimple(T, args[l])
    BY <1>12, <1>13
  <2>2. \A l : l \in Through_Sets(W, 1, n) <=> \E k \in 1..n : l \in W[k]
    BY DEF Through_Sets
  <2>3. \A k, l \in 1..n : l \in k..n <=> k \in 1..l
    OBVIOUS
  <2>4. \A k \in 1..n : k..n \subseteq 1..n
    OBVIOUS
  <2>5. \A l \in 1..n : 1..l \subseteq 1..n
    OBVIOUS
  <2>6. \A l \in Through_Sets(W, 1, n) : l \in WrongArguments(T, args)
    BY <1>2, <2>1, <2>2, <2>3, <2>4 DEF WrongArguments
  <2>7. \A l \in WrongArguments(T, args) : l \in Through_Sets(W, 1, n)
    BY <1>2, <2>1, <2>2, <2>3, <2>5 DEF WrongArguments
  <2> QED BY <2>6, <2>7
<1> QED BY <1>9, <1>11, <1>16, <1>17, <1>18

LEMMA CallVisited ==
  ASSUME NEW s \in State, NEW name \in Names, NEW args \in Seq(Arguments), Line \in 0..MaxNodes,
         NEW u, u = validate_function_call(s, name, args)
  PROVE  /\ Visited(s, u, {name} \cup NamesIn(args))
         /\ HasFunction(s.table, name) /\ WrongArguments(s.table, args) = {} =>
              /\ u.errors = s.errors /\ Marked(u.table, name)
              /\ \A k \in DOMAIN args : Marked(u.table, args[k].name)
         /\ ~ (HasFunction(s.table, name) /\ WrongArguments(s.table, args) = {}) =>
              u.errors > s.errors
<1>1. PICK a : a = [op |-> "CALL", name |-> name]
  OBVIOUS
<1>2. a.op = "CALL" /\ a.name = name
  BY <1>1
<1>3. PICK t : t = traverse_expr(s, a)
  OBVIOUS
<1>4. u = VisitArguments(t, args)
  BY <1>1, <1>3 DEF validate_function_call
<1>5. FoundOperand(s.table, a) <=> HasFunction(s.table, name)
  BY <1>2 DEF FoundOperand
<1>6. /\ Visited(s, t, {name})
      /\ HasFunction(s.table, name) => t.errors = s.errors /\ Marked(t.table, name)
      /\ ~ HasFunction(s.table, name) => t.errors = s.errors + 1
  BY <1>2, <1>3, <1>5, OperandVisited
<1>7. t \in State /\ t.table \in [Names -> Chain] /\ s.table \in [Names -> Chain]
      /\ Grown(s.table, t.table, {name})
  BY <1>6 DEF Visited, State
<1>8. Passed(t, u, args, DOMAIN args, WrongArguments(t.table, args))
  BY <1>4, <1>7, ArgumentsVisited
<1>9. \A k \in DOMAIN args : args[k].name \in Names
  BY ArgumentFacts
<1>10. WrongArguments(t.table, args) = WrongArguments(s.table, args)
  <2>1. \A k \in DOMAIN args : /\ FoundOperand(t.table, args[k]) <=> FoundOperand(s.table, args[k])
                               /\ FoundSimple(t.table, args[k]) <=> FoundSimple(s.table, args[k])
    BY <1>7, <1>9, GrownFinds, Zenon
  <2> QED BY <2>1 DEF WrongArguments
<1>11. Visited(t, u, NamesIn(args))
  BY <1>8 DEF Passed
<1>12. Visited(s, u, {name} \cup NamesIn(args))
  BY <1>6, <1>11, VisitedTwice
<1>13. u.table \in [Names -> Chain] /\ Grown(t.table, u.table, NamesIn(args))
  BY <1>11 DEF Visited, State
<1>14. Marked(t.table, name) => Marked(u.table, name)
  BY <1>7, <1>13, GrownFinds, Zenon
<1>15. s.errors \in Nat /\ t.errors \in Nat /\ u.errors \in Nat
  BY <1>7, <1>11 DEF Visited, State
<1>16. /\ WrongArguments(s.table, args) = {} =>
            u.errors = t.errors /\ \A k \in DOMAIN args : Marked(u.table, args[k].name)
       /\ WrongArguments(s.table, args) # {} => u.errors > t.errors
  BY <1>8, <1>10 DEF Passed
<1>17. ASSUME ~ HasFunction(s.table, name) \/ WrongArguments(s.table, args) # {}
       PROVE  u.errors > s.errors
  BY <1>6, <1>15, <1>16, <1>17
<1> QED BY <1>6, <1>12, <1>14, <1>16, <1>17

VoidFunction(T, name) ==
  \E k \in FunctionPlaces(T[name]) :
    T[name][k].data_type = "VOID" /\ \A l \in FunctionPlaces(T[name]) : k <= l

LEMMA AssignmentValidated ==
  ASSUME NEW s \in State, NEW name \in Names
  PROVE  validate_assignment(s, name) =
           IF VoidFunction(s.table, name) THEN [s EXCEPT !.errors = @ + 1] ELSE s
<1>1. PICK chain \in Chain : chain = s.table[name]
  BY DEF State
<1>2. PICK i : i = search_symbol_func(s.table, name)
  OBVIOUS
<1>3. FirstIn(chain, FunctionPlaces(chain), i)
  BY <1>1, <1>2, Searches
<1>4. FunctionPlaces(chain) \subseteq Nat
  BY DEF FunctionPlaces, Places
<1>5. VoidFunction(s.table, name) <=> i # 0 /\ chain[i].data_type = "VOID"
  BY <1>1, <1>3, <1>4 DEF VoidFunction, FirstIn
<1> QED BY <1>1, <1>2, <1>5 DEF validate_assignment, show_semantic_error

RightAssign(T, name, target) ==
  ~ VoidFunction(T, name) /\ HasFunction(T, name) /\ HasVariable(T, target, Scalars)

LEMMA AssignVisited ==
  ASSUME NEW s \in State, NEW name \in Names, NEW target \in Names, Line \in 0..MaxNodes,
         NEW left, left = [op |-> "IDENTIFIER", name |-> target],
         NEW u, u = validate_function_call(traverse_expr(validate_assignment(s, name), left), name, <<>>)
  PROVE  /\ Visited(s, u, {name, target})
         /\ RightAssign(s.table, name, target) =>
              u.errors = s.errors /\ Marked(u.table, name) /\ Marked(u.table, target)
         /\ ~ RightAssign(s.table, name, target) => u.errors > s.errors
<1>1. PICK r : r = validate_assignment(s, name)
  OBVIOUS
<1>2. r = IF VoidFunction(s.table, name) THEN [s EXCEPT !.errors = @ + 1] ELSE s
  BY <1>1, AssignmentValidated
<1>3. /\ r \in State /\ r.table = s.table
      /\ VoidFunction(s.table, name) => r.errors = s.errors + 1
      /\ ~ VoidFunction(s.table, name) => r.errors = s.errors
  BY <1>2 DEF State
<1>4. s.errors \in Nat /\ r.errors \in Nat /\ s.table \in [Names -> Chain]
  BY <1>3 DEF State
<1>5. Visited(s, r, {})
  <2>1. Grown(s.table, r.table, {})
    BY <1>3, GrownNothing DEF Visited
  <2>2. r.errors >= s.errors
    BY <1>3, <1>4
  <2> QED BY <1>3, <2>1, <2>2, Zenon DEF Visited
<1>6. left.op = "IDENTIFIER" /\ left.name = target
  OBVIOUS
<1>7. FoundOperand(r.table, left) <=> HasVariable(s.table, target, Scalars)
  BY <1>3, <1>6 DEF FoundOperand, Expected
<1>8. PICK t : t = traverse_expr(r, left)
  OBVIOUS
<1>9. /\ Visited(r, t, {target})
      /\ HasVariable(s.table, target, Scalars) => t.errors = r.errors /\ Marked(t.table, target)
      /\ ~ HasVariable(s.table, target, Scalars) => t.errors = r.errors + 1
  BY <1>3, <1>6, <1>7, <1>8, OperandVisited
<1>10. t \in State /\ t.table \in [Names -> Chain] /\ Grown(r.table, t.table, {target}) /\ t.errors \in Nat
  BY <1>9 DEF Visited, State
<1>11. PICK args : args = <<>>
  OBVIOUS
<1>12. args \in Seq(Arguments) /\ DOMAIN args = {}
  BY <1>11
<1>13. NamesIn(args) = {} /\ WrongArguments(t.table, args) = {}
  BY <1>12 DEF NamesIn, WrongArguments
<1>14. u = validate_function_call(t, name, args)
  BY <1>1, <1>8, <1>11
<1>15. HasFunction(t.table, name) <=> HasFunction(s.table, name)
  BY <1>3, <1>4, <1>10, GrownAlike DEF HasFunction
<1>16. /\ Visited(t, u, {name})
       /\ HasFunction(s.table, name) => u.errors = t.errors /\ Marked(u.table, name)
       /\ ~ HasFunction(s.table, name) => u.errors > t.errors
  <2>1. /\ Visited(t, u, {name} \cup NamesIn(args))
        /\ HasFunction(t.table, name) /\ WrongArguments(t.table, args) = {} =>
             u.errors = t.errors /\ Marked(u.table, name)
        /\ ~ (HasFunction(t.table, name) /\ WrongArguments(t.table, args) = {}) => u.errors > t.errors
    BY <1>10, <1>12, <1>14, CallVisited
  <2>2. {name} \cup NamesIn(args) = {name}
    BY <1>13
  <2> QED BY <1>13, <1>15, <2>1, <2>2
<1>17. Visited(s, t, {name, target})
  BY <1>5, <1>9, VisitedTwice
<1>18. Visited(s, u, {name, target})
  BY <1>16, <1>17, VisitedTwice
<1>19. u.table \in [Names -> Chain] /\ Grown(t.table, u.table, {name}) /\ u.errors \in Nat
  BY <1>16 DEF Visited, State
<1>20. Marked(t.table, target) => Marked(u.table, target)
  BY <1>10, <1>19, GrownFinds, Zenon
<1>21. RightAssign(s.table, name, target) =>
         u.errors = s.errors /\ Marked(u.table, name) /\ Marked(u.table, target)
  BY <1>3, <1>9, <1>16, <1>20 DEF RightAssign
<1>22. t.errors >= r.errors /\ u.errors >= t.errors /\ r.errors >= s.errors
  BY <1>5, <1>9, <1>16 DEF Visited
<1>23. ~ RightAssign(s.table, name, target) => u.errors > s.errors
  BY <1>3, <1>4, <1>9, <1>10, <1>16, <1>19, <1>22 DEF RightAssign
<1> QED BY <1>18, <1>21, <1>23

-----------------------------------------------------------------------------
(* Declarations: one that conflicts with no other adds an item at the end  *)
(* of the chain of its name, any other is an error.                        *)

Inserted(T, U, name, item) == U = [T EXCEPT ![name] = Append(@, item)]

FreeIn(chain, type) == type = "INT" /\ ClashPlaces(chain, scope) = {}

Insert(s, id_type, type, name, where, line) ==
  [s EXCEPT !.table = insert_symbol(@, id_type, type, name, where, line)]

LEMMA Insertion ==
  ASSUME NEW s \in State, NEW name \in Names, NEW id_type \in DeclTypes, NEW type \in {"INT", "VOID"},
         NEW where \in Scopes, NEW line \in 0..MaxNodes, ScopePlaces(s.table[name], where) = {},
         NEW u, u = Insert(s, id_type, type, name, where, line),
         NEW item, item = create_new_item(id_type, type, where, line)
  PROVE  u \in State /\ u.errors = s.errors /\ Inserted(s.table, u.table, name, item) /\ item \in Item
<1>1. PICK T \in [Names -> Chain] : T = s.table
  BY DEF State
<1>2. FirstIn(T[name], ScopePlaces(T[name], where), search_symbol_any(T, name, where))
  BY Searches
<1>3. search_symbol_any(T, name, where) = 0
  BY <1>1, <1>2 DEF FirstIn
<1>4. insert_symbol(T, id_type, type, name, where, line) = [T EXCEPT ![name] = Append(@, item)]
  BY <1>3 DEF insert_symbol, search_symbol_any
<1>5. item \in Item
  <2>1. PICK S : S = 0..MaxNodes
    OBVIOUS
  <2>2. <<line>> \in Seq(S)
    BY <2>1
  <2> QED BY <2>1, <2>2 DEF create_new_item, Item
<1>6. PICK U : U = [T EXCEPT ![name] = Append(@, item)]
  OBVIOUS
<1>7. U \in [Names -> Chain]
  <2>1. T[name] \in Seq(Item)
    BY DEF Chain
  <2>2. Append(T[name], item) \in Chain
    BY <1>5, <2>1 DEF Chain
  <2> QED BY <1>6, <2>2
<1>8. u = [s EXCEPT !.table = U]
  BY <1>1, <1>4, <1>6 DEF Insert
<1> QED BY <1>1, <1>5, <1>6, <1>7, <1>8 DEF State, Inserted

LEMMA FunctionDeclared ==
  ASSUME NEW s \in State, NEW name \in Names, NEW type \in {"INT", "VOID"}, Line \in 0..MaxNodes,
         NEW u, u = process_function_decl(s, type, name),
         NEW item, item = create_new_item("FUNC", type, name, Line)
  PROVE  /\ u \in State
         /\ s.table[name] = <<>> =>
              u.errors = s.errors /\ Inserted(s.table, u.table, name, item) /\ item \in Item
         /\ s.table[name] # <<>> => u.errors = s.errors + 1 /\ u.table = s.table
<1>1. PICK T \in [Names -> Chain] : T = s.table
  BY DEF State
<1>3. search_equal(s, name, name, "FUNC") <=> T[name] = <<>>
  BY <1>1 DEF search_equal, search_symbol, search_symbol_id, VariableTypes, Scalars, Arrays
<1>4. CASE T[name] = <<>>
  <2>1. ScopePlaces(T[name], name) = {}
    BY <1>4 DEF ScopePlaces, Places
  <2>2. u = [s EXCEPT !.table = insert_symbol(@, "FUNC", type, name, name, Line)]
    BY <1>3, <1>4 DEF process_function_decl
  <2>3. PICK line \in 0..MaxNodes : line = Line
    OBVIOUS
  <2>4. "FUNC" \in DeclTypes /\ name \in Scopes
    BY DEF DeclTypes, Scopes
  <2>5. ScopePlaces(s.table[name], name) = {}
    BY <1>1, <2>1
  <2>6. u = Insert(s, "FUNC", type, name, name, line)
        /\ item = create_new_item("FUNC", type, name, line)
    BY <2>2, <2>3 DEF Insert
  <2>7. u \in State /\ u.errors = s.errors /\ Inserted(s.table, u.table, name, item) /\ item \in Item
    BY <2>4, <2>5, <2>6, Insertion, Zenon
  <2> QED BY <1>1, <1>4, <2>7
<1>5. CASE T[name] # <<>>
  <2>1. u = [s EXCEPT !.errors = @ + 1]
    BY <1>3, <1>5 DEF process_function_decl, show_semantic_error
  <2> QED BY <1>1, <1>5, <2>1 DEF State
<1> QED BY <1>1, <1>4, <1>5

LEMMA VariableDeclared ==
  ASSUME NEW s \in State, NEW id_type \in VariableTypes, NEW type \in {"INT", "VOID"},
         NEW name \in Names, NEW line \in 0..MaxNodes, scope \in Scopes,
         NEW u, u = DeclareVariable(s, id_type, type, name, line),
         NEW item, item = create_new_item(id_type, "INT", scope, line)
  PROVE  /\ u \in State
         /\ FreeIn(s.table[name], type) => u.errors = s.errors /\ Inserted(s.table, u.table, name, item) /\ item \in Item
         /\ ~ FreeIn(s.table[name], type) => u.errors = s.errors + 1 /\ u.table = s.table
<1>1. PICK T \in [Names -> Chain] : T = s.table
  BY DEF State
<1>2. PICK i : i = search_symbol(T, name, scope, id_type)
  OBVIOUS
<1>3. id_type # "FUNC"
  BY DEF VariableTypes, Scalars, Arrays
<1>4. FirstIn(T[name], ClashPlaces(T[name], scope), i)
  BY <1>2, <1>3, Searches
<1>5. search_equal(s, name, scope, id_type) <=> ClashPlaces(T[name], scope) = {}
  <2>1. i # 0 => InScope(T[name][i], scope) \/ T[name][i].id_type = "FUNC"
    BY <1>4 DEF FirstIn, ClashPlaces
  <2>2. "FUNC" \notin VariableTypes
    BY DEF VariableTypes, Scalars, Arrays
  <2>3. search_equal(s, name, scope, id_type) <=> i = 0
    BY <1>1, <1>2, <2>1, <2>2 DEF search_equal
  <2> QED BY <1>4, <2>3 DEF FirstIn
<1>6. CASE FreeIn(s.table[name], type)
  <2>1. ScopePlaces(T[name], scope) = {}
    BY <1>1, <1>6 DEF FreeIn, ScopePlaces, ClashPlaces
  <2>2. u = [s EXCEPT !.table = insert_symbol(@, id_type, "INT", name, scope, line)]
    BY <1>1, <1>5, <1>6 DEF FreeIn, DeclareVariable
  <2>3. id_type \in DeclTypes
    BY DEF DeclTypes
  <2>4. ScopePlaces(s.table[name], scope) = {}
    BY <1>1, <2>1
  <2>5. u \in State /\ u.errors = s.errors /\ Inserted(s.table, u.table, name, item) /\ item \in Item
    <3>1. "INT" \in {"INT", "VOID"}
      OBVIOUS
    <3>2. u = Insert(s, id_type, "INT", name, scope, line)
      BY <2>2 DEF Insert
    <3>3. PICK t : t = "INT"
      OBVIOUS
    <3>4. PICK w : w = scope
      OBVIOUS
    <3>5. /\ t \in {"INT", "VOID"} /\ w \in Scopes /\ ScopePlaces(s.table[name], w) = {}
          /\ u = Insert(s, id_type, t, name, w, line) /\ item = create_new_item(id_type, t, w, line)
      BY <2>4, <3>1, <3>2, <3>3, <3>4
    <3> QED BY <2>3, <3>5, Insertion, Zenon
  <2> QED BY <1>6, <2>5
<1>7. CASE ~ FreeIn(s.table[name], type)
  <2>1. u = [s EXCEPT !.errors = @ + 1]
    BY <1>1, <1>5, <1>7 DEF FreeIn, DeclareVariable, show_semantic_error
  <2> QED BY <1>7, <2>1 DEF State
<1> QED BY <1>6, <1>7

-----------------------------------------------------------------------------
(* What each step does, by the kind of the node.                           *)

NodeOps == DeclTypes \cup {"IDENTIFIER", "ELEMENT", "CALL", "ASSIGN"}
Nodes == [op : NodeOps, type : {"INT", "VOID"}, name : Names, scope : Scopes, args : Seq(Arguments)]

Typed ==
  /\ hash_table \in [Names -> Chain]
  /\ semantic_errors \in Nat
  /\ program \in Seq(Nodes) /\ Len(program) <= MaxNodes
  /\ scope \in Scopes
  /\ header \in BOOLEAN /\ (header => scope # Global)
  /\ phase \in {"analysis", "generation", "rejected"}
  /\ generated \in 0..Len(program)
  /\ func_name \in Scopes
  /\ phase = "analysis" => generated = 0 /\ code = <<>> /\ func_name = Global
  /\ phase = "generation" => semantic_errors = 0
  /\ \A i \in 1..Len(program) : program[i].op = "CALL" => Len(program[i].args) <= MaxArgs
  /\ \A i \in 1..Len(program) : program[i].op = "ASSIGN" =>
       program[i].args = <<[op |-> "IDENTIFIER", name |-> program[i].args[1].name]>>
  /\ \A i \in 1..Len(program) : program[i].op \in {"IDENTIFIER", "ELEMENT"} => program[i].args = <<>>

UseNames(node) == {node.name} \cup NamesIn(node.args)

\* A use that reports no error.
Right(node) ==
  \/ node.op \in {"IDENTIFIER", "ELEMENT"} /\ FoundOperand(hash_table, node)
  \/ /\ node.op = "CALL"
     /\ HasFunction(hash_table, node.name) /\ WrongArguments(hash_table, node.args) = {}
  \/ /\ node.op = "ASSIGN"
     /\ RightAssign(hash_table, node.name, node.args[1].name)

AddsFunction(node) ==
  /\ node.op = "FUNC" /\ node.args = <<>> /\ scope = Global /\ scope' = node.name
  /\ hash_table[node.name] = <<>> =>
       /\ semantic_errors' = semantic_errors
       /\ Inserted(hash_table, hash_table', node.name,
                   create_new_item("FUNC", node.type, node.name, Line))
  /\ hash_table[node.name] # <<>> => semantic_errors' > semantic_errors /\ hash_table' = hash_table

Free(node) == FreeIn(hash_table[node.name], node.type)

AddsVariable(node) ==
  /\ node.op \in VariableTypes /\ node.args = <<>> /\ scope' = scope
  /\ \E line \in 0..Line :
       /\ line \in DOMAIN program => program[line].op = "FUNC"
       /\ Free(node) =>
            /\ semantic_errors' = semantic_errors
            /\ Inserted(hash_table, hash_table', node.name, create_new_item(node.op, "INT", scope, line))
       /\ ~ Free(node) => semantic_errors' > semantic_errors /\ hash_table' = hash_table

AddsUse(node) ==
  /\ node.op \in {"IDENTIFIER", "ELEMENT", "CALL", "ASSIGN"} /\ scope # Global /\ scope' = scope
  /\ node.op = "CALL" => Len(node.args) <= MaxArgs
  /\ node.op = "ASSIGN" => node.args = <<[op |-> "IDENTIFIER", name |-> node.args[1].name]>>
  /\ node.op \in {"IDENTIFIER", "ELEMENT"} => node.args = <<>>
  /\ Grown(hash_table, hash_table', UseNames(node))
  /\ Right(node) => /\ semantic_errors' = semantic_errors
                    /\ \A n \in UseNames(node) : Marked(hash_table', n)
  /\ ~ Right(node) => semantic_errors' > semantic_errors

Traverses(node) ==
  /\ phase = "analysis" /\ Len(program) < MaxNodes
  /\ node.scope = scope
  /\ program' = Append(program, node)
  /\ hash_table' \in [Names -> Chain] /\ semantic_errors' \in Nat
  /\ header' \in BOOLEAN /\ (header' => scope' # Global)
  /\ UNCHANGED <<phase, generated, func_name, code>>
  /\ AddsFunction(node) \/ AddsVariable(node) \/ AddsUse(node)

Generates == GenerateFunction \/ GenerateAlloc \/ GenerateCall \/ GenerateOther

LEMMA CurrentState ==
  ASSUME Typed
  PROVE  Current \in State /\ Current.table = hash_table /\ Current.errors = semantic_errors
BY DEF Typed, Current, State

LEMMA LineRange ==
  ASSUME Typed, Len(program) < MaxNodes
  PROVE  Line \in 0..MaxNodes /\ Line = Len(program) + 1 /\ Len(program) \in Nat
BY BoundsAssumption DEF Typed, Line

LEMMA LastPlace ==
  ASSUME NEW n \in Nat, NEW I, I \subseteq 1..n
  PROVE  (IF I # {} THEN Max(I) ELSE 0) \in I \cup {0}
<1>1. CASE I # {}
  <2>1. PICK R : R = {m \in 0..n : n - m \in I}
    OBVIOUS
  <2>2. \A i \in I : n - i \in R
    <3>1. \A i \in I : n - i \in 0..n /\ n - (n - i) = i
      OBVIOUS
    <3> QED BY <2>1, <3>1
  <2>3. R # {} /\ R \subseteq Nat
    <3>1. PICK i \in I : n - i \in R
      BY <1>1, <2>2
    <3>2. R \subseteq 0..n
      BY <2>1
    <3>3. R \subseteq Nat
      BY <3>2
    <3> QED BY <3>1, <3>3
  <2>4. PICK m \in R : \A l \in R : m <= l
    BY <2>3, LeastOne
  <2>5. n - m \in I /\ m \in 0..n
    BY <2>1, <2>4
  <2>6. \A i \in I : n - m >= i
    BY <2>2, <2>4, <2>5
  <2>7. Max(I) \in I
    BY <2>5, <2>6, Zenon DEF Max
  <2> QED BY <1>1, <2>7
<1> QED BY <1>1

LEMMA FunctionStep ==
  ASSUME Typed, DeclareFunction
  PROVE  \E node \in Nodes : Traverses(node)
<1>1. PICK name \in Names, type \in {"INT", "VOID"} :
        /\ Traverse(Node("FUNC", type, name, <<>>), process_function_decl(Current, type, name))
        /\ scope' = name
  BY DEF DeclareFunction
<1>2. PICK node : node = Node("FUNC", type, name, <<>>)
  OBVIOUS
<1>3. node.op = "FUNC" /\ node.type = type /\ node.name = name /\ node.scope = scope /\ node.args = <<>>
  BY <1>2 DEF Node
<1>4. node \in Nodes
  <2>1. <<>> \in Seq(Arguments) /\ "FUNC" \in NodeOps /\ scope \in Scopes
    BY DEF NodeOps, DeclTypes, Typed
  <2> QED BY <1>2, <2>1 DEF Node, Nodes
<1>5. PICK u : u = process_function_decl(Current, type, name)
  OBVIOUS
<1>6. Traverse(node, u) /\ scope = Global /\ header' = TRUE
  BY <1>1, <1>2, <1>5 DEF DeclareFunction
<1>7. phase = "analysis" /\ Len(program) < MaxNodes /\ program' = Append(program, node)
      /\ hash_table' = u.table /\ semantic_errors' = u.errors
      /\ UNCHANGED <<phase, generated, func_name, code>>
  BY <1>6 DEF Traverse
<1>8. PICK item : item = create_new_item("FUNC", type, name, Line)
  OBVIOUS
<1>9. /\ u \in State
      /\ hash_table[name] = <<>> =>
           u.errors = semantic_errors /\ Inserted(hash_table, u.table, name, item)
      /\ hash_table[name] # <<>> => u.errors = semantic_errors + 1 /\ u.table = hash_table
  <2>1. Line \in 0..MaxNodes
    BY <1>7, LineRange
  <2>2. PICK s \in State : s = Current
    BY CurrentState
  <2>3. /\ u \in State
        /\ s.table[name] = <<>> =>
             u.errors = s.errors /\ Inserted(s.table, u.table, name, item) /\ item \in Item
        /\ s.table[name] # <<>> => u.errors = s.errors + 1 /\ u.table = s.table
    BY <1>5, <1>8, <2>1, <2>2, FunctionDeclared
  <2> QED BY <2>2, <2>3, CurrentState
<1>10. semantic_errors \in Nat /\ u.errors \in Nat /\ u.table \in [Names -> Chain]
  BY <1>9 DEF Typed, State
<1>11. AddsFunction(node)
  BY <1>1, <1>3, <1>6, <1>7, <1>8, <1>9, <1>10 DEF AddsFunction
<1>12. scope' # Global
  BY <1>1, GlobalAssumption
<1> QED BY <1>3, <1>4, <1>6, <1>7, <1>10, <1>11, <1>12 DEF Traverses

LEMMA VariableStep ==
  ASSUME Typed, NEW id_type \in VariableTypes, NEW type \in {"INT", "VOID"}, NEW name \in Names,
         NEW line \in 0..Line, line \in DOMAIN program => program[line].op = "FUNC",
         Traverse(Node(id_type, type, name, <<>>), DeclareVariable(Current, id_type, type, name, line)),
         scope' = scope, header' \in BOOLEAN, header' => scope' # Global
  PROVE  \E node \in Nodes : Traverses(node)
<1>2. PICK node : node = Node(id_type, type, name, <<>>)
  OBVIOUS
<1>3. node.op = id_type /\ node.type = type /\ node.name = name /\ node.scope = scope /\ node.args = <<>>
  BY <1>2 DEF Node
<1>4. node \in Nodes
  <2>1. <<>> \in Seq(Arguments) /\ id_type \in NodeOps /\ scope \in Scopes
    BY DEF NodeOps, DeclTypes, Typed
  <2> QED BY <1>2, <2>1 DEF Node, Nodes
<1>5. PICK u : u = DeclareVariable(Current, id_type, type, name, line)
  OBVIOUS
<1>6. Traverse(node, u)
  BY <1>2, <1>5
<1>7. phase = "analysis" /\ Len(program) < MaxNodes /\ program' = Append(program, node)
      /\ hash_table' = u.table /\ semantic_errors' = u.errors
      /\ UNCHANGED <<phase, generated, func_name, code>>
  BY <1>6 DEF Traverse
<1>8. PICK item : item = create_new_item(id_type, "INT", scope, line)
  OBVIOUS
<1>9. /\ u \in State
      /\ Free(node) => u.errors = semantic_errors /\ Inserted(hash_table, u.table, name, item)
      /\ ~ Free(node) => u.errors = semantic_errors + 1 /\ u.table = hash_table
  <2>1. line \in 0..MaxNodes
    <3>1. PICK L : L = Line
      OBVIOUS
    <3>2. L \in 0..MaxNodes /\ line \in 0..L /\ MaxNodes \in Nat
      BY <1>7, <3>1, LineRange, BoundsAssumption
    <3> QED BY <3>2
  <2>2. PICK s \in State : s = Current
    BY CurrentState
  <2>3. scope \in Scopes
    BY DEF Typed
  <2>4. /\ u \in State
        /\ FreeIn(s.table[name], type) =>
             u.errors = s.errors /\ Inserted(s.table, u.table, name, item) /\ item \in Item
        /\ ~ FreeIn(s.table[name], type) => u.errors = s.errors + 1 /\ u.table = s.table
    <3>1. u = DeclareVariable(s, id_type, type, name, line)
      BY <1>5, <2>2
    <3>2. u \in State
      BY <1>8, <2>1, <2>3, <3>1, VariableDeclared
    <3>3. FreeIn(s.table[name], type) =>
            u.errors = s.errors /\ Inserted(s.table, u.table, name, item) /\ item \in Item
      BY <1>8, <2>1, <2>3, <3>1, VariableDeclared
    <3>4. ~ FreeIn(s.table[name], type) => u.errors = s.errors + 1 /\ u.table = s.table
      BY <1>8, <2>1, <2>3, <3>1, VariableDeclared
    <3> QED BY <3>2, <3>3, <3>4
  <2>5. Free(node) <=> FreeIn(s.table[name], type)
    BY <1>3, <2>2, CurrentState DEF Free
  <2> QED BY <2>2, <2>4, <2>5, CurrentState
<1>10. semantic_errors \in Nat /\ u.errors \in Nat /\ u.table \in [Names -> Chain]
  BY <1>9 DEF Typed, State
<1>11. AddsVariable(node)
  BY <1>3, <1>7, <1>8, <1>9, <1>10 DEF AddsVariable
<1> QED BY <1>3, <1>4, <1>7, <1>10, <1>11 DEF Traverses

LEMMA ParameterStep ==
  ASSUME Typed, DeclareParameter
  PROVE  \E node \in Nodes : Traverses(node)
<1>0. PICK function : function = SelectLastInSeq(program, LAMBDA node : node.op = "FUNC")
  OBVIOUS
<1>1. PICK name \in Names, type \in {"INT", "VOID"}, id_type \in {"PARAM_VAR", "PARAM_ARRAY"} :
        Traverse(Node(id_type, type, name, <<>>),
                 DeclareVariable(Current, id_type, type, name, function))
  BY <1>0 DEF DeclareParameter
<1>2. header /\ scope' = scope /\ header' = header
  BY DEF DeclareParameter
<1>3. id_type \in VariableTypes
  BY DEF VariableTypes, Scalars, Arrays
<1>4. function \in 0..Line /\ (function \in DOMAIN program => program[function].op = "FUNC")
  <2>1. PICK I : I = {i \in 1..Len(program) : program[i].op = "FUNC"}
    OBVIOUS
  <2>2. function = IF I # {} THEN Max(I) ELSE 0
    BY <1>0, <2>1 DEF SelectLastInSeq
  <2>3. I \subseteq 1..Len(program) /\ Len(program) \in Nat /\ DOMAIN program = 1..Len(program)
    BY <2>1 DEF Typed
  <2>4. function \in I \cup {0}
    BY <2>2, <2>3, LastPlace
  <2>5. 1..Len(program) \subseteq 0..Line /\ 0 \in 0..Line
    BY <2>3 DEF Line
  <2> QED BY <2>1, <2>3, <2>4, <2>5
<1>5. header' \in BOOLEAN /\ (header' => scope' # Global)
  BY <1>2 DEF Typed
<1> QED BY <1>1, <1>2, <1>3, <1>4, <1>5, VariableStep

LEMMA LocalOrGlobalStep ==
  ASSUME Typed, DeclareLocalOrGlobal
  PROVE  \E node \in Nodes : Traverses(node)
<1>1. PICK name \in Names, type \in {"INT", "VOID"}, id_type \in {"VAR", "ARRAY"} :
        Traverse(Node(id_type, type, name, <<>>), DeclareVariable(Current, id_type, type, name, Line))
  BY DEF DeclareLocalOrGlobal
<1>2. scope' = scope /\ header' = FALSE
  BY DEF DeclareLocalOrGlobal
<1>3. id_type \in VariableTypes
  BY DEF VariableTypes, Scalars, Arrays
<1>4. PICK line : line = Line
  OBVIOUS
<1>5. line \in 0..Line /\ line \notin DOMAIN program
  BY <1>4 DEF Typed, Line
<1>6. Traverse(Node(id_type, type, name, <<>>), DeclareVariable(Current, id_type, type, name, line))
  BY <1>1, <1>4
<1> QED BY <1>2, <1>3, <1>5, <1>6, VariableStep

\* A use reports no error exactly when it is right.
UseOutcome(node, u) ==
  /\ Visited(Current, u, UseNames(node))
  /\ Right(node) => u.errors = semantic_errors /\ \A n \in UseNames(node) : Marked(u.table, n)
  /\ ~ Right(node) => u.errors > semantic_errors

LEMMA UseTraversed ==
  ASSUME Typed, NEW node \in Nodes, NEW u, Traverse(node, u), UseOutcome(node, u),
         node.op \in {"IDENTIFIER", "ELEMENT", "CALL", "ASSIGN"}, node.scope = scope,
         node.op = "CALL" => Len(node.args) <= MaxArgs,
         node.op = "ASSIGN" => node.args = <<[op |-> "IDENTIFIER", name |-> node.args[1].name]>>,
         node.op \in {"IDENTIFIER", "ELEMENT"} => node.args = <<>>,
         scope # Global, scope' = scope, header' = FALSE
  PROVE  Traverses(node)
<1>1. phase = "analysis" /\ Len(program) < MaxNodes /\ program' = Append(program, node)
      /\ hash_table' = u.table /\ semantic_errors' = u.errors
      /\ UNCHANGED <<phase, generated, func_name, code>>
  BY DEF Traverse
<1>2. /\ u \in State /\ Grown(hash_table, u.table, UseNames(node))
      /\ Right(node) => u.errors = semantic_errors /\ \A n \in UseNames(node) : Marked(u.table, n)
      /\ ~ Right(node) => u.errors > semantic_errors
  BY CurrentState DEF UseOutcome, Visited
<1>3. AddsUse(node)
  BY <1>1, <1>2, Zenon DEF AddsUse
<1>4. u.table \in [Names -> Chain] /\ u.errors \in Nat
  BY <1>2 DEF State
<1> QED BY <1>1, <1>3, <1>4 DEF Traverses

LEMMA UseStep ==
  ASSUME Typed, Use
  PROVE  \E node \in Nodes : Traverses(node)
<1>0. PICK name \in Names, op \in {"IDENTIFIER", "ELEMENT"} :
        Traverse(Node(op, "INT", name, <<>>), traverse_expr(Current, Node(op, "INT", name, <<>>)))
  BY DEF Use
<1>1. PICK node : node = Node(op, "INT", name, <<>>) /\ Traverse(node, traverse_expr(Current, node))
  BY <1>0
<1>2. scope # Global /\ scope' = scope /\ header' = FALSE
  BY DEF Use
<1>3. node.op = op /\ node.name = name /\ node.scope = scope /\ node.args = <<>>
  BY <1>1 DEF Node
<1>4. node \in Nodes
  <2>1. <<>> \in Seq(Arguments) /\ op \in NodeOps /\ scope \in Scopes
    BY DEF NodeOps, Typed
  <2> QED BY <1>1, <2>1 DEF Node, Nodes
<1>5. UseNames(node) = {name}
  BY <1>3 DEF UseNames, NamesIn
<1>6. Right(node) <=> FoundOperand(hash_table, node)
  BY <1>3 DEF Right
<1>7. Line \in 0..MaxNodes
  BY <1>1, LineRange DEF Traverse
<1>8. PICK u : u = traverse_expr(Current, node)
  OBVIOUS
<1>9. /\ Visited(Current, u, {name})
      /\ FoundOperand(hash_table, node) => u.errors = semantic_errors /\ Marked(u.table, name)
      /\ ~ FoundOperand(hash_table, node) => u.errors = semantic_errors + 1
  <2>1. PICK s \in State : s = Current /\ s.table = hash_table /\ s.errors = semantic_errors
    BY CurrentState
  <2>2. /\ Visited(s, traverse_expr(s, node), {node.name})
        /\ FoundOperand(s.table, node) => /\ traverse_expr(s, node).errors = s.errors
                                          /\ Marked(traverse_expr(s, node).table, node.name)
        /\ ~ FoundOperand(s.table, node) => traverse_expr(s, node).errors = s.errors + 1
    BY <1>3, <1>7, OperandVisited
  <2> QED BY <1>3, <1>8, <2>1, <2>2
<1>10. semantic_errors \in Nat
  BY DEF Typed
<1>11. UseOutcome(node, u)
  <2>1. u.errors = semantic_errors + 1 => u.errors > semantic_errors
    BY <1>10
  <2> QED BY <1>5, <1>6, <1>9, <2>1 DEF UseOutcome
<1> QED BY <1>1, <1>2, <1>3, <1>4, <1>8, <1>11, UseTraversed

LEMMA CallStep ==
  ASSUME Typed, Call
  PROVE  \E node \in Nodes : Traverses(node)
<1>0. PICK name \in Names, n \in 0..MaxArgs : \E args \in [1..n -> Arguments] :
        Traverse(Node("CALL", "INT", name, args), validate_function_call(Current, name, args))
  BY DEF Call
<1>1. PICK args \in [1..n -> Arguments] :
        Traverse(Node("CALL", "INT", name, args), validate_function_call(Current, name, args))
  BY <1>0
<1>2. scope # Global /\ scope' = scope /\ header' = FALSE
  BY DEF Call
<1>3. PICK node : node = Node("CALL", "INT", name, args)
  OBVIOUS
<1>4. node.op = "CALL" /\ node.name = name /\ node.scope = scope /\ node.args = args
  BY <1>3 DEF Node
<1>5. args \in Seq(Arguments) /\ Len(args) <= MaxArgs
  BY BoundsAssumption
<1>6. node \in Nodes
  <2>1. "CALL" \in NodeOps /\ scope \in Scopes
    BY DEF NodeOps, Typed
  <2> QED BY <1>3, <1>5, <2>1 DEF Node, Nodes
<1>7. UseNames(node) = {name} \cup NamesIn(args)
  BY <1>4 DEF UseNames
<1>8. Right(node) <=> HasFunction(hash_table, name) /\ WrongArguments(hash_table, args) = {}
  BY <1>4 DEF Right
<1>9. Line \in 0..MaxNodes
  BY <1>1, LineRange DEF Traverse
<1>10. PICK u : u = validate_function_call(Current, name, args)
  OBVIOUS
<1>11. /\ Visited(Current, u, {name} \cup NamesIn(args))
       /\ Right(node) => /\ u.errors = semantic_errors /\ Marked(u.table, name)
                         /\ \A k \in DOMAIN args : Marked(u.table, args[k].name)
       /\ ~ Right(node) => u.errors > semantic_errors
  <2>1. PICK s \in State : s = Current /\ s.table = hash_table /\ s.errors = semantic_errors
    BY CurrentState
  <2>2. /\ Visited(s, u, {name} \cup NamesIn(args))
        /\ HasFunction(s.table, name) /\ WrongArguments(s.table, args) = {} =>
             /\ u.errors = s.errors /\ Marked(u.table, name)
             /\ \A k \in DOMAIN args : Marked(u.table, args[k].name)
        /\ ~ (HasFunction(s.table, name) /\ WrongArguments(s.table, args) = {}) =>
             u.errors > s.errors
    BY <1>5, <1>9, <1>10, <2>1, CallVisited
  <2> QED BY <1>8, <2>1, <2>2
<1>12. UseOutcome(node, u)
  <2>1. \A k \in NamesIn(args) : \E l \in DOMAIN args : k = args[l].name
    BY DEF NamesIn
  <2>2. Right(node) => \A k \in UseNames(node) : Marked(u.table, k)
    BY <1>7, <1>11, <2>1
  <2> QED BY <1>7, <1>11, <2>2 DEF UseOutcome
<1> QED BY <1>1, <1>2, <1>3, <1>4, <1>5, <1>6, <1>10, <1>12, UseTraversed

LEMMA AssignStep ==
  ASSUME Typed, AssignCall
  PROVE  \E node \in Nodes : Traverses(node)
<1>0. PICK name \in Names, target \in Names :
        LET left == [op |-> "IDENTIFIER", name |-> target]
        IN  Traverse(Node("ASSIGN", "INT", name, <<left>>),
                     validate_function_call(traverse_expr(validate_assignment(Current, name), left),
                                            name, <<>>))
  BY DEF AssignCall
<1>1. PICK left :
        /\ left = [op |-> "IDENTIFIER", name |-> target]
        /\ Traverse(Node("ASSIGN", "INT", name, <<left>>),
                    validate_function_call(traverse_expr(validate_assignment(Current, name), left),
                                           name, <<>>))
  BY <1>0
<1>2. scope # Global /\ scope' = scope /\ header' = FALSE
  BY DEF AssignCall
<1>3. PICK node : node = Node("ASSIGN", "INT", name, <<left>>)
  OBVIOUS
<1>4. node.op = "ASSIGN" /\ node.name = name /\ node.scope = scope /\ node.args = <<left>>
      /\ node.args[1] = left /\ left.name = target
  BY <1>1, <1>3 DEF Node
<1>5. left \in Arguments
  BY <1>1 DEF Arguments
<1>6. node \in Nodes
  <2>1. "ASSIGN" \in NodeOps /\ scope \in Scopes /\ <<left>> \in Seq(Arguments)
    BY <1>5 DEF NodeOps, Typed
  <2> QED BY <1>3, <2>1 DEF Node, Nodes
<1>7. UseNames(node) = {name, target}
  <2>1. DOMAIN node.args = {1}
    BY <1>4
  <2>2. NamesIn(node.args) = {target}
    BY <1>4, <2>1 DEF NamesIn
  <2> QED BY <1>4, <2>2 DEF UseNames
<1>8. Right(node) <=> RightAssign(hash_table, name, target)
  BY <1>4 DEF Right
<1>9. Line \in 0..MaxNodes
  BY <1>1, LineRange DEF Traverse
<1>10. PICK u : u = validate_function_call(traverse_expr(validate_assignment(Current, name), left), name, <<>>)
  OBVIOUS
<1>11. PICK s \in State : s = Current /\ s.table = hash_table /\ s.errors = semantic_errors
  BY CurrentState
<1>12. /\ Visited(s, u, {name, target})
       /\ RightAssign(s.table, name, target) =>
            u.errors = s.errors /\ Marked(u.table, name) /\ Marked(u.table, target)
       /\ ~ RightAssign(s.table, name, target) => u.errors > s.errors
  <2>1. u = validate_function_call(traverse_expr(validate_assignment(s, name), left), name, <<>>)
    BY <1>10, <1>11
  <2> QED BY <1>1, <1>9, <2>1, AssignVisited
<1>13. UseOutcome(node, u)
  BY <1>7, <1>8, <1>11, <1>12 DEF UseOutcome
<1>14. node.args = <<[op |-> "IDENTIFIER", name |-> node.args[1].name]>>
  BY <1>1, <1>4
<1> QED BY <1>1, <1>2, <1>3, <1>4, <1>6, <1>10, <1>13, <1>14, UseTraversed

LEMMA StepKinds ==
  ASSUME Typed, [Next]_vars
  PROVE  \/ \E node \in Nodes : Traverses(node)
         \/ EndFunction \/ FinishAnalysis \/ Generates \/ UNCHANGED vars
BY FunctionStep, ParameterStep, LocalOrGlobalStep, UseStep, CallStep, AssignStep DEF Next, Generates

LEMMA TypedInit ==
  Init => Typed
<1>1. SUFFICES ASSUME Init PROVE Typed
  OBVIOUS
<1>2. hash_table \in [Names -> Chain]
  <2>1. SUFFICES ASSUME NEW n \in Names PROVE hash_table[n] \in Chain
    BY <1>1 DEF Init, BuiltinTable
  <2>2. CASE n \in DOMAIN Builtin
    <3>1. PICK S : S = 0..MaxNodes
      OBVIOUS
    <3>2. 0 \in S
      BY <3>1, BoundsAssumption
    <3>3. <<0>> \in Seq(S) /\ Builtin[n] \in {"INT", "VOID"} /\ Global \in Scopes /\ "FUNC" \in DeclTypes
      BY <2>2, <3>2, BuiltinAssumption DEF Scopes, DeclTypes
    <3>4. PICK item : item = create_new_item("FUNC", Builtin[n], Global, 0)
      OBVIOUS
    <3>5. item \in Item
      BY <3>1, <3>3, <3>4 DEF create_new_item, Item
    <3>6. hash_table[n] = <<item>>
      BY <1>1, <2>2, <3>4 DEF Init, BuiltinTable
    <3> QED BY <3>5, <3>6 DEF Chain
  <2>3. CASE n \notin DOMAIN Builtin
    <3>1. hash_table[n] = <<>>
      BY <1>1, <2>3 DEF Init, BuiltinTable
    <3> QED BY <3>1 DEF Chain
  <2> QED BY <2>2, <2>3
<1>3. semantic_errors = 0 /\ program = <<>> /\ scope = Global /\ header = FALSE /\ phase = "analysis"
      /\ generated = 0 /\ func_name = Global /\ code = <<>>
  BY <1>1 DEF Init
<1>4. program \in Seq(Nodes) /\ Len(program) = 0
  BY <1>3
<1>5. Global \in Scopes /\ 0 <= MaxNodes
  BY BoundsAssumption DEF Scopes
<1>6. 1..Len(program) = {} /\ generated \in 0..Len(program) /\ semantic_errors \in Nat
  BY <1>3, <1>4
<1>7. header \in BOOLEAN /\ (header => scope # Global) /\ scope \in Scopes /\ func_name \in Scopes
  BY <1>3, <1>5
<1>8. phase \in {"analysis", "generation", "rejected"} /\ phase # "generation"
  BY <1>3
<1>9. Len(program) <= MaxNodes
  BY <1>4, <1>5
<1> QED BY <1>2, <1>3, <1>4, <1>6, <1>7, <1>8, <1>9, Zenon DEF Typed

LEMMA TypedStep ==
  Typed /\ [Next]_vars => Typed'
<1>1. SUFFICES ASSUME Typed, [Next]_vars PROVE Typed'
  OBVIOUS
<1>2. ASSUME NEW node \in Nodes, Traverses(node) PROVE Typed'
  <2>1. /\ phase = "analysis" /\ Len(program) < MaxNodes
        /\ program' = Append(program, node)
        /\ hash_table' \in [Names -> Chain] /\ semantic_errors' \in Nat
        /\ header' \in BOOLEAN /\ (header' => scope' # Global)
        /\ UNCHANGED <<phase, generated, func_name, code>>
        /\ AddsFunction(node) \/ AddsVariable(node) \/ AddsUse(node)
    BY <1>2 DEF Traverses
  <2>2. scope \in Scopes /\ program \in Seq(Nodes) /\ MaxNodes \in Nat
    BY <1>1, BoundsAssumption DEF Typed
  <2>3. scope' \in Scopes
    <3>1. node.name \in Scopes
      BY DEF Nodes, Scopes
    <3> QED BY <2>1, <2>2, <3>1 DEF AddsFunction, AddsVariable, AddsUse
  <2>4. node.op = "CALL" => Len(node.args) <= MaxArgs
    BY <2>1 DEF AddsFunction, AddsVariable, AddsUse, VariableTypes, Scalars, Arrays
  <2>5. node.op = "ASSIGN" => node.args = <<[op |-> "IDENTIFIER", name |-> node.args[1].name]>>
    BY <2>1 DEF AddsFunction, AddsVariable, AddsUse, VariableTypes, Scalars, Arrays
  <2>6. node.op \in {"IDENTIFIER", "ELEMENT"} => node.args = <<>>
    BY <2>1 DEF AddsFunction, AddsVariable, AddsUse, VariableTypes, Scalars, Arrays
  <2>7. program' \in Seq(Nodes) /\ Len(program') = Len(program) + 1 /\ Len(program) \in Nat
        /\ program'[Len(program) + 1] = node
        /\ \A i \in 1..Len(program) : program'[i] = program[i]
    BY <2>1, <2>2
  <2>8. \A i \in 1..Len(program') : i = Len(program) + 1 \/ i \in 1..Len(program)
    BY <2>7
  <2>9. \A i \in 1..Len(program') :
          /\ program'[i].op = "CALL" => Len(program'[i].args) <= MaxArgs
          /\ program'[i].op = "ASSIGN" =>
               program'[i].args = <<[op |-> "IDENTIFIER", name |-> program'[i].args[1].name]>>
    BY <1>1, <2>4, <2>5, <2>7, <2>8 DEF Typed
  <2>10. \A i \in 1..Len(program') :
           program'[i].op \in {"IDENTIFIER", "ELEMENT"} => program'[i].args = <<>>
    BY <1>1, <2>6, <2>7, <2>8 DEF Typed
  <2>11. Len(program') <= MaxNodes /\ generated' \in 0..Len(program')
    BY <1>1, <2>1, <2>2, <2>7 DEF Typed
  <2> QED BY <1>1, <2>1, <2>3, <2>7, <2>9, <2>10, <2>11 DEF Typed
<1>3. CASE EndFunction
  BY <1>1, <1>3 DEF Typed, EndFunction, Scopes
<1>4. CASE FinishAnalysis
  <2>1. semantic_errors' \in Nat
    BY <1>1, <1>4 DEF Typed, FinishAnalysis
  <2> QED BY <1>1, <1>4, <2>1 DEF Typed, FinishAnalysis
<1>5. CASE Generates
  <2>1. /\ phase = "generation" /\ generated < Len(program) /\ generated' = generated + 1
        /\ UNCHANGED <<hash_table, semantic_errors, program, scope, header, phase>>
        /\ func_name' = func_name \/ func_name' = program[generated + 1].name
    BY <1>5 DEF Generates, GenerateFunction, GenerateAlloc, GenerateCall, GenerateOther, Generate
  <2>2. generated \in Nat /\ Len(program) \in Nat /\ program \in Seq(Nodes)
    BY <1>1 DEF Typed
  <2>3. generated' \in 0..Len(program) /\ generated + 1 \in 1..Len(program)
    BY <2>1, <2>2
  <2>4. func_name' \in Scopes
    <3>0. PICK node \in Nodes : node = program[generated + 1]
      BY <2>2, <2>3
    <3>1. program[generated + 1].name \in Scopes
      BY <3>0 DEF Nodes, Scopes
    <3> QED BY <1>1, <2>1, <3>1 DEF Typed
  <2> QED BY <1>1, <2>1, <2>3, <2>4 DEF Typed
<1>6. CASE UNCHANGED vars
  BY <1>1, <1>6 DEF Typed, vars
<1> QED BY <1>1, <1>2, <1>3, <1>4, <1>5, <1>6, StepKinds

-----------------------------------------------------------------------------
(* What the table says of the program.                                     *)

VisibleNow(name, types) ==
  {j \in 1..Len(program) : /\ program[j].op \in types
                           /\ program[j].name = name
                           /\ program[j].scope \in {scope, Global}}

TypesNow(name) ==
  {Builtin[b] : b \in {name} \cap DOMAIN Builtin}
    \cup {program[j].type : j \in {k \in 1..Len(program) : IsFunction(k) /\ program[k].name = name}}

LEMMA NewNode ==
  ASSUME Typed, NEW node \in Nodes, program' = Append(program, node), node.scope = scope,
         NEW i, i = Len(program) + 1
  PROVE  /\ Len(program') = i /\ i \in Nat /\ DOMAIN program' = 1..i /\ program'[i] = node
         /\ \A j \in 1..(i - 1) : program'[j] = program[j]
         /\ \A name, types : Visible(i, name, types)' = VisibleNow(name, types)
         /\ \A name : FunctionTypes(i, name)' = TypesNow(name)
         /\ \A j \in 1..(i - 1) : (Legal(j)' <=> Legal(j))
                                  /\ (ArrayAfterExpression(j)' <=> ArrayAfterExpression(j))
         /\ \A j \in 1..(i - 1) : \A name, types :
              Visible(j, name, types)' = Visible(j, name, types)
<1>1. program \in Seq(Nodes) /\ Len(program) \in Nat /\ i - 1 = Len(program)
  BY DEF Typed
<1>2. Len(program') = i /\ i \in Nat /\ DOMAIN program' = 1..i /\ program'[i] = node
      /\ \A j \in 1..(i - 1) : program'[j] = program[j]
  BY <1>1
<1>3. \A name, types : Visible(i, name, types)' = VisibleNow(name, types)
  BY <1>1, <1>2 DEF Visible, VisibleNow
<1>4. \A name : FunctionTypes(i, name)' = TypesNow(name)
  <2>1. SUFFICES ASSUME NEW name PROVE FunctionTypes(i, name)' = TypesNow(name)
    OBVIOUS
  <2>2. {k \in 1..(i - 1) : IsFunction(k)' /\ program'[k].name = name}
          = {k \in 1..Len(program) : IsFunction(k) /\ program[k].name = name}
    BY <1>1, <1>2 DEF IsFunction
  <2> QED BY <1>1, <1>2, <2>2 DEF FunctionTypes, TypesNow, IsFunction
<1>5. \A j \in 1..(i - 1) : \A k \in 1..(j - 1) : k \in 1..(i - 1) /\ program'[k] = program[k]
  BY <1>1, <1>2
<1>6. \A j \in 1..(i - 1) : \A name, types : Visible(j, name, types)' = Visible(j, name, types)
  BY <1>2, <1>5 DEF Visible
<1>7. \A j \in 1..(i - 1) : \A name : FunctionTypes(j, name)' = FunctionTypes(j, name)
  BY <1>5 DEF FunctionTypes, IsFunction
<1>8. ASSUME NEW j \in 1..(i - 1)
      PROVE  (Legal(j)' <=> Legal(j)) /\ (ArrayAfterExpression(j)' <=> ArrayAfterExpression(j))
  <2>1. program'[j] = program[j]
    BY <1>2
  <2>2. LegalFunction(j)' <=> LegalFunction(j)
    BY <1>5, <2>1 DEF LegalFunction, IsUse, IsVariable, IsFunction
  <2>3. LegalVariable(j)' <=> LegalVariable(j)
    BY <1>6, <1>7, <2>1 DEF LegalVariable
  <2>4. \A a : LegalOperand(j, a)' <=> LegalOperand(j, a)
    BY <1>6, <1>7 DEF LegalOperand
  <2>5. \A a : LegalArgument(j, a)' <=> LegalArgument(j, a)
    BY <1>6, <2>4 DEF LegalArgument
  <2>6. LegalCall(j)' <=> LegalCall(j)
    BY <1>7, <2>1, <2>5 DEF LegalCall
  <2>7. Legal(j)' <=> Legal(j)
    BY <1>7, <2>1, <2>2, <2>3, <2>4, <2>6 DEF Legal, IsFunction, IsVariable
  <2>8. ArrayAfterExpression(j)' <=> ArrayAfterExpression(j)
    <3>1. PICK args : args = program[j].args
      OBVIOUS
    <3>2. args = program'[j].args
      BY <2>1, <3>1
    <3>3. \A l : Visible(j, args[l].name, Arrays)' = Visible(j, args[l].name, Arrays)
      BY <1>6
    <3>4. ArrayAfterExpression(j) <=>
            \E k, l \in DOMAIN args : /\ k < l /\ args[k].op \in Complex /\ args[l].op = "IDENTIFIER"
                                      /\ Visible(j, args[l].name, Arrays) # {}
      BY <3>1 DEF ArrayAfterExpression
    <3>5. ArrayAfterExpression(j)' <=>
            \E k, l \in DOMAIN args : /\ k < l /\ args[k].op \in Complex /\ args[l].op = "IDENTIFIER"
                                      /\ Visible(j, args[l].name, Arrays)' # {}
      BY <3>2 DEF ArrayAfterExpression
    <3> QED BY <3>3, <3>4, <3>5
  <2> QED BY <2>7, <2>8
<1> QED BY <1>2, <1>3, <1>4, <1>6, <1>8

\* The items of a chain are the declarations of its name, at d, in their order.
BuiltinItem(name, item) ==
  /\ name \in DOMAIN Builtin
  /\ item.id_type = "FUNC" /\ item.data_type = Builtin[name] /\ item.scope = Global

DeclaredItem(j, name, item) ==
  /\ ~ IsUse(j) /\ program[j].name = name
  /\ item.id_type = program[j].op /\ item.data_type = program[j].type
  /\ item.scope = IF IsFunction(j) THEN name ELSE program[j].scope

Stands(d, chain, name) ==
  /\ d \in [Places(chain) -> 0..Len(program)]
  /\ \A k, l \in Places(chain) : k < l => d[k] < d[l]
  /\ \A k \in Places(chain) : IF d[k] = 0 THEN BuiltinItem(name, chain[k])
                                          ELSE DeclaredItem(d[k], name, chain[k])
  /\ name \in DOMAIN Builtin => \E k \in Places(chain) : d[k] = 0
  /\ \A j \in 1..Len(program) :
       ~ IsUse(j) /\ program[j].name = name => \E k \in Places(chain) : d[k] = j

Fits == \A name \in Names : \E d : Stands(d, hash_table[name], name)

LEMMA Kinds ==
  ASSUME NEW i
  PROVE  /\ IsFunction(i) <=> program[i].op = "FUNC"
         /\ IsVariable(i) <=> program[i].op \in VariableTypes
         /\ ~ (IsFunction(i) /\ IsVariable(i))
         /\ ~ IsUse(i) <=> IsFunction(i) \/ IsVariable(i)
BY DEF IsFunction, IsVariable, IsUse, VariableTypes, Scalars, Arrays

DataTypes(chain) == {chain[k].data_type : k \in FunctionPlaces(chain)}

LEMMA FunctionsRead ==
  ASSUME Typed, NEW name \in Names, NEW chain, chain = hash_table[name], NEW d, Stands(d, chain, name)
  PROVE  TypesNow(name) = DataTypes(chain)
<1>1. chain \in Chain /\ Len(program) \in Nat
  BY DEF Typed
<1>2. ASSUME NEW t \in TypesNow(name) PROVE t \in DataTypes(chain)
  <2>1. CASE name \in DOMAIN Builtin /\ t = Builtin[name]
    <3>1. PICK k \in Places(chain) : d[k] = 0
      BY <2>1 DEF Stands
    <3>2. BuiltinItem(name, chain[k])
      BY <3>1 DEF Stands
    <3> QED BY <2>1, <3>2 DEF BuiltinItem, FunctionPlaces, DataTypes
  <2>2. ASSUME NEW j \in 1..Len(program), IsFunction(j), program[j].name = name, t = program[j].type
        PROVE  t \in DataTypes(chain)
    <3>1. PICK k \in Places(chain) : d[k] = j
      BY <2>2, Kinds DEF Stands
    <3>2. DeclaredItem(j, name, chain[k])
      BY <1>1, <3>1 DEF Stands
    <3> QED BY <2>2, <3>2 DEF DeclaredItem, FunctionPlaces, IsFunction, DataTypes
  <2> QED BY <1>2, <2>1, <2>2 DEF TypesNow
<1>3. ASSUME NEW k \in FunctionPlaces(chain) PROVE chain[k].data_type \in TypesNow(name)
  <2>1. k \in Places(chain) /\ chain[k].id_type = "FUNC"
    BY DEF FunctionPlaces
  <2>2. CASE d[k] = 0
    <3>1. BuiltinItem(name, chain[k])
      BY <2>1, <2>2 DEF Stands
    <3> QED BY <3>1 DEF BuiltinItem, TypesNow
  <2>3. CASE d[k] # 0
    <3>1. DeclaredItem(d[k], name, chain[k]) /\ d[k] \in 1..Len(program)
      BY <1>1, <2>1, <2>3 DEF Stands
    <3> QED BY <2>1, <3>1 DEF DeclaredItem, TypesNow, IsFunction
  <2> QED BY <2>2, <2>3
<1> QED BY <1>2, <1>3 DEF DataTypes

LEMMA VariablesRead ==
  ASSUME Typed, NEW name \in Names, NEW chain, chain = hash_table[name], NEW d, Stands(d, chain, name),
         NEW types \in SUBSET VariableTypes
  PROVE  VisibleNow(name, types) = {d[k] : k \in TypePlaces(chain, types, scope)}
<1>1. chain \in Chain /\ Len(program) \in Nat
  BY DEF Typed
<1>2. "FUNC" \notin types
  BY DEF VariableTypes, Scalars, Arrays
<1>3. ASSUME NEW j \in VisibleNow(name, types)
      PROVE  \E k \in TypePlaces(chain, types, scope) : d[k] = j
  <2>1. j \in 1..Len(program) /\ program[j].op \in types /\ program[j].name = name
        /\ program[j].scope \in {scope, Global}
    BY DEF VisibleNow
  <2>2. IsVariable(j) /\ ~ IsFunction(j) /\ ~ IsUse(j)
    BY <2>1, Kinds DEF IsVariable
  <2>3. PICK k \in Places(chain) : d[k] = j
    BY <2>1, <2>2 DEF Stands
  <2>4. DeclaredItem(j, name, chain[k])
    BY <1>1, <2>1, <2>3 DEF Stands
  <2> QED BY <2>1, <2>2, <2>3, <2>4 DEF DeclaredItem, TypePlaces, InScope
<1>4. ASSUME NEW k \in TypePlaces(chain, types, scope) PROVE d[k] \in VisibleNow(name, types)
  <2>1. k \in Places(chain) /\ chain[k].id_type \in types /\ chain[k].scope \in {scope, Global}
    BY DEF TypePlaces, InScope
  <2>2. d[k] # 0
    BY <1>2, <2>1 DEF Stands, BuiltinItem
  <2>3. DeclaredItem(d[k], name, chain[k]) /\ d[k] \in 1..Len(program)
    BY <1>1, <2>1, <2>2 DEF Stands
  <2>4. ~ IsFunction(d[k])
    BY <1>2, <2>1, <2>3 DEF DeclaredItem, IsFunction
  <2> QED BY <2>1, <2>3, <2>4 DEF DeclaredItem, VisibleNow
<1> QED BY <1>3, <1>4

\* In a legal program a function shares its name with nothing.
LEMMA LegalAlone ==
  ASSUME Typed, LegalProgram, NEW name \in Names, NEW chain, chain = hash_table[name],
         NEW d, Stands(d, chain, name), NEW k \in FunctionPlaces(chain)
  PROVE  Places(chain) = {k}
<1>1. chain \in Chain /\ Len(program) \in Nat /\ DOMAIN program = 1..Len(program) /\ Len(chain) \in Nat
  BY DEF Typed, Chain
<1>2. k \in Places(chain) /\ chain[k].id_type = "FUNC"
  BY DEF FunctionPlaces
<1>3. ASSUME NEW l \in Places(chain), l # k PROVE FALSE
  <2>1. d[k] \in 0..Len(program) /\ d[l] \in 0..Len(program) /\ d[k] # d[l]
    <3>1. k < l \/ l < k
      BY <1>1, <1>2, <1>3 DEF Places
    <3> QED BY <1>1, <1>2, <3>1 DEF Stands
  <2>2. d[k] # 0 => /\ DeclaredItem(d[k], name, chain[k]) /\ IsFunction(d[k])
                    /\ program[d[k]].name = name /\ d[k] \in 1..Len(program)
    BY <1>1, <1>2, <2>1 DEF Stands, DeclaredItem, IsFunction
  <2>3. d[l] # 0 => /\ DeclaredItem(d[l], name, chain[l]) /\ ~ IsUse(d[l])
                    /\ program[d[l]].name = name /\ d[l] \in 1..Len(program)
    BY <1>1, <2>1 DEF Stands, DeclaredItem
  <2>4. d[k] = 0 => name \in DOMAIN Builtin
    BY <1>2 DEF Stands, BuiltinItem
  <2>5. d[l] = 0 => name \in DOMAIN Builtin
    BY DEF Stands, BuiltinItem
  <2>6. \A j \in 1..Len(program) : IsFunction(j) /\ program[j].name = name =>
          /\ name \notin DOMAIN Builtin
          /\ \A m \in 1..(j - 1) : ~ IsUse(m) => program[m].name # name
    <3>1. SUFFICES ASSUME NEW j \in 1..Len(program), IsFunction(j), program[j].name = name
                   PROVE  LegalFunction(j)
      BY DEF LegalFunction
    <3>2. Legal(j)
      BY <1>1 DEF LegalProgram
    <3> QED BY <3>1, <3>2, Kinds DEF Legal, IsFunction, VariableTypes, Scalars, Arrays
  <2>7. \A j \in 1..Len(program) : IsVariable(j) /\ program[j].name = name =>
          /\ name \notin DOMAIN Builtin
          /\ \A m \in 1..(j - 1) : ~ (IsFunction(m) /\ program[m].name = name)
    <3>1. SUFFICES ASSUME NEW j \in 1..Len(program), IsVariable(j), program[j].name = name
                   PROVE  /\ name \notin DOMAIN Builtin
                          /\ \A m \in 1..(j - 1) : ~ (IsFunction(m) /\ program[m].name = name)
      OBVIOUS
    <3>2. Legal(j)
      BY <1>1 DEF LegalProgram
    <3>3. LegalVariable(j)
      BY <3>1, <3>2, Kinds DEF Legal, IsVariable, VariableTypes, Scalars, Arrays
    <3>4. FunctionTypes(j, name) = {}
      BY <3>1, <3>3 DEF LegalVariable
    <3>5. name \notin DOMAIN Builtin
      BY <3>4 DEF FunctionTypes
    <3>6. ASSUME NEW m \in 1..(j - 1), IsFunction(m), program[m].name = name PROVE FALSE
      BY <3>4, <3>6 DEF FunctionTypes
    <3> QED BY <3>5, <3>6
  <2>8. CASE d[k] = 0 \/ d[l] = 0
    BY <2>1, <2>2, <2>3, <2>4, <2>5, <2>6, <2>7, <2>8, Kinds
  <2>9. CASE d[k] # 0 /\ d[l] # 0 /\ d[l] < d[k]
    <3>1. d[l] \in 1..(d[k] - 1)
      BY <1>1, <2>1, <2>3, <2>9
    <3> QED BY <2>2, <2>3, <2>6, <2>9, <3>1
  <2>10. CASE d[k] # 0 /\ d[l] # 0 /\ d[k] < d[l]
    <3>1. d[k] \in 1..(d[l] - 1)
      BY <1>1, <2>1, <2>2, <2>10
    <3> QED BY <2>2, <2>3, <2>6, <2>7, <2>10, <3>1, Kinds
  <2> QED BY <1>1, <2>1, <2>8, <2>9, <2>10
<1> QED BY <1>2, <1>3

LEMMA TableReads ==
  ASSUME Typed, Fits, LegalProgram, NEW name \in Names, NEW chain, chain = hash_table[name]
  PROVE  /\ HasFunction(hash_table, name) <=> TypesNow(name) # {}
         /\ \A types \in SUBSET VariableTypes :
              HasVariable(hash_table, name, types) <=> VisibleNow(name, types) # {}
         /\ FirstIsVariable(chain) <=> VisibleNow(name, VariableTypes) # {}
         /\ HasFunction(hash_table, name) /\ ~ VoidFunction(hash_table, name) <=> TypesNow(name) = {"INT"}
         /\ ClashPlaces(chain, scope) = {} <=> TypesNow(name) = {} /\ VisibleNow(name, VariableTypes) = {}
         /\ chain = <<>> <=> /\ name \notin DOMAIN Builtin
                             /\ \A j \in 1..Len(program) : ~ IsUse(j) => program[j].name # name
<1>1. chain \in Chain /\ Len(program) \in Nat /\ Len(chain) \in Nat
  BY DEF Typed, Chain
<1>2. PICK d : Stands(d, chain, name)
  BY DEF Fits
<1>3. TypesNow(name) = {chain[k].data_type : k \in FunctionPlaces(chain)}
  BY <1>2, FunctionsRead DEF DataTypes
<1>4. \A types \in SUBSET VariableTypes :
        VisibleNow(name, types) = {d[k] : k \in TypePlaces(chain, types, scope)}
  BY <1>2, VariablesRead
<1>5. \A k \in FunctionPlaces(chain) : Places(chain) = {k}
  BY <1>2, LegalAlone
<1>6. \A k \in Places(chain) : chain[k].id_type \in DeclTypes /\ chain[k].data_type \in {"INT", "VOID"}
  BY <1>1, ChainFacts DEF Item
<1>7. \A k \in Places(chain) : chain[k].id_type = "FUNC" \/ chain[k].id_type \in VariableTypes
  BY <1>6 DEF DeclTypes
<1>8. "FUNC" \notin VariableTypes
  BY DEF VariableTypes, Scalars, Arrays
<1>9. HasFunction(hash_table, name) <=> TypesNow(name) # {}
  BY <1>3 DEF HasFunction
<1>10. \A types \in SUBSET VariableTypes :
         HasVariable(hash_table, name, types) <=> VisibleNow(name, types) # {}
  BY <1>4 DEF HasVariable
<1>11. Places(chain) \subseteq Nat
  BY DEF Places
<1>12. FirstIsVariable(chain) <=> VisibleNow(name, VariableTypes) # {}
  <2>1. VisibleNow(name, VariableTypes) # {} <=> TypePlaces(chain, VariableTypes, scope) # {}
    BY <1>4
  <2>2. CASE FunctionPlaces(chain) # {}
    <3>1. \A k \in Places(chain) : chain[k].id_type = "FUNC"
      BY <1>5, <2>2 DEF FunctionPlaces
    <3>2. TypePlaces(chain, VariableTypes, scope) = {}
      BY <1>8, <3>1 DEF TypePlaces
    <3>3. ~ FirstIsVariable(chain)
      BY <3>1 DEF FirstIsVariable, Places_Refer
    <3> QED BY <2>1, <3>2, <3>3
  <2>3. CASE FunctionPlaces(chain) = {}
    <3>1. \A k \in Places(chain) : chain[k].id_type # "FUNC" /\ chain[k].id_type \in VariableTypes
      BY <1>7, <2>3 DEF FunctionPlaces
    <3>2. TypePlaces(chain, VariableTypes, scope) = Places_Refer(chain)
      BY <3>1 DEF TypePlaces, Places_Refer, Refers
    <3>3. Places_Refer(chain) \subseteq Nat /\ Places_Refer(chain) \subseteq Places(chain)
      BY <1>11 DEF Places_Refer
    <3>4. ASSUME Places_Refer(chain) # {} PROVE FirstIsVariable(chain)
      <4>1. PICK k \in Places_Refer(chain) : \A l \in Places_Refer(chain) : k <= l
        BY <3>3, <3>4, LeastOne
      <4> QED BY <3>1, <3>3, <4>1 DEF FirstIsVariable
    <3>5. FirstIsVariable(chain) => Places_Refer(chain) # {}
      BY DEF FirstIsVariable
    <3> QED BY <2>1, <3>2, <3>4, <3>5
  <2> QED BY <2>2, <2>3
<1>13. HasFunction(hash_table, name) /\ ~ VoidFunction(hash_table, name) <=> TypesNow(name) = {"INT"}
  <2>1. CASE FunctionPlaces(chain) = {}
    BY <1>3, <2>1 DEF HasFunction
  <2>2. CASE FunctionPlaces(chain) # {}
    <3>1. PICK k \in FunctionPlaces(chain) : TRUE
      BY <2>2
    <3>2. Places(chain) = {k} /\ FunctionPlaces(chain) \subseteq Places(chain)
      BY <1>5, <3>1 DEF FunctionPlaces
    <3>3. FunctionPlaces(chain) = {k} /\ k \in Nat
      BY <1>11, <3>1, <3>2
    <3>4. TypesNow(name) = {chain[k].data_type}
      BY <1>3, <3>3
    <3>5. VoidFunction(hash_table, name) <=> chain[k].data_type = "VOID"
      BY <3>3 DEF VoidFunction
    <3>6. chain[k].data_type = "INT" \/ chain[k].data_type = "VOID"
      BY <1>6, <3>2
    <3>7. HasFunction(hash_table, name)
      BY <2>2 DEF HasFunction
    <3> QED BY <3>4, <3>5, <3>6, <3>7
  <2> QED BY <2>1, <2>2
<1>14. ClashPlaces(chain, scope) = {} <=> TypesNow(name) = {} /\ VisibleNow(name, VariableTypes) = {}
  <2>1. ClashPlaces(chain, scope) = FunctionPlaces(chain) \cup TypePlaces(chain, VariableTypes, scope)
    BY <1>7 DEF ClashPlaces, FunctionPlaces, TypePlaces
  <2>2. VisibleNow(name, VariableTypes) = {} <=> TypePlaces(chain, VariableTypes, scope) = {}
    BY <1>4
  <2>3. TypesNow(name) = {} <=> FunctionPlaces(chain) = {}
    BY <1>3
  <2> QED BY <2>1, <2>2, <2>3
<1>15. chain = <<>> <=> /\ name \notin DOMAIN Builtin
                        /\ \A j \in 1..Len(program) : ~ IsUse(j) => program[j].name # name
  <2>1. chain = <<>> <=> Places(chain) = {}
    <3>1. chain = <<>> <=> Len(chain) = 0
      BY <1>1 DEF Chain
    <3>2. \A n \in Nat : n = 0 <=> 1..n = {}
      OBVIOUS
    <3> QED BY <1>1, <3>1, <3>2 DEF Places
  <2>2. ASSUME Places(chain) = {}
        PROVE  /\ name \notin DOMAIN Builtin
               /\ \A j \in 1..Len(program) : ~ IsUse(j) => program[j].name # name
    BY <1>2, <2>2 DEF Stands
  <2>3. ASSUME NEW k \in Places(chain)
        PROVE  \/ name \in DOMAIN Builtin
               \/ \E j \in 1..Len(program) : ~ IsUse(j) /\ program[j].name = name
    <3>1. CASE d[k] = 0
      BY <1>2, <3>1 DEF Stands, BuiltinItem
    <3>2. CASE d[k] # 0
      <4>1. DeclaredItem(d[k], name, chain[k]) /\ d[k] \in 1..Len(program)
        BY <1>1, <1>2, <3>2 DEF Stands
      <4> QED BY <4>1 DEF DeclaredItem
    <3> QED BY <3>1, <3>2
  <2> QED BY <2>1, <2>2, <2>3
<1> QED BY <1>9, <1>10, <1>12, <1>13, <1>14, <1>15

LEMMA ArgumentsRead ==
  ASSUME Typed, Fits, LegalProgram, NEW node \in Nodes, NEW i, NEW args, args = node.args,
         \A name, types : Visible(i, name, types)' = VisibleNow(name, types),
         \A name : FunctionTypes(i, name)' = TypesNow(name),
         program'[i] = node
  PROVE  /\ WrongArguments(hash_table, args) = {} =>
              \A k \in DOMAIN args : LegalArgument(i, args[k])'
         /\ ~ ArrayAfterExpression(i)' /\ (\A k \in DOMAIN args : LegalArgument(i, args[k])') =>
              WrongArguments(hash_table, args) = {}
<1>1. args \in Seq(Arguments)
  BY DEF Nodes
<1>2. DOMAIN args = 1..Len(args) /\ \A k \in DOMAIN args : args[k] \in Arguments /\ args[k].name \in Names
  BY <1>1, ArgumentFacts
<1>3. \A k \in DOMAIN args : args[k].op \in {"IDENTIFIER", "CALL"} \cup Complex
  BY <1>2 DEF Arguments
<1>4. Scalars \in SUBSET VariableTypes /\ Arrays \in SUBSET VariableTypes
  BY DEF VariableTypes
<1>5. \A k \in DOMAIN args :
        /\ FoundOperand(hash_table, args[k]) <=>
             IF args[k].op = "CALL" THEN TypesNow(args[k].name) # {}
             ELSE VisibleNow(args[k].name, Expected(args[k].op)) # {}
        /\ FoundSimple(hash_table, args[k]) <=>
             IF args[k].op = "CALL" THEN TypesNow(args[k].name) # {}
             ELSE VisibleNow(args[k].name, VariableTypes) # {}
  BY <1>2, <1>4, TableReads DEF FoundOperand, FoundSimple, Expected
<1>6. \A name : VisibleNow(name, VariableTypes) = VisibleNow(name, Scalars) \cup VisibleNow(name, Arrays)
  BY DEF VisibleNow, VariableTypes
<1>7. \A k \in DOMAIN args :
        LegalArgument(i, args[k])' <=>
          \/ args[k].op = "CALL" /\ TypesNow(args[k].name) # {}
          \/ args[k].op = "ELEMENT" /\ VisibleNow(args[k].name, Arrays) # {}
          \/ args[k].op \in {"IDENTIFIER", "EXPRESSION"} /\ VisibleNow(args[k].name, Scalars) # {}
          \/ args[k].op = "IDENTIFIER" /\ VisibleNow(args[k].name, Arrays) # {}
  BY DEF LegalArgument, LegalOperand
<1>8. \A k \in DOMAIN args :
        LegalArgument(i, args[k])' <=>
          IF args[k].op \in Complex THEN FoundOperand(hash_table, args[k])
                                    ELSE FoundSimple(hash_table, args[k])
  BY <1>3, <1>5, <1>6, <1>7 DEF Complex, Expected
<1>9. ASSUME WrongArguments(hash_table, args) = {}, NEW k \in DOMAIN args
      PROVE  LegalArgument(i, args[k])'
  <2>1. args[k].op \notin Complex => FoundSimple(hash_table, args[k])
    BY <1>9 DEF WrongArguments
  <2>2. args[k].op \in Complex => FoundOperand(hash_table, args[k])
    <3>1. k \in 1..k
      BY <1>2
    <3> QED BY <1>9, <3>1 DEF WrongArguments
  <2> QED BY <1>8, <2>1, <2>2
<1>10. ASSUME ~ ArrayAfterExpression(i)', \A k \in DOMAIN args : LegalArgument(i, args[k])',
              NEW l \in DOMAIN args
       PROVE  l \notin WrongArguments(hash_table, args)
  <2>1. args[l].op \notin Complex => FoundSimple(hash_table, args[l])
    BY <1>8, <1>10
  <2>2. ASSUME NEW k \in 1..l, args[k].op \in Complex, ~ FoundOperand(hash_table, args[l]) PROVE FALSE
    <3>1. args[l].op \notin Complex
      BY <1>8, <1>10, <2>2
    <3>2. args[l].op = "IDENTIFIER"
      BY <1>3, <1>5, <2>1, <2>2, <3>1
    <3>3. VisibleNow(args[l].name, Arrays) # {}
      BY <1>5, <1>6, <2>1, <2>2, <3>1, <3>2 DEF Expected
    <3>4. k < l /\ k \in DOMAIN args
      BY <1>2, <2>2, <3>1
    <3>5. ArrayAfterExpression(i)'
      BY <2>2, <3>2, <3>3, <3>4 DEF ArrayAfterExpression
    <3> QED BY <1>10, <3>5
  <2> QED BY <2>1, <2>2 DEF WrongArguments
<1>11. WrongArguments(hash_table, args) \subseteq DOMAIN args
  BY DEF WrongArguments
<1> QED BY <1>9, <1>10, <1>11

\* A node is found right exactly when it is legal, but for an array after an expression.
LEMMA Verdict ==
  ASSUME Typed, Fits, LegalProgram, semantic_errors = 0, NEW node \in Nodes, Traverses(node),
         NEW i, i = Len(program) + 1
  PROVE  /\ semantic_errors' = 0 => Legal(i)'
         /\ semantic_errors' # 0 => ~ Legal(i)' \/ ArrayAfterExpression(i)'
<1>1. /\ program' = Append(program, node) /\ node.scope = scope /\ semantic_errors' \in Nat
      /\ AddsFunction(node) \/ AddsVariable(node) \/ AddsUse(node)
  BY DEF Traverses
<1>2. /\ Len(program') = i /\ i \in Nat /\ program'[i] = node
      /\ \A j \in 1..(i - 1) : program'[j] = program[j]
      /\ \A name, types : Visible(i, name, types)' = VisibleNow(name, types)
      /\ \A name : FunctionTypes(i, name)' = TypesNow(name)
  BY <1>1, NewNode
<1>3. Len(program) \in Nat /\ i - 1 = Len(program)
  BY DEF Typed
<1>4. PICK name \in Names : name = node.name
  BY DEF Nodes
<1>5. PICK chain : chain = hash_table[name]
  OBVIOUS
<1>6. /\ IsFunction(i)' <=> node.op = "FUNC"
      /\ IsVariable(i)' <=> node.op \in VariableTypes
      /\ \A j \in 1..(i - 1) : IsUse(j)' <=> IsUse(j)
  BY <1>2 DEF IsFunction, IsVariable, IsUse
<1>7. CASE AddsFunction(node)
  <2>1. node.op = "FUNC" /\ (semantic_errors' = 0 <=> chain = <<>>)
    BY <1>1, <1>4, <1>5, <1>7 DEF AddsFunction
  <2>2. Legal(i)' <=> LegalFunction(i)'
    BY <1>2, <1>6, <2>1 DEF Legal, VariableTypes, Scalars, Arrays
  <2>3. LegalFunction(i)' <=> /\ name \notin DOMAIN Builtin
                              /\ \A j \in 1..Len(program) : ~ IsUse(j) => program[j].name # name
    BY <1>2, <1>3, <1>4, <1>6 DEF LegalFunction
  <2>4. LegalFunction(i)' <=> chain = <<>>
    BY <1>5, <2>3, TableReads
  <2> QED BY <2>1, <2>2, <2>4
<1>8. CASE AddsVariable(node)
  <2>1. node.op \in VariableTypes /\ node.op # "FUNC" /\ (semantic_errors' = 0 <=> Free(node))
    BY <1>1, <1>8 DEF AddsVariable, VariableTypes, Scalars, Arrays
  <2>2. Legal(i)' <=> LegalVariable(i)'
    BY <1>2, <1>6, <2>1 DEF Legal, VariableTypes, Scalars, Arrays
  <2>3. LegalVariable(i)' <=> /\ node.type = "INT" /\ TypesNow(name) = {}
                              /\ VisibleNow(name, VariableTypes) = {}
    BY <1>2, <1>4 DEF LegalVariable
  <2>4. Free(node) <=> node.type = "INT" /\ ClashPlaces(chain, scope) = {}
    BY <1>4, <1>5 DEF Free, FreeIn
  <2>5. Free(node) <=> LegalVariable(i)'
    BY <1>5, <2>3, <2>4, TableReads
  <2> QED BY <2>1, <2>2, <2>5
<1>9. CASE AddsUse(node)
  <2>1. /\ node.op \in {"IDENTIFIER", "ELEMENT", "CALL", "ASSIGN"}
        /\ node.op \notin VariableTypes /\ node.op # "FUNC"
        /\ semantic_errors' = 0 <=> Right(node)
    BY <1>1, <1>9 DEF AddsUse, VariableTypes, Scalars, Arrays
  <2>2. Scalars \in SUBSET VariableTypes /\ Arrays \in SUBSET VariableTypes
    BY DEF VariableTypes
  <2>3. /\ HasFunction(hash_table, name) <=> TypesNow(name) # {}
        /\ \A types \in SUBSET VariableTypes :
             HasVariable(hash_table, name, types) <=> VisibleNow(name, types) # {}
        /\ HasFunction(hash_table, name) /\ ~ VoidFunction(hash_table, name) <=> TypesNow(name) = {"INT"}
    BY TableReads
  <2>4. CASE node.op \in {"IDENTIFIER", "ELEMENT"}
    <3>1. Right(node) <=> FoundOperand(hash_table, node)
      BY <2>4 DEF Right
    <3>2. FoundOperand(hash_table, node) <=> VisibleNow(name, Expected(node.op)) # {}
      BY <1>4, <2>2, <2>3, <2>4 DEF FoundOperand, Expected
    <3>3. Legal(i)' <=> LegalOperand(i, node)'
      <4>1. program'[i] = node
        BY <1>2
      <4>2. Legal(i)' <=> LegalOperand(i, program[i])'
        BY <1>2, <1>6, <2>1, <2>4 DEF Legal
      <4> QED BY <4>1, <4>2 DEF LegalOperand
    <3>4. LegalOperand(i, node)' <=> VisibleNow(name, Expected(node.op)) # {}
      BY <1>2, <1>4, <2>4 DEF LegalOperand, Expected
    <3> QED BY <2>1, <3>1, <3>2, <3>3, <3>4
  <2>5. CASE node.op = "CALL"
    <3>1. Right(node) <=> HasFunction(hash_table, name) /\ WrongArguments(hash_table, node.args) = {}
      BY <1>4, <2>5 DEF Right
    <3>2. Legal(i)' <=> LegalCall(i)'
      BY <1>2, <1>6, <2>1, <2>5 DEF Legal
    <3>3. LegalCall(i)' <=> /\ TypesNow(name) # {}
                            /\ \A k \in DOMAIN node.args : LegalArgument(i, node.args[k])'
      BY <1>2, <1>4 DEF LegalCall
    <3>4. PICK args : args = node.args
      OBVIOUS
    <3>5. /\ WrongArguments(hash_table, args) = {} =>
               \A k \in DOMAIN args : LegalArgument(i, args[k])'
          /\ ~ ArrayAfterExpression(i)' /\ (\A k \in DOMAIN args : LegalArgument(i, args[k])') =>
               WrongArguments(hash_table, args) = {}
      BY <1>2, <3>4, ArgumentsRead
    <3> QED BY <2>1, <2>3, <3>1, <3>2, <3>3, <3>4, <3>5
  <2>6. CASE node.op = "ASSIGN"
    <3>1. PICK left : left = node.args[1]
      OBVIOUS
    <3>2. left.op = "IDENTIFIER" /\ left.name \in Names
      <4>1. node.args = <<[op |-> "IDENTIFIER", name |-> left.name]>>
        BY <1>9, <2>6, <3>1 DEF AddsUse
      <4>2. node.args \in Seq(Arguments) /\ Len(node.args) = 1
        BY <4>1 DEF Nodes
      <4>3. left \in Arguments
        BY <3>1, <4>2
      <4> QED BY <3>1, <4>1, <4>3 DEF Arguments
    <3>3. Right(node) <=> RightAssign(hash_table, name, left.name)
      BY <1>4, <2>6, <3>1 DEF Right
    <3>4. HasVariable(hash_table, left.name, Scalars) <=> VisibleNow(left.name, Scalars) # {}
      BY <2>2, <3>2, TableReads
    <3>5. Right(node) <=> TypesNow(name) = {"INT"} /\ VisibleNow(left.name, Scalars) # {}
      BY <2>3, <3>3, <3>4 DEF RightAssign
    <3>6. Legal(i)' <=> TypesNow(name) = {"INT"} /\ LegalOperand(i, left)'
      <4>1. FunctionTypes(i, name)' = TypesNow(name)
        BY <1>2
      <4>2. Legal(i)' <=> FunctionTypes(i, program[i].name)' = {"INT"} /\ LegalOperand(i, program[i].args[1])'
        BY <1>2, <1>6, <2>1, <2>6 DEF Legal
      <4> QED BY <1>2, <1>4, <3>1, <4>1, <4>2 DEF LegalOperand
    <3>7. LegalOperand(i, left)' <=> VisibleNow(left.name, Scalars) # {}
      BY <1>2, <3>2 DEF LegalOperand
    <3> QED BY <2>1, <3>5, <3>6, <3>7
  <2> QED BY <2>1, <2>4, <2>5, <2>6
<1> QED BY <1>1, <1>7, <1>8, <1>9

LEMMA StandsOn ==
  ASSUME Typed, NEW node \in Nodes, program' = Append(program, node), node.scope = scope,
         NEW name \in Names, NEW chain \in Chain, NEW d, Stands(d, chain, name),
         NEW i, i = Len(program) + 1, IsUse(i)' \/ node.name # name,
         NEW new \in Chain, Len(new) = Len(chain),
         \A k \in Places(chain) : /\ new[k].id_type = chain[k].id_type
                                  /\ new[k].data_type = chain[k].data_type
                                  /\ new[k].scope = chain[k].scope
  PROVE  Stands(d, new, name)'
<1>1. Len(program') = i /\ i \in Nat /\ program'[i] = node /\ Len(program) \in Nat /\ i - 1 = Len(program)
      /\ \A j \in 1..(i - 1) : program'[j] = program[j]
  BY NewNode DEF Typed
<1>2. \A j \in 1..(i - 1) : (IsUse(j)' <=> IsUse(j)) /\ (IsFunction(j)' <=> IsFunction(j))
  BY <1>1 DEF IsUse, IsVariable, IsFunction
<1>3. Places(new) = Places(chain)
  BY DEF Places
<1>4. d \in [Places(new) -> 0..Len(program')]
  BY <1>1, <1>3 DEF Stands
<1>5. \A k, l \in Places(new) : k < l => d[k] < d[l]
  BY <1>3 DEF Stands
<1>6. ASSUME NEW k \in Places(new)
      PROVE  IF d[k] = 0 THEN BuiltinItem(name, new[k]) ELSE DeclaredItem(d[k], name, new[k])'
  <2>1. IF d[k] = 0 THEN BuiltinItem(name, chain[k]) ELSE DeclaredItem(d[k], name, chain[k])
    BY <1>3 DEF Stands
  <2>2. d[k] \in 0..(i - 1)
    BY <1>1, <1>3 DEF Stands
  <2>3. CASE d[k] = 0
    BY <1>3, <2>1, <2>3 DEF BuiltinItem
  <2>4. CASE d[k] # 0
    <3>1. d[k] \in 1..(i - 1)
      BY <1>1, <2>2, <2>4
    <3> QED BY <1>1, <1>2, <1>3, <2>1, <2>4, <3>1 DEF DeclaredItem
  <2> QED BY <2>3, <2>4
<1>7. name \in DOMAIN Builtin => \E k \in Places(new) : d[k] = 0
  BY <1>3 DEF Stands
<1>8. ASSUME NEW j \in 1..Len(program'), ~ IsUse(j)', program'[j].name = name
      PROVE  \E k \in Places(new) : d[k] = j
  <2>1. j # i
    BY <1>1, <1>8
  <2>2. j \in 1..(i - 1)
    BY <1>1, <2>1
  <2> QED BY <1>1, <1>2, <1>3, <1>8, <2>2 DEF Stands
<1> QED BY <1>4, <1>5, <1>6, <1>7, <1>8 DEF Stands, BuiltinItem

LEMMA StandsMore ==
  ASSUME Typed, NEW node \in Nodes, program' = Append(program, node), node.scope = scope,
         NEW name \in Names, NEW chain \in Chain, NEW d, Stands(d, chain, name),
         NEW item \in Item, NEW i, i = Len(program) + 1, DeclaredItem(i, name, item)'
  PROVE  \E e : Stands(e, Append(chain, item), name)'
<1>1. Len(program') = i /\ i \in Nat /\ program'[i] = node /\ Len(program) \in Nat /\ i - 1 = Len(program)
      /\ \A j \in 1..(i - 1) : program'[j] = program[j]
  BY NewNode DEF Typed
<1>2. \A j \in 1..(i - 1) : (IsUse(j)' <=> IsUse(j)) /\ (IsFunction(j)' <=> IsFunction(j))
  BY <1>1 DEF IsUse, IsVariable, IsFunction
<1>3. PICK n \in Nat : n = Len(chain)
  BY DEF Chain
<1>4. PICK new : new = Append(chain, item)
  OBVIOUS
<1>5. Len(new) = n + 1 /\ new[n + 1] = item /\ \A k \in 1..n : new[k] = chain[k]
  BY <1>3, <1>4 DEF Chain
<1>6. Places(chain) = 1..n /\ Places(new) = 1..(n + 1)
  BY <1>3, <1>5 DEF Places
<1>7. PICK e : e = [k \in 1..(n + 1) |-> IF k = n + 1 THEN i ELSE d[k]]
  OBVIOUS
<1>8. e[n + 1] = i /\ n + 1 \in 1..(n + 1) /\ \A k \in 1..n : e[k] = d[k] /\ d[k] \in 0..(i - 1)
  BY <1>1, <1>6, <1>7 DEF Stands
<1>9. \A k \in 1..(n + 1) : k = n + 1 \/ k \in 1..n
  OBVIOUS
<1>10. e \in [Places(new) -> 0..Len(program')]
  <2>1. \A k \in 1..(n + 1) : e[k] \in 0..i
    BY <1>1, <1>8, <1>9
  <2> QED BY <1>1, <1>6, <1>7, <2>1
<1>11. ASSUME NEW k \in Places(new), NEW l \in Places(new), k < l PROVE e[k] < e[l]
  <2>1. k \in 1..n
    BY <1>6, <1>11
  <2>2. CASE l = n + 1
    BY <1>1, <1>8, <2>1, <2>2
  <2>3. CASE l # n + 1
    <3>1. l \in 1..n
      BY <1>6, <2>3
    <3> QED BY <1>6, <1>8, <1>11, <2>1, <3>1 DEF Stands
  <2> QED BY <2>2, <2>3
<1>12. ASSUME NEW k \in Places(new)
       PROVE  IF e[k] = 0 THEN BuiltinItem(name, new[k]) ELSE DeclaredItem(e[k], name, new[k])'
  <2>1. CASE k = n + 1
    BY <1>1, <1>5, <1>8, <2>1
  <2>2. CASE k # n + 1
    <3>1. k \in 1..n
      BY <1>6, <2>2
    <3>2. IF d[k] = 0 THEN BuiltinItem(name, chain[k]) ELSE DeclaredItem(d[k], name, chain[k])
      BY <1>6, <3>1 DEF Stands
    <3>3. new[k] = chain[k] /\ e[k] = d[k] /\ d[k] \in 0..(i - 1)
      BY <1>5, <1>8, <3>1
    <3>4. CASE d[k] = 0
      BY <3>2, <3>3, <3>4
    <3>5. CASE d[k] # 0
      <4>1. d[k] \in 1..(i - 1)
        BY <1>1, <3>3, <3>5
      <4> QED BY <1>1, <1>2, <3>2, <3>3, <3>5, <4>1 DEF DeclaredItem
    <3> QED BY <3>4, <3>5
  <2> QED BY <2>1, <2>2
<1>13. name \in DOMAIN Builtin => \E k \in Places(new) : e[k] = 0
  <2>1. name \in DOMAIN Builtin => \E k \in 1..n : d[k] = 0
    BY <1>6 DEF Stands
  <2>2. 1..n \subseteq Places(new)
    BY <1>6
  <2> QED BY <1>8, <2>1, <2>2
<1>14. ASSUME NEW j \in 1..Len(program'), ~ IsUse(j)', program'[j].name = name
       PROVE  \E k \in Places(new) : e[k] = j
  <2>1. CASE j = i
    BY <1>6, <1>8, <2>1
  <2>2. CASE j # i
    <3>1. j \in 1..(i - 1)
      BY <1>1, <2>2
    <3>2. PICK k \in 1..n : d[k] = j
      BY <1>1, <1>2, <1>6, <1>14, <3>1 DEF Stands
    <3>3. k \in Places(new)
      BY <1>6
    <3> QED BY <1>8, <3>2, <3>3
  <2> QED BY <2>1, <2>2
<1>15. Stands(e, new, name)'
  BY <1>10, <1>11, <1>12, <1>13, <1>14 DEF Stands, BuiltinItem
<1> QED BY <1>4, <1>15

LEMMA FitsOn ==
  ASSUME Typed, Fits, NEW node \in Nodes, Traverses(node), semantic_errors = 0, semantic_errors' = 0
  PROVE  Fits'
<1>1. /\ program' = Append(program, node) /\ node.scope = scope
      /\ hash_table' \in [Names -> Chain] /\ hash_table \in [Names -> Chain]
      /\ AddsFunction(node) \/ AddsVariable(node) \/ AddsUse(node)
  BY DEF Traverses, Typed
<1>2. PICK i : i = Len(program) + 1
  OBVIOUS
<1>3. program'[i] = node
  BY <1>1, <1>2, NewNode
<1>4. SUFFICES ASSUME NEW name \in Names PROVE \E e : Stands(e, hash_table[name], name)'
  BY DEF Fits
<1>5. PICK chain \in Chain : chain = hash_table[name]
  BY <1>1
<1>6. PICK new \in Chain : new = hash_table'[name]
  BY <1>1
<1>7. PICK d : Stands(d, chain, name)
  BY <1>5 DEF Fits
<1>8. ASSUME AddsUse(node) PROVE \E e : Stands(e, new, name)'
  <2>1. IsUse(i)'
    BY <1>3, <1>8 DEF AddsUse, IsUse, IsVariable, IsFunction, VariableTypes, Scalars, Arrays
  <2>2. Len(new) = Len(chain) /\ \A k \in Places(chain) : Gains(chain[k], new[k])
    BY <1>5, <1>6, <1>8 DEF AddsUse, Grown
  <2>3. \A k \in Places(chain) : /\ new[k].id_type = chain[k].id_type
                                 /\ new[k].data_type = chain[k].data_type
                                 /\ new[k].scope = chain[k].scope
    BY <2>2, Zenon DEF Gains
  <2>4. Stands(d, new, name)'
    BY <1>1, <1>2, <1>7, <2>1, <2>2, <2>3, StandsOn
  <2> QED BY <2>4
<1>9. ASSUME NEW item \in Item, Inserted(hash_table, hash_table', node.name, item),
             DeclaredItem(i, node.name, item)'
      PROVE  \E e : Stands(e, new, name)'
  <2>1. CASE node.name = name
    <3>1. new = Append(chain, item)
      BY <1>1, <1>5, <1>6, <1>9, <2>1 DEF Inserted
    <3>2. \E e : Stands(e, Append(chain, item), name)'
      BY <1>1, <1>2, <1>7, <1>9, <2>1, StandsMore
    <3> QED BY <3>1, <3>2
  <2>2. CASE node.name # name
    <3>1. new = chain
      BY <1>1, <1>5, <1>6, <1>9, <2>2 DEF Inserted
    <3>2. Stands(d, new, name)'
      BY <1>1, <1>7, <2>2, <3>1, StandsOn
    <3> QED BY <3>2
  <2> QED BY <2>1, <2>2
<1>10. node.name \in Names /\ node.type \in {"INT", "VOID"} /\ node.name \in Scopes /\ scope \in Scopes
  BY DEF Nodes, Typed, Scopes
<1>11. ASSUME NEW id_type \in DeclTypes, NEW type \in {"INT", "VOID"}, NEW where \in Scopes,
              NEW line \in 0..Line, NEW item, item = create_new_item(id_type, type, where, line)
       PROVE  /\ item \in Item /\ item.id_type = id_type /\ item.data_type = type /\ item.scope = where
  <2>1. PICK S : S = 0..MaxNodes
    OBVIOUS
  <2>2. line \in S
    <3>1. Line \in 0..MaxNodes /\ MaxNodes \in Nat
      BY LineRange, BoundsAssumption DEF Traverses
    <3> QED BY <2>1, <3>1
  <2>3. <<line>> \in Seq(S)
    BY <2>2
  <2> QED BY <1>11, <2>1, <2>3 DEF create_new_item, Item
<1>12. ASSUME AddsFunction(node) PROVE \E e : Stands(e, new, name)'
  <2>1. PICK item : item = create_new_item("FUNC", node.type, node.name, Line)
    OBVIOUS
  <2>2. Inserted(hash_table, hash_table', node.name, item)
    <3>1. hash_table[node.name] # <<>> => semantic_errors' > semantic_errors
      BY <1>12 DEF AddsFunction
    <3>2. hash_table[node.name] = <<>>
      BY <3>1
    <3> QED BY <1>12, <2>1, <3>2 DEF AddsFunction
  <2>3. item \in Item /\ item.id_type = "FUNC" /\ item.data_type = node.type /\ item.scope = node.name
    <3>1. PICK line : line = Line
      OBVIOUS
    <3>2. line \in 0..Line
      BY <3>1 DEF Typed, Line
    <3>3. "FUNC" \in DeclTypes
      BY DEF DeclTypes
    <3>4. item = create_new_item("FUNC", node.type, node.name, line)
      BY <2>1, <3>1
    <3> QED BY <1>10, <1>11, <3>2, <3>3, <3>4
  <2>4. node.op = "FUNC"
    BY <1>12 DEF AddsFunction
  <2>5. DeclaredItem(i, node.name, item)'
    BY <1>3, <2>3, <2>4 DEF DeclaredItem, IsUse, IsFunction
  <2> QED BY <1>9, <2>2, <2>3, <2>5
<1>13. ASSUME AddsVariable(node) PROVE \E e : Stands(e, new, name)'
  <2>1. PICK line \in 0..Line :
          /\ Free(node) => Inserted(hash_table, hash_table', node.name, create_new_item(node.op, "INT", scope, line))
          /\ ~ Free(node) => semantic_errors' > semantic_errors
    BY <1>13 DEF AddsVariable
  <2>2. Free(node)
    BY <2>1
  <2>3. PICK item : item = create_new_item(node.op, "INT", scope, line)
    OBVIOUS
  <2>4. Inserted(hash_table, hash_table', node.name, item)
    BY <2>1, <2>2, <2>3
  <2>5. node.op \in VariableTypes /\ node.op \in DeclTypes /\ node.type = "INT"
    BY <1>13, <2>2 DEF AddsVariable, DeclTypes, Free, FreeIn
  <2>6. item \in Item /\ item.id_type = node.op /\ item.data_type = "INT" /\ item.scope = scope
    BY <1>10, <1>11, <2>3, <2>5
  <2>7. DeclaredItem(i, node.name, item)'
    BY <1>1, <1>3, <2>5, <2>6 DEF DeclaredItem, IsUse, IsFunction, IsVariable, VariableTypes, Scalars, Arrays
  <2> QED BY <1>9, <2>4, <2>6, <2>7
<1>14. \E e : Stands(e, new, name)'
  BY <1>1, <1>8, <1>12, <1>13
<1> QED BY <1>6, <1>14

-----------------------------------------------------------------------------
(* The verdict of the analysis.                                            *)

Accepted == semantic_errors = 0 => Fits /\ LegalProgram

Refused ==
  phase = "analysis" /\ semantic_errors # 0 =>
    \/ ~ LegalProgram
    \/ \E i \in DOMAIN program : ArrayAfterExpression(i)

\* A step that is not the visit of a node leaves the program and the table alone.
LEMMA OtherSteps ==
  ASSUME Typed, EndFunction \/ FinishAnalysis \/ Generates \/ UNCHANGED vars
  PROVE  /\ program' = program /\ hash_table' = hash_table
         /\ semantic_errors' = 0 => semantic_errors = 0
         /\ phase' = "analysis" => phase = "analysis" /\ semantic_errors' = semantic_errors
<1>1. CASE EndFunction
  BY <1>1 DEF EndFunction
<1>2. CASE FinishAnalysis
  <2>1. phase' # "analysis" /\ program' = program /\ hash_table' = hash_table
    BY <1>2 DEF FinishAnalysis
  <2>2. semantic_errors \in Nat
        /\ (semantic_errors' = semantic_errors \/ semantic_errors' = semantic_errors + 1)
    BY <1>2 DEF FinishAnalysis, Typed
  <2>3. semantic_errors' = 0 => semantic_errors = 0
    BY <2>2
  <2> QED BY <2>1, <2>3
<1>3. CASE Generates
  BY <1>3 DEF Generates, GenerateFunction, GenerateAlloc, GenerateCall, GenerateOther, Generate
<1>4. CASE UNCHANGED vars
  BY <1>4 DEF vars
<1> QED BY <1>1, <1>2, <1>3, <1>4

\* What a program means is read off its nodes.
LEMMA SameProgram ==
  ASSUME program' = program
  PROVE  /\ \A i : Legal(i)' <=> Legal(i)
         /\ \A i : ArrayAfterExpression(i)' <=> ArrayAfterExpression(i)
         /\ \A d, chain, name : Stands(d, chain, name)' <=> Stands(d, chain, name)
<1>1. \A i, name, types : Visible(i, name, types)' = Visible(i, name, types)
  BY DEF Visible
<1>2. \A i, name : FunctionTypes(i, name)' = FunctionTypes(i, name)
  BY DEF FunctionTypes, IsFunction
<1>3. ASSUME NEW i PROVE Legal(i)' <=> Legal(i)
  <2>1. LegalFunction(i)' <=> LegalFunction(i)
    BY DEF LegalFunction, IsUse, IsVariable, IsFunction
  <2>2. LegalVariable(i)' <=> LegalVariable(i)
    BY <1>1, <1>2 DEF LegalVariable
  <2>3. \A a : LegalOperand(i, a)' <=> LegalOperand(i, a)
    BY <1>1, <1>2 DEF LegalOperand
  <2>4. \A a : LegalArgument(i, a)' <=> LegalArgument(i, a)
    BY <1>1, <2>3 DEF LegalArgument
  <2>5. LegalCall(i)' <=> LegalCall(i)
    BY <1>2, <2>4 DEF LegalCall
  <2> QED BY <1>2, <2>1, <2>2, <2>3, <2>5 DEF Legal, IsFunction, IsVariable
<1>4. ASSUME NEW i PROVE ArrayAfterExpression(i)' <=> ArrayAfterExpression(i)
  <2>1. PICK args : args = program[i].args
    OBVIOUS
  <2>2. \A l : Visible(i, args[l].name, Arrays)' = Visible(i, args[l].name, Arrays)
    BY <1>1
  <2> QED BY <2>1, <2>2 DEF ArrayAfterExpression
<1>5. \A d, chain, name : Stands(d, chain, name)' <=> Stands(d, chain, name)
  <2>1. \A j : (IsUse(j)' <=> IsUse(j)) /\ (IsFunction(j)' <=> IsFunction(j))
    BY DEF IsUse, IsVariable, IsFunction
  <2>2. \A j, name, item : DeclaredItem(j, name, item)' <=> DeclaredItem(j, name, item)
    BY <2>1 DEF DeclaredItem
  <2> QED BY <2>1, <2>2 DEF Stands, BuiltinItem
<1> QED BY <1>3, <1>4, <1>5

LEMMA AcceptedInit ==
  Init => Accepted /\ Refused
<1>1. SUFFICES ASSUME Init PROVE Accepted /\ Refused
  OBVIOUS
<1>2. program = <<>> /\ semantic_errors = 0 /\ hash_table = BuiltinTable
  BY <1>1 DEF Init
<1>3. Len(program) = 0 /\ DOMAIN program = {} /\ 1..Len(program) = {}
  BY <1>2
<1>4. LegalProgram
  BY <1>3 DEF LegalProgram
<1>5. ASSUME NEW name \in Names PROVE \E d : Stands(d, hash_table[name], name)
  <2>1. CASE name \in DOMAIN Builtin
    <3>1. PICK item : item = create_new_item("FUNC", Builtin[name], Global, 0)
      OBVIOUS
    <3>2. hash_table[name] = <<item>>
      BY <1>2, <2>1, <3>1 DEF BuiltinTable
    <3>3. BuiltinItem(name, item)
      BY <2>1, <3>1 DEF BuiltinItem, create_new_item
    <3>4. Places(<<item>>) = {1} /\ <<item>>[1] = item
      BY DEF Places
    <3>5. PICK d : d = [k \in {1} |-> 0]
      OBVIOUS
    <3>6. d \in [{1} -> 0..Len(program)] /\ d[1] = 0
      BY <1>3, <3>5
    <3>7. Stands(d, <<item>>, name)
      BY <1>3, <3>3, <3>4, <3>6 DEF Stands
    <3> QED BY <3>2, <3>7
  <2>2. CASE name \notin DOMAIN Builtin
    <3>1. hash_table[name] = <<>>
      BY <1>2, <2>2 DEF BuiltinTable
    <3>2. Places(<<>>) = {}
      BY DEF Places
    <3>3. PICK d : d = [k \in {} |-> 0]
      OBVIOUS
    <3>4. d \in [{} -> 0..Len(program)]
      BY <3>3
    <3>5. Stands(d, <<>>, name)
      BY <1>3, <2>2, <3>2, <3>4 DEF Stands
    <3> QED BY <3>1, <3>5
  <2> QED BY <2>1, <2>2
<1> QED BY <1>2, <1>4, <1>5 DEF Accepted, Refused, Fits

LEMMA AcceptedStep ==
  ASSUME Typed, Accepted, Refused, [Next]_vars
  PROVE  Accepted' /\ Refused'
<1>1. ASSUME NEW node \in Nodes, Traverses(node) PROVE Accepted' /\ Refused'
  <2>1. PICK i : i = Len(program) + 1
    OBVIOUS
  <2>2. /\ program' = Append(program, node) /\ node.scope = scope /\ phase = "analysis"
        /\ semantic_errors' \in Nat /\ semantic_errors \in Nat
        /\ AddsFunction(node) \/ AddsVariable(node) \/ AddsUse(node)
    BY <1>1 DEF Traverses, Typed
  <2>3. semantic_errors' >= semantic_errors
    BY <2>2 DEF AddsFunction, AddsVariable, AddsUse
  <2>4. semantic_errors' = 0 => semantic_errors = 0
    BY <2>2, <2>3
  <2>5. /\ i \in Nat \ {0} /\ DOMAIN program' = 1..i /\ DOMAIN program = 1..(i - 1)
        /\ \A j \in 1..(i - 1) : (Legal(j)' <=> Legal(j))
                                 /\ (ArrayAfterExpression(j)' <=> ArrayAfterExpression(j))
    <3>1. program \in Seq(Nodes) /\ DOMAIN program = 1..Len(program) /\ Len(program) = i - 1
      BY <2>1 DEF Typed
    <3> QED BY <2>1, <2>2, <3>1, NewNode
  <2>6. i \in 1..i /\ \A j \in 1..i : j = i \/ j \in 1..(i - 1)
    BY <2>5
  <2>7. LegalProgram' <=> LegalProgram /\ Legal(i)'
    <3>1. \A j \in 1..(i - 1) : j \in 1..i
      BY <2>5
    <3> QED BY <2>5, <2>6, <3>1 DEF LegalProgram
  <2>8. ASSUME semantic_errors' = 0 PROVE Fits' /\ LegalProgram'
    <3>1. semantic_errors = 0 /\ Fits /\ LegalProgram
      BY <2>4, <2>8 DEF Accepted
    <3>2. Legal(i)'
      BY <1>1, <2>1, <2>8, <3>1, Verdict
    <3>3. Fits'
      BY <1>1, <2>8, <3>1, FitsOn
    <3> QED BY <2>7, <3>1, <3>2, <3>3
  <2>9. ASSUME semantic_errors' # 0
        PROVE  ~ LegalProgram' \/ \E j \in DOMAIN program' : ArrayAfterExpression(j)'
    <3>1. CASE semantic_errors = 0
      <4>1. Fits /\ LegalProgram
        BY <3>1 DEF Accepted
      <4>2. ~ Legal(i)' \/ ArrayAfterExpression(i)'
        BY <1>1, <2>1, <2>9, <3>1, <4>1, Verdict
      <4> QED BY <2>5, <2>6, <2>7, <4>2
    <3>2. CASE semantic_errors # 0
      <4>1. ~ LegalProgram \/ \E j \in DOMAIN program : ArrayAfterExpression(j)
        BY <2>2, <3>2 DEF Refused
      <4>2. CASE ~ LegalProgram
        BY <2>7, <4>2
      <4>3. ASSUME NEW j \in 1..(i - 1), ArrayAfterExpression(j)
            PROVE  \E k \in DOMAIN program' : ArrayAfterExpression(k)'
        <5>1. j \in 1..i
          BY <2>5
        <5> QED BY <2>5, <4>3, <5>1
      <4> QED BY <2>5, <4>1, <4>2, <4>3
    <3> QED BY <3>1, <3>2
  <2> QED BY <2>8, <2>9 DEF Accepted, Refused
<1>2. ASSUME EndFunction \/ FinishAnalysis \/ Generates \/ UNCHANGED vars
      PROVE  Accepted' /\ Refused'
  <2>1. /\ program' = program /\ hash_table' = hash_table
        /\ semantic_errors' = 0 => semantic_errors = 0
        /\ phase' = "analysis" => phase = "analysis" /\ semantic_errors' = semantic_errors
    BY <1>2, OtherSteps
  <2>2. /\ \A i : Legal(i)' <=> Legal(i)
        /\ \A i : ArrayAfterExpression(i)' <=> ArrayAfterExpression(i)
        /\ \A d, chain, name : Stands(d, chain, name)' <=> Stands(d, chain, name)
    BY <2>1, SameProgram
  <2>3. LegalProgram' <=> LegalProgram
    BY <2>1, <2>2 DEF LegalProgram
  <2>4. Fits' <=> Fits
    BY <2>1, <2>2 DEF Fits
  <2>5. Accepted'
    BY <2>1, <2>3, <2>4 DEF Accepted
  <2>6. Refused'
    BY <2>1, <2>2, <2>3 DEF Refused
  <2> QED BY <2>5, <2>6
<1> QED BY <1>1, <1>2, StepKinds

LEMMA AcceptedAlways ==
  Spec => [](Typed /\ Accepted /\ Refused)
<1>1. Init => Typed /\ Accepted /\ Refused
  BY TypedInit, AcceptedInit
<1>2. Typed /\ Accepted /\ Refused /\ [Next]_vars => (Typed /\ Accepted /\ Refused)'
  BY TypedStep, AcceptedStep
<1> QED BY <1>1, <1>2, PTL DEF Spec

\* The analysis refuses every program that breaks a rule of the language: what
\* semantic.c accepts, however long the program, is legal by its nodes alone.
THEOREM OnlyLegalIsAccepted ==
  Spec => []AcceptedIsLegal
<1>1. Accepted => AcceptedIsLegal
  BY DEF Accepted, AcceptedIsLegal
<1> QED BY <1>1, AcceptedAlways, PTL

\* The analysis refuses no legal program but one with an array argument after
\* an expression: the only false error validate_function_call can report.
THEOREM EveryLegalIsAccepted ==
  Spec => []LegalIsAccepted
<1>1. Refused => LegalIsAccepted
  BY DEF Refused, LegalIsAccepted
<1> QED BY <1>1, AcceptedAlways, PTL

-----------------------------------------------------------------------------
(* Scopes: a function is traversed once, from its node to its end.         *)

\* Since node m, up to node n, the traversal is in the function s.
Entered(m, n, s) ==
  /\ IsFunction(m) /\ program[m].name = s
  /\ \A k \in (m + 1)..n : ~ IsFunction(k) /\ program[k].scope = s

Nested(n, s) == s # Global => \E m \in 1..n : Entered(m, n, s)

ScopesNest ==
  /\ Nested(Len(program), scope)
  /\ \A i \in 1..Len(program) : /\ Nested(i - 1, program[i].scope)
                                /\ IsUse(i) => program[i].scope # Global

LEMMA ScopesInit ==
  Init => ScopesNest
<1>1. SUFFICES ASSUME Init PROVE ScopesNest
  OBVIOUS
<1>2. program = <<>> /\ scope = Global
  BY <1>1 DEF Init
<1>3. 1..Len(program) = {}
  BY <1>2
<1> QED BY <1>2, <1>3 DEF ScopesNest, Nested

LEMMA ScopesStep ==
  ASSUME Typed, ScopesNest, [Next]_vars
  PROVE  ScopesNest'
<1>1. ASSUME NEW node \in Nodes, Traverses(node) PROVE ScopesNest'
  <2>1. PICK i : i = Len(program) + 1
    OBVIOUS
  <2>2. /\ program' = Append(program, node) /\ node.scope = scope
        /\ AddsFunction(node) \/ AddsVariable(node) \/ AddsUse(node)
    BY <1>1 DEF Traverses
  <2>3. /\ i \in Nat \ {0} /\ Len(program') = i /\ Len(program) = i - 1 /\ program'[i] = node
        /\ \A j \in 1..(i - 1) : program'[j] = program[j]
    <3>1. Len(program) \in Nat
      BY DEF Typed
    <3> QED BY <2>1, <2>2, <3>1, NewNode
  <2>4. \A j \in 1..(i - 1) : (IsFunction(j)' <=> IsFunction(j)) /\ (IsUse(j)' <=> IsUse(j))
    BY <2>3 DEF IsFunction, IsUse, IsVariable
  <2>5. ASSUME NEW n \in 0..(i - 1), NEW s, Nested(n, s) PROVE Nested(n, s)'
    <3>1. CASE s = Global
      BY <3>1 DEF Nested
    <3>2. CASE s # Global
      <4>1. PICK m \in 1..n : Entered(m, n, s)
        BY <2>5, <3>2 DEF Nested
      <4>2. m \in 1..(i - 1) /\ \A k \in (m + 1)..n : k \in 1..(i - 1)
        BY <2>3
      <4>3. Entered(m, n, s)'
        BY <2>3, <2>4, <4>1, <4>2 DEF Entered
      <4> QED BY <4>3 DEF Nested
    <3> QED BY <3>1, <3>2
  <2>6. \A j \in 1..(i - 1) : j - 1 \in 0..(i - 1)
    BY <2>3
  <2>7. i - 1 \in 0..(i - 1) /\ \A j \in 1..i : j = i \/ j \in 1..(i - 1)
    BY <2>3
  <2>8. ASSUME NEW j \in 1..i
        PROVE  /\ Nested(j - 1, program[j].scope)'
               /\ IsUse(j)' => program'[j].scope # Global
    <3>1. CASE j = i
      <4>1. Nested(i - 1, scope)
        BY <2>3 DEF ScopesNest
      <4>2. PICK s : s = scope
        OBVIOUS
      <4>3. Nested(i - 1, s)'
        BY <2>5, <2>7, <4>1, <4>2
      <4>4. program'[i].scope = s
        BY <2>2, <2>3, <4>2
      <4>5. IsUse(i)' => s # Global
        BY <2>2, <2>3, <4>2 DEF IsUse, IsFunction, IsVariable, AddsFunction, AddsVariable, AddsUse
      <4> QED BY <3>1, <4>3, <4>4, <4>5
    <3>2. CASE j # i
      <4>1. j \in 1..(i - 1)
        BY <2>7, <3>2
      <4>2. PICK s : s = program[j].scope
        OBVIOUS
      <4>3. Nested(j - 1, s)
        BY <2>3, <4>1, <4>2 DEF ScopesNest
      <4>4. Nested(j - 1, s)'
        BY <2>5, <2>6, <4>1, <4>3
      <4>5. program'[j].scope = s
        BY <2>3, <4>1, <4>2
      <4>6. IsUse(j)' => s # Global
        BY <2>3, <2>4, <4>1, <4>2 DEF ScopesNest
      <4> QED BY <4>4, <4>5, <4>6
    <3> QED BY <3>1, <3>2
  <2>9. Nested(Len(program), scope)'
    <3>1. CASE AddsFunction(node)
      <4>1. scope' = node.name /\ node.op = "FUNC"
        BY <3>1 DEF AddsFunction
      <4>2. (i + 1)..i = {} /\ i \in 1..i
        BY <2>3
      <4>3. Entered(i, i, node.name)'
        BY <2>3, <4>1, <4>2 DEF Entered, IsFunction
      <4>4. Nested(i, node.name)'
        BY <4>2, <4>3 DEF Nested
      <4> QED BY <2>3, <4>1, <4>4
    <3>2. CASE AddsVariable(node) \/ AddsUse(node)
      <4>1. PICK s : s = scope
        OBVIOUS
      <4>2. scope' = s /\ node.op # "FUNC"
        BY <3>2, <4>1 DEF AddsVariable, AddsUse, VariableTypes, Scalars, Arrays
      <4>3. CASE s = Global
        BY <4>2, <4>3 DEF Nested
      <4>4. CASE s # Global
        <5>1. Nested(i - 1, s)'
          <6>1. Nested(i - 1, s)
            BY <2>3, <4>1 DEF ScopesNest
          <6> QED BY <2>5, <2>7, <6>1
        <5>2. PICK m \in 1..(i - 1) : Entered(m, i - 1, s)'
          BY <4>4, <5>1 DEF Nested
        <5>3. \A k \in (m + 1)..i : k = i \/ k \in (m + 1)..(i - 1)
          BY <2>3
        <5>4. ~ IsFunction(i)' /\ program'[i].scope = s
          BY <2>2, <2>3, <4>1, <4>2 DEF IsFunction
        <5>5. Entered(m, i, s)' /\ m \in 1..i
          BY <2>3, <5>2, <5>3, <5>4 DEF Entered
        <5>6. Nested(i, s)'
          BY <5>5 DEF Nested
        <5> QED BY <2>3, <4>2, <5>6
      <4> QED BY <4>3, <4>4
    <3> QED BY <2>2, <3>1, <3>2
  <2> QED BY <2>3, <2>8, <2>9 DEF ScopesNest
<1>2. ASSUME EndFunction \/ FinishAnalysis \/ Generates \/ UNCHANGED vars PROVE ScopesNest'
  <2>1. program' = program
    BY <1>2, OtherSteps
  <2>2. scope' = scope \/ scope' = Global
    BY <1>2 DEF EndFunction, FinishAnalysis, Generates, GenerateFunction, GenerateAlloc,
                GenerateCall, GenerateOther, Generate, vars
  <2>3. \A i : (IsFunction(i)' <=> IsFunction(i)) /\ (IsUse(i)' <=> IsUse(i))
    BY <2>1 DEF IsFunction, IsUse, IsVariable
  <2>4. \A m, n, s : Entered(m, n, s)' <=> Entered(m, n, s)
    BY <2>1, <2>3 DEF Entered
  <2>5. \A n, s : Nested(n, s)' <=> Nested(n, s)
    BY <2>4 DEF Nested
  <2>6. Nested(Len(program), scope)'
    <3>1. PICK n, s : n = Len(program) /\ s = scope'
      OBVIOUS
    <3>2. Nested(n, s)
      BY <2>2, <3>1 DEF ScopesNest, Nested
    <3>3. Nested(n, s)'
      BY <2>5, <3>2
    <3>4. n = Len(program')
      BY <2>1, <3>1
    <3> QED BY <3>1, <3>3, <3>4
  <2>7. ASSUME NEW i \in 1..Len(program)
        PROVE  Nested(i - 1, program[i].scope)' /\ (IsUse(i)' => program'[i].scope # Global)
    <3>1. PICK s : s = program[i].scope
      OBVIOUS
    <3>2. Nested(i - 1, s)
      BY <3>1 DEF ScopesNest
    <3>3. Nested(i - 1, s)' /\ program'[i].scope = s
      BY <2>1, <2>5, <3>1, <3>2
    <3> QED BY <2>3, <3>1, <3>3 DEF ScopesNest
  <2> QED BY <2>1, <2>6, <2>7 DEF ScopesNest
<1> QED BY <1>1, <1>2, StepKinds

\* The variables of a name in the scope of a node, among the n nodes before it.
InScopeOf(n, s, name) ==
  {j \in 1..n : IsVariable(j) /\ program[j].name = name /\ program[j].scope \in {s, Global}}

LEMMA LegalNodes ==
  ASSUME Typed, LegalProgram, NEW i \in 1..Len(program)
  PROVE  /\ IsFunction(i) => LegalFunction(i)
         /\ IsVariable(i) => LegalVariable(i)
         /\ program[i].op = "CALL" => LegalCall(i)
         /\ program[i].op \in {"IDENTIFIER", "ELEMENT"} => LegalOperand(i, program[i])
         /\ program[i].op = "ASSIGN" => /\ FunctionTypes(i, program[i].name) = {"INT"}
                                        /\ LegalOperand(i, program[i].args[1])
<1>1. Legal(i)
  BY DEF LegalProgram, Typed
<1> QED BY <1>1, Kinds DEF Legal, IsFunction, IsVariable, VariableTypes, Scalars, Arrays

\* At most one variable of a name is visible.
LEMMA OneVisible ==
  ASSUME Typed, LegalProgram, ScopesNest, NEW n \in 0..Len(program), NEW s, Nested(n, s),
         NEW name, NEW j \in InScopeOf(n, s, name), NEW k \in InScopeOf(n, s, name)
  PROVE  j = k
<1>1. Len(program) \in Nat
  BY DEF Typed
<1>2. SUFFICES ASSUME NEW a \in InScopeOf(n, s, name), NEW b \in InScopeOf(n, s, name), a < b
               PROVE  FALSE
  <2>1. j \in 1..n /\ k \in 1..n
    BY DEF InScopeOf
  <2>2. j < k \/ k < j \/ j = k
    BY <2>1
  <2> QED BY <2>2
<1>3. /\ a \in 1..n /\ IsVariable(a) /\ program[a].name = name /\ program[a].scope \in {s, Global}
      /\ b \in 1..n /\ IsVariable(b) /\ program[b].name = name /\ program[b].scope \in {s, Global}
  BY DEF InScopeOf
<1>4. a \in 1..Len(program) /\ b \in 1..Len(program) /\ a \in 1..(b - 1)
  BY <1>1, <1>2, <1>3
<1>5. program[a].scope \notin {program[b].scope, Global}
  <2>1. LegalVariable(b)
    BY <1>3, <1>4, LegalNodes
  <2>2. a \notin Visible(b, name, VariableTypes)
    BY <1>3, <2>1 DEF LegalVariable
  <2> QED BY <1>3, <1>4, <2>2 DEF Visible, IsVariable
<1>6. s # Global /\ program[a].scope = s /\ program[b].scope = Global
  BY <1>3, <1>5
<1>7. PICK m \in 1..n : Entered(m, n, s)
  BY <1>6 DEF Nested
<1>8. b < m
  <2>1. b # m
    BY <1>3, <1>7, Kinds DEF Entered
  <2>2. b \notin (m + 1)..n
    BY <1>6, <1>7 DEF Entered
  <2> QED BY <1>1, <1>3, <2>1, <2>2
<1>9. PICK l \in 1..(a - 1) : Entered(l, a - 1, s)
  BY <1>4, <1>6 DEF ScopesNest, Nested
<1>10. l \in 1..(m - 1) /\ m \in 1..Len(program)
  BY <1>1, <1>3, <1>4, <1>8
<1>11. LegalFunction(m)
  BY <1>7, <1>10, LegalNodes DEF Entered
<1>12. ~ IsUse(l) /\ program[l].name = program[m].name
  BY <1>7, <1>9, Kinds DEF Entered
<1> QED BY <1>10, <1>11, <1>12 DEF LegalFunction

-----------------------------------------------------------------------------
(* The lines of an item.                                                   *)

DeclaredBefore(i, name) == FunctionTypes(i, name) # {} \/ Visible(i, name, VariableTypes) # {}

\* The names a legal node refers to are declared.
LEMMA UsesDeclared ==
  ASSUME Typed, LegalProgram, NEW i \in 1..Len(program), IsUse(i), NEW name \in UseNames(program[i])
  PROVE  DeclaredBefore(i, name)
<1>1. PICK node \in Nodes : node = program[i]
  BY DEF Typed
<1>2. node.args \in Seq(Arguments)
  BY DEF Nodes
<1>3. \A types \in SUBSET VariableTypes : Visible(i, name, types) # {} => DeclaredBefore(i, name)
  <2>1. \A types \in SUBSET VariableTypes : Visible(i, name, types) \subseteq Visible(i, name, VariableTypes)
    BY DEF Visible
  <2> QED BY <2>1 DEF DeclaredBefore
<1>4. Scalars \in SUBSET VariableTypes /\ Arrays \in SUBSET VariableTypes
  BY DEF VariableTypes
<1>5. \A a : LegalOperand(i, a) /\ a.name = name => DeclaredBefore(i, name)
  BY <1>3, <1>4 DEF LegalOperand, DeclaredBefore
<1>6. \A a : LegalArgument(i, a) /\ a.name = name => DeclaredBefore(i, name)
  BY <1>3, <1>4, <1>5 DEF LegalArgument
<1>7. node.op \in {"IDENTIFIER", "ELEMENT", "CALL", "ASSIGN"}
  BY <1>1, Kinds DEF Nodes, NodeOps, DeclTypes, IsUse, IsFunction, IsVariable
<1>8. name = node.name \/ \E k \in DOMAIN node.args : name = node.args[k].name
  BY <1>1 DEF UseNames, NamesIn
<1>9. CASE node.op \in {"IDENTIFIER", "ELEMENT"}
  <2>1. LegalOperand(i, node)
    BY <1>1, <1>9, LegalNodes
  <2>2. CASE name = node.name
    BY <1>5, <2>1, <2>2
  <2>3. ASSUME NEW k \in DOMAIN node.args PROVE FALSE
    BY <1>1, <1>9 DEF Typed
  <2> QED BY <1>8, <2>2, <2>3
<1>10. CASE node.op = "CALL"
  <2>1. LegalCall(i)
    BY <1>1, <1>10, LegalNodes
  <2>2. FunctionTypes(i, node.name) # {} /\ \A k \in DOMAIN node.args : LegalArgument(i, node.args[k])
    BY <1>1, <2>1 DEF LegalCall
  <2> QED BY <1>6, <1>8, <2>2 DEF DeclaredBefore
<1>11. CASE node.op = "ASSIGN"
  <2>1. FunctionTypes(i, node.name) = {"INT"} /\ LegalOperand(i, node.args[1])
    BY <1>1, <1>11, LegalNodes
  <2>2. node.args = <<[op |-> "IDENTIFIER", name |-> node.args[1].name]>>
    BY <1>1, <1>11 DEF Typed
  <2>3. DOMAIN node.args = {1}
    BY <2>2
  <2> QED BY <1>5, <1>8, <2>1, <2>3 DEF DeclaredBefore
<1> QED BY <1>7, <1>9, <1>10, <1>11

\* A variable item that a node may refer to is that of a visible declaration.
LEMMA ItemSeen ==
  ASSUME Typed, NEW name \in Names, NEW chain, chain = hash_table[name], NEW d, Stands(d, chain, name),
         NEW k \in Places(chain)
  PROVE  /\ Refers(chain[k]) <=>
              \/ chain[k].id_type = "FUNC"
              \/ \E j \in VisibleNow(name, VariableTypes) : program[j].scope = chain[k].scope
         /\ Refers(chain[k]) /\ chain[k].id_type # "FUNC" =>
              d[k] \in InScopeOf(Len(program), scope, name) /\ program[d[k]].scope = chain[k].scope
<1>1. Len(program) \in Nat /\ d[k] \in 0..Len(program)
  BY DEF Typed, Stands
<1>2. ASSUME Refers(chain[k]), chain[k].id_type # "FUNC"
      PROVE  /\ d[k] \in InScopeOf(Len(program), scope, name) /\ d[k] \in VisibleNow(name, VariableTypes)
             /\ program[d[k]].scope = chain[k].scope
  <2>1. d[k] # 0
    BY <1>2 DEF Stands, BuiltinItem
  <2>2. DeclaredItem(d[k], name, chain[k]) /\ d[k] \in 1..Len(program)
    BY <1>1, <2>1 DEF Stands
  <2>3. ~ IsFunction(d[k])
    BY <1>2, <2>2 DEF DeclaredItem, IsFunction
  <2>4. IsVariable(d[k]) /\ program[d[k]].scope = chain[k].scope /\ program[d[k]].name = name
    BY <2>2, <2>3 DEF DeclaredItem, IsUse
  <2>5. chain[k].scope \in {scope, Global}
    BY <1>2 DEF Refers, InScope
  <2> QED BY <2>2, <2>4, <2>5 DEF InScopeOf, VisibleNow, IsVariable
<1>3. ASSUME NEW j \in VisibleNow(name, VariableTypes), program[j].scope = chain[k].scope
      PROVE  Refers(chain[k])
  BY <1>3 DEF VisibleNow, Refers, InScope
<1>4. chain[k].id_type = "FUNC" => Refers(chain[k])
  BY DEF Refers
<1> QED BY <1>2, <1>3, <1>4

LEMMA OneReferred ==
  ASSUME Typed, Fits, LegalProgram, ScopesNest, NEW name \in Names,
         NEW chain, chain = hash_table[name],
         NEW k \in Places(chain), NEW l \in Places(chain), Refers(chain[k]), Refers(chain[l])
  PROVE  k = l
<1>1. PICK d : Stands(d, chain, name)
  BY DEF Fits
<1>2. CASE chain[k].id_type = "FUNC"
  <2>1. k \in FunctionPlaces(chain)
    BY <1>2 DEF FunctionPlaces
  <2>2. Places(chain) = {k}
    BY <1>1, <2>1, LegalAlone
  <2> QED BY <2>2
<1>3. CASE chain[l].id_type = "FUNC"
  <2>1. l \in FunctionPlaces(chain)
    BY <1>3 DEF FunctionPlaces
  <2>2. Places(chain) = {l}
    BY <1>1, <2>1, LegalAlone
  <2> QED BY <2>2
<1>4. CASE chain[k].id_type # "FUNC" /\ chain[l].id_type # "FUNC"
  <2>1. d[k] \in InScopeOf(Len(program), scope, name)
    BY <1>1, <1>4, ItemSeen
  <2>2. d[l] \in InScopeOf(Len(program), scope, name)
    BY <1>1, <1>4, ItemSeen
  <2>3. Len(program) \in 0..Len(program) /\ Nested(Len(program), scope)
    BY DEF Typed, ScopesNest
  <2>4. PICK n, s : n = Len(program) /\ s = scope
    OBVIOUS
  <2>5. d[k] = d[l]
    BY <2>1, <2>2, <2>3, <2>4, OneVisible
  <2>6. Len(chain) \in Nat
    BY DEF Typed, Chain
  <2>7. k < l \/ l < k \/ k = l
    BY <2>6 DEF Places
  <2>8. d[k] \in Nat
    BY <1>1 DEF Stands, Typed
  <2> QED BY <1>1, <2>5, <2>7, <2>8 DEF Stands
<1> QED BY <1>2, <1>3, <1>4

\* An item lists node i exactly when the node refers to it.
Listed(i, name, item) ==
  Contains(item.lines, i) <=>
    /\ name \in UseNames(program[i])
    /\ \/ item.id_type = "FUNC"
       \/ \E j \in Visible(i, name, VariableTypes) : program[j].scope = item.scope

ItemLines(name, item) ==
  /\ \A l : Contains(item.lines, l) => l \in 0..Len(program)
  /\ \A i \in 1..Len(program) : IsUse(i) => Listed(i, name, item)

LinesFit ==
  semantic_errors = 0 =>
    \A name \in Names : \A k \in Places(hash_table[name]) : ItemLines(name, hash_table[name][k])

\* A use leaves the lines of the nodes before it, and adds its own where it refers.
LEMMA LinesOfUse ==
  ASSUME Typed, Fits, LegalProgram, ScopesNest, semantic_errors = 0, semantic_errors' = 0,
         NEW node \in Nodes, Traverses(node), AddsUse(node), NEW name \in Names,
         NEW k \in Places(hash_table[name]), ItemLines(name, hash_table[name][k]),
         NEW new, new = hash_table'[name][k]
  PROVE  ItemLines(name, new)'
<1>1. PICK i : i = Len(program) + 1
  OBVIOUS
<1>2. PICK chain \in Chain : chain = hash_table[name]
  BY DEF Typed
<1>3. PICK after \in Chain : after = hash_table'[name]
  BY DEF Traverses
<1>4. PICK old : old = chain[k]
  OBVIOUS
<1>5. k \in Places(chain) /\ new = after[k] /\ ItemLines(name, old)
  BY <1>2, <1>3, <1>4
<1>6. PICK d : Stands(d, chain, name)
  BY <1>2 DEF Fits
<1>7. /\ program' = Append(program, node) /\ node.scope = scope /\ Len(program) \in Nat
  BY DEF Traverses, Typed
<1>8. /\ Len(program') = i /\ i \in Nat \ {0} /\ Len(program) = i - 1 /\ program'[i] = node
      /\ \A j \in 1..(i - 1) : program'[j] = program[j]
      /\ \A types : Visible(i, name, types)' = VisibleNow(name, types)
      /\ \A j \in 1..(i - 1) : \A types : Visible(j, name, types)' = Visible(j, name, types)
  BY <1>1, <1>7, NewNode
<1>9. Line = i
  BY <1>1 DEF Line
<1>10. Gains(old, new)
  BY <1>2, <1>3, <1>4, <1>5 DEF AddsUse, Grown
<1>11. /\ old.id_type = new.id_type /\ old.scope = new.scope
       /\ \A l : l # i => (Contains(new.lines, l) <=> Contains(old.lines, l))
  BY <1>9, <1>10 DEF Gains
<1>12. ~ Contains(old.lines, i)
  BY <1>5, <1>8 DEF ItemLines
<1>13. Contains(new.lines, i) <=> name \in UseNames(node) /\ Refers(old)
  <2>1. Contains(new.lines, i) => name \in UseNames(node) /\ Refers(old)
    BY <1>2, <1>3, <1>4, <1>5, <1>9, <1>12 DEF AddsUse, Grown
  <2>2. ASSUME name \in UseNames(node), Refers(old) PROVE Contains(new.lines, i)
    <3>1. Right(node)
      BY DEF AddsUse
    <3>2. Marked(hash_table', name)
      BY <2>2, <3>1 DEF AddsUse
    <3>3. scope' = scope
      BY DEF AddsUse
    <3>4. PICK m \in Places(after) : Refers(after[m]) /\ Contains(after[m].lines, i)
      BY <1>3, <1>9, <3>2 DEF Marked
    <3>5. m \in Places(chain) /\ Gains(chain[m], after[m])
      BY <1>2, <1>3 DEF AddsUse, Grown, Places
    <3>6. Refers(chain[m])
      BY <3>4, <3>5 DEF Refers, InScope, Gains
    <3>7. m = k
      BY <1>2, <1>4, <1>5, <2>2, <3>5, <3>6, OneReferred
    <3> QED BY <1>5, <3>4, <3>7
  <2> QED BY <2>1, <2>2
<1>14. \A l : Contains(new.lines, l) => l \in 0..Len(program')
  <2>1. i \in 0..i /\ \A l \in 0..(i - 1) : l \in 0..i
    BY <1>8
  <2>2. \A l : Contains(old.lines, l) => l \in 0..(i - 1)
    BY <1>5, <1>8 DEF ItemLines
  <2> QED BY <1>8, <1>11, <2>1, <2>2
<1>15. Listed(i, name, new)'
  <2>1. Refers(old) <=> \/ new.id_type = "FUNC"
                        \/ \E j \in VisibleNow(name, VariableTypes) : program[j].scope = new.scope
    <3>1. Refers(chain[k]) <=>
            \/ chain[k].id_type = "FUNC"
            \/ \E j \in VisibleNow(name, VariableTypes) : program[j].scope = chain[k].scope
      BY <1>2, <1>5, <1>6, ItemSeen
    <3> QED BY <1>4, <1>11, <3>1
  <2>2. VisibleNow(name, VariableTypes) \subseteq 1..(i - 1)
    BY <1>8 DEF VisibleNow
  <2>3. (\E j \in Visible(i, name, VariableTypes)' : program'[j].scope = new.scope)
          <=> \E j \in VisibleNow(name, VariableTypes) : program[j].scope = new.scope
    BY <1>8, <2>2
  <2>4. UseNames(program[i])' = UseNames(node)
    BY <1>8 DEF UseNames, NamesIn
  <2> QED BY <1>13, <2>1, <2>3, <2>4 DEF Listed
<1>16. ASSUME NEW j \in 1..(i - 1), IsUse(j)' PROVE Listed(j, name, new)'
  <2>1. IsUse(j) /\ program'[j] = program[j] /\ j # i
    BY <1>8, <1>16 DEF IsUse, IsVariable, IsFunction
  <2>2. Listed(j, name, old)
    BY <1>5, <1>8, <2>1 DEF ItemLines
  <2>3. Visible(j, name, VariableTypes) \subseteq 1..(i - 1)
    BY <1>8 DEF Visible
  <2>4. (\E l \in Visible(j, name, VariableTypes)' : program'[l].scope = new.scope)
          <=> \E l \in Visible(j, name, VariableTypes) : program[l].scope = old.scope
    BY <1>8, <1>11, <2>3
  <2>5. UseNames(program[j])' = UseNames(program[j])
    BY <2>1 DEF UseNames, NamesIn
  <2>6. Contains(new.lines, j) <=> Contains(old.lines, j)
    BY <1>11, <2>1
  <2> QED BY <1>11, <2>2, <2>4, <2>5, <2>6 DEF Listed
<1>17. \A j \in 1..i : j = i \/ j \in 1..(i - 1)
  BY <1>8
<1> QED BY <1>8, <1>14, <1>15, <1>16, <1>17 DEF ItemLines

\* A declaration is no use, and leaves the items there are.
LEMMA LinesKept ==
  ASSUME Typed, NEW node \in Nodes, program' = Append(program, node), node.scope = scope,
         NEW i, i = Len(program) + 1, ~ IsUse(i)', NEW name, NEW item, ItemLines(name, item)
  PROVE  ItemLines(name, item)'
<1>1. /\ Len(program') = i /\ i \in Nat \ {0} /\ Len(program) = i - 1
      /\ \A j \in 1..(i - 1) : program'[j] = program[j]
      /\ \A j \in 1..(i - 1) : \A types : Visible(j, name, types)' = Visible(j, name, types)
  <2>1. Len(program) \in Nat
    BY DEF Typed
  <2> QED BY <2>1, NewNode
<1>2. \A l : Contains(item.lines, l) => l \in 0..Len(program')
  <2>1. \A l \in 0..(i - 1) : l \in 0..i
    BY <1>1
  <2> QED BY <1>1, <2>1 DEF ItemLines
<1>3. ASSUME NEW j \in 1..(i - 1), IsUse(j)' PROVE Listed(j, name, item)'
  <2>1. IsUse(j) /\ program'[j] = program[j]
    BY <1>1, <1>3 DEF IsUse, IsVariable, IsFunction
  <2>2. Listed(j, name, item)
    BY <1>1, <2>1 DEF ItemLines
  <2>3. Visible(j, name, VariableTypes) \subseteq 1..(i - 1)
    BY <1>1 DEF Visible
  <2>4. (\E l \in Visible(j, name, VariableTypes)' : program'[l].scope = item.scope)
          <=> \E l \in Visible(j, name, VariableTypes) : program[l].scope = item.scope
    BY <1>1, <2>3
  <2>5. UseNames(program[j])' = UseNames(program[j])
    BY <2>1 DEF UseNames, NamesIn
  <2> QED BY <2>2, <2>4, <2>5 DEF Listed
<1>4. \A j \in 1..i : j = i \/ j \in 1..(i - 1)
  BY <1>1
<1> QED BY <1>1, <1>2, <1>3, <1>4 DEF ItemLines

\* No node before a declaration refers to what it declares.
LEMMA LinesOfNew ==
  ASSUME Typed, NEW node \in Nodes, program' = Append(program, node), node.scope = scope,
         NEW i, i = Len(program) + 1, ~ IsUse(i)', NEW name, NEW item, NEW line \in 0..i,
         item.lines = <<line>>, line \in 1..Len(program) => ~ IsUse(line),
         \A j \in 1..Len(program) : IsUse(j) =>
           ~ /\ name \in UseNames(program[j])
             /\ \/ item.id_type = "FUNC"
                \/ \E l \in Visible(j, name, VariableTypes) : program[l].scope = item.scope
  PROVE  ItemLines(name, item)'
<1>1. /\ Len(program') = i /\ i \in Nat \ {0} /\ Len(program) = i - 1
      /\ \A j \in 1..(i - 1) : program'[j] = program[j]
      /\ \A j \in 1..(i - 1) : \A types : Visible(j, name, types)' = Visible(j, name, types)
  <2>1. Len(program) \in Nat
    BY DEF Typed
  <2> QED BY <2>1, NewNode
<1>2. \A l : Contains(item.lines, l) <=> l = line
  BY DEF Contains
<1>3. ASSUME NEW j \in 1..(i - 1), IsUse(j)' PROVE Listed(j, name, item)'
  <2>1. IsUse(j) /\ program'[j] = program[j]
    BY <1>1, <1>3 DEF IsUse, IsVariable, IsFunction
  <2>2. ~ Contains(item.lines, j)
    BY <1>1, <1>2, <2>1
  <2>3. Visible(j, name, VariableTypes) \subseteq 1..(i - 1)
    BY <1>1 DEF Visible
  <2>4. (\E l \in Visible(j, name, VariableTypes)' : program'[l].scope = item.scope)
          <=> \E l \in Visible(j, name, VariableTypes) : program[l].scope = item.scope
    BY <1>1, <2>3
  <2>5. UseNames(program[j])' = UseNames(program[j])
    BY <2>1 DEF UseNames, NamesIn
  <2> QED BY <1>1, <2>1, <2>2, <2>4, <2>5 DEF Listed
<1>4. \A j \in 1..i : j = i \/ j \in 1..(i - 1)
  BY <1>1
<1> QED BY <1>1, <1>2, <1>3, <1>4 DEF ItemLines

LEMMA LinesOfDeclaration ==
  ASSUME Typed, Fits, LegalProgram, semantic_errors = 0, semantic_errors' = 0,
         NEW node \in Nodes, Traverses(node), AddsFunction(node) \/ AddsVariable(node),
         NEW name \in Names, \A k \in Places(hash_table[name]) : ItemLines(name, hash_table[name][k]),
         NEW k \in Places(hash_table'[name]), NEW new, new = hash_table'[name][k]
  PROVE  ItemLines(name, new)'
<1>1. PICK i : i = Len(program) + 1
  OBVIOUS
<1>2. PICK chain \in Chain : chain = hash_table[name]
  BY DEF Typed
<1>3. PICK after \in Chain : after = hash_table'[name]
  BY DEF Traverses
<1>4. k \in Places(after) /\ new = after[k] /\ \A l \in Places(chain) : ItemLines(name, chain[l])
  BY <1>2, <1>3
<1>5. /\ program' = Append(program, node) /\ node.scope = scope /\ Len(program) \in Nat
      /\ program \in Seq(Nodes) /\ DOMAIN program = 1..Len(program)
  BY DEF Traverses, Typed
<1>6. program'[i] = node /\ i \in Nat /\ Len(program) = i - 1
  BY <1>1, <1>5, NewNode
<1>7. ~ IsUse(i)'
  BY <1>6 DEF AddsFunction, AddsVariable, IsUse, IsFunction, IsVariable
<1>8. ASSUME NEW item, NEW line \in 0..Line, item.lines = <<line>>,
             Inserted(hash_table, hash_table', node.name, item),
             line \in 1..Len(program) => ~ IsUse(line),
             \A j \in 1..Len(program) : IsUse(j) =>
               ~ /\ node.name \in UseNames(program[j])
                 /\ \/ item.id_type = "FUNC"
                    \/ \E l \in Visible(j, node.name, VariableTypes) : program[l].scope = item.scope
      PROVE  ItemLines(name, new)'
  <2>1. hash_table \in [Names -> Chain] /\ Len(chain) \in Nat
    BY DEF Typed, Chain
  <2>2. CASE node.name # name
    <3>1. after = chain
      BY <1>2, <1>3, <1>8, <2>1, <2>2 DEF Inserted
    <3>2. ItemLines(name, new)
      BY <1>4, <3>1
    <3> QED BY <1>1, <1>5, <1>7, <3>2, LinesKept
  <2>3. CASE node.name = name
    <3>1. after = Append(chain, item)
      BY <1>2, <1>3, <1>8, <2>1, <2>3 DEF Inserted
    <3>2. Len(after) = Len(chain) + 1 /\ after[Len(chain) + 1] = item
          /\ \A l \in 1..Len(chain) : after[l] = chain[l]
      BY <3>1 DEF Chain
    <3>3. k = Len(chain) + 1 \/ k \in 1..Len(chain)
      BY <1>4, <2>1, <3>2 DEF Places
    <3>4. CASE k \in 1..Len(chain)
      <4>1. ItemLines(name, new)
        BY <1>4, <3>2, <3>4 DEF Places
      <4> QED BY <1>1, <1>5, <1>7, <4>1, LinesKept
    <3>5. CASE k = Len(chain) + 1
      <4>1. new = item
        BY <1>4, <3>2, <3>5
      <4>2. line \in 0..i
        BY <1>1 DEF Line
      <4>3. ItemLines(name, item)'
        BY <1>1, <1>5, <1>7, <1>8, <2>3, <4>2, LinesOfNew
      <4> QED BY <4>1, <4>3
    <3> QED BY <3>3, <3>4, <3>5
  <2> QED BY <2>2, <2>3
<1>9. node.name \in Names
  BY DEF Nodes
<1>10. CASE AddsFunction(node)
  <2>1. hash_table[node.name] = <<>>
    <3>1. hash_table[node.name] # <<>> => semantic_errors' > semantic_errors
      BY <1>10 DEF AddsFunction
    <3> QED BY <3>1
  <2>2. PICK item : item = create_new_item("FUNC", node.type, node.name, Line)
    OBVIOUS
  <2>3. Inserted(hash_table, hash_table', node.name, item)
    BY <1>10, <2>1, <2>2 DEF AddsFunction
  <2>4. item.lines = <<Line>> /\ Line \in 0..Line /\ Line \notin 1..Len(program)
    BY <1>5, <2>2 DEF create_new_item, Line
  <2>5. ASSUME NEW j \in 1..Len(program), IsUse(j) PROVE node.name \notin UseNames(program[j])
    <3>1. SUFFICES ~ DeclaredBefore(j, node.name)
      BY <2>5, UsesDeclared
    <3>2. /\ node.name \notin DOMAIN Builtin
          /\ \A l \in 1..Len(program) : ~ IsUse(l) => program[l].name # node.name
      BY <1>9, <2>1, TableReads
    <3>3. \A l \in 1..(j - 1) : l \in 1..Len(program)
      BY <1>5
    <3>4. FunctionTypes(j, node.name) = {}
      BY <3>2, <3>3, Kinds DEF FunctionTypes
    <3>5. Visible(j, node.name, VariableTypes) = {}
      BY <3>2, <3>3, Kinds DEF Visible, IsVariable
    <3> QED BY <3>4, <3>5 DEF DeclaredBefore
  <2> QED BY <1>8, <2>3, <2>4, <2>5
<1>11. CASE AddsVariable(node)
  <2>1. PICK line \in 0..Line :
          /\ line \in DOMAIN program => program[line].op = "FUNC"
          /\ Free(node) => Inserted(hash_table, hash_table', node.name, create_new_item(node.op, "INT", scope, line))
          /\ ~ Free(node) => semantic_errors' > semantic_errors
    BY <1>11 DEF AddsVariable
  <2>2. Free(node)
    BY <2>1
  <2>3. PICK item : item = create_new_item(node.op, "INT", scope, line)
    OBVIOUS
  <2>4. Inserted(hash_table, hash_table', node.name, item)
    BY <2>1, <2>2, <2>3
  <2>5. item.lines = <<line>> /\ item.id_type = node.op /\ item.scope = scope
    BY <2>3 DEF create_new_item
  <2>6. item.id_type # "FUNC"
    BY <1>11, <2>5 DEF AddsVariable, VariableTypes, Scalars, Arrays
  <2>7. line \in 1..Len(program) => ~ IsUse(line)
    BY <1>5, <2>1, Kinds DEF IsFunction
  <2>8. VisibleNow(node.name, VariableTypes) = {}
    BY <1>9, <2>2, TableReads DEF Free, FreeIn
  <2>9. ASSUME NEW j \in 1..Len(program), NEW l \in Visible(j, node.name, VariableTypes)
        PROVE  program[l].scope # item.scope
    <3>1. l \in 1..Len(program) /\ program[l].op \in VariableTypes /\ program[l].name = node.name
      BY <1>5 DEF Visible
    <3> QED BY <2>5, <2>8, <3>1 DEF VisibleNow
  <2> QED BY <1>8, <2>4, <2>5, <2>6, <2>7, <2>9
<1> QED BY <1>10, <1>11

LEMMA LinesInit ==
  Init => LinesFit
<1>1. SUFFICES ASSUME Init, NEW name \in Names, NEW k \in Places(hash_table[name])
               PROVE  ItemLines(name, hash_table[name][k])
  BY DEF LinesFit
<1>2. program = <<>> /\ hash_table = BuiltinTable
  BY <1>1 DEF Init
<1>3. Len(program) = 0 /\ 1..Len(program) = {} /\ 0 \in 0..Len(program)
  BY <1>2
<1>4. PICK item : item = hash_table[name][k]
  OBVIOUS
<1>5. item.lines = <<0>>
  <2>1. CASE name \in DOMAIN Builtin
    <3>1. PICK first : first = create_new_item("FUNC", Builtin[name], Global, 0)
      OBVIOUS
    <3>2. hash_table[name] = <<first>>
      BY <1>2, <2>1, <3>1 DEF BuiltinTable
    <3>3. item = first
      BY <1>1, <1>4, <3>2 DEF Places
    <3> QED BY <3>1, <3>3 DEF create_new_item
  <2>2. CASE name \notin DOMAIN Builtin
    <3>1. hash_table[name] = <<>>
      BY <1>2, <2>2 DEF BuiltinTable
    <3> QED BY <1>1, <3>1 DEF Places
  <2> QED BY <2>1, <2>2
<1>6. \A l : Contains(item.lines, l) <=> l = 0
  BY <1>5 DEF Contains
<1> QED BY <1>3, <1>4, <1>6 DEF ItemLines

LEMMA LinesStep ==
  ASSUME Typed, Accepted, ScopesNest, LinesFit, [Next]_vars
  PROVE  LinesFit'
<1>1. SUFFICES ASSUME semantic_errors' = 0, NEW name \in Names, NEW k \in Places(hash_table'[name])
               PROVE  ItemLines(name, hash_table[name][k])'
  BY DEF LinesFit
<1>2. PICK new : new = hash_table'[name][k]
  OBVIOUS
<1>3. ASSUME NEW node \in Nodes, Traverses(node) PROVE ItemLines(name, new)'
  <2>1. /\ semantic_errors' \in Nat /\ semantic_errors \in Nat
        /\ hash_table \in [Names -> Chain] /\ hash_table' \in [Names -> Chain]
        /\ AddsFunction(node) \/ AddsVariable(node) \/ AddsUse(node)
    BY <1>3 DEF Traverses, Typed
  <2>2. semantic_errors' >= semantic_errors
    BY <2>1 DEF AddsFunction, AddsVariable, AddsUse
  <2>3. semantic_errors = 0
    BY <1>1, <2>1, <2>2
  <2>4. Fits /\ LegalProgram
    BY <2>3 DEF Accepted
  <2>5. \A l \in Places(hash_table[name]) : ItemLines(name, hash_table[name][l])
    BY <2>3 DEF LinesFit
  <2>6. CASE AddsFunction(node) \/ AddsVariable(node)
    BY <1>1, <1>2, <1>3, <2>3, <2>4, <2>5, <2>6, LinesOfDeclaration
  <2>7. CASE AddsUse(node)
    <3>1. k \in Places(hash_table[name])
      BY <1>1, <2>7 DEF AddsUse, Grown, Places
    <3> QED BY <1>1, <1>2, <1>3, <2>3, <2>4, <2>5, <2>7, <3>1, LinesOfUse
  <2> QED BY <2>1, <2>6, <2>7
<1>4. ASSUME EndFunction \/ FinishAnalysis \/ Generates \/ UNCHANGED vars PROVE ItemLines(name, new)'
  <2>1. program' = program /\ hash_table' = hash_table /\ semantic_errors = 0
    BY <1>1, <1>4, OtherSteps
  <2>2. ItemLines(name, new)
    BY <1>1, <1>2, <2>1 DEF LinesFit
  <2>3. \A i : IsUse(i)' <=> IsUse(i)
    BY <2>1 DEF IsUse, IsVariable, IsFunction
  <2>4. \A i : Visible(i, name, VariableTypes)' = Visible(i, name, VariableTypes)
    BY <2>1 DEF Visible
  <2>5. \A i : UseNames(program[i])' = UseNames(program[i])
    BY <2>1 DEF UseNames, NamesIn
  <2>6. \A i : Listed(i, name, new)' <=> Listed(i, name, new)
    BY <2>1, <2>4, <2>5 DEF Listed
  <2> QED BY <2>1, <2>2, <2>3, <2>6 DEF ItemLines
<1>5. ItemLines(name, new)'
  BY <1>3, <1>4, StepKinds
<1> QED BY <1>2, <1>5

Analysed == Typed /\ Accepted /\ Refused /\ ScopesNest /\ LinesFit

LEMMA AnalysedAlways ==
  Spec => []Analysed
<1>1. Init => Analysed
  BY TypedInit, AcceptedInit, ScopesInit, LinesInit DEF Analysed
<1>2. Analysed /\ [Next]_vars => Analysed'
  BY TypedStep, AcceptedStep, ScopesStep, LinesStep DEF Analysed
<1> QED BY <1>1, <1>2, PTL DEF Spec

\* The lines tab.c lists for a symbol are those of the nodes that refer to it,
\* for every program without an error: a local variable never gets a line of a
\* function, nor of a variable of its name in another scope.
THEOREM LinesOfUses ==
  Spec => []LinesAreUses
<1>1. ASSUME Analysed PROVE LinesAreUses
  <2>1. SUFFICES ASSUME semantic_errors = 0, NEW i \in DOMAIN program, IsUse(i), NEW name \in Names,
                        NEW item \in Range(hash_table[name])
                 PROVE  Contains(item.lines, i) <=>
                          /\ name \in UseNames(program[i])
                          /\ \/ item.id_type = "FUNC"
                             \/ \E j \in Visible(i, name, VariableTypes) : program[j].scope = item.scope
    BY DEF LinesAreUses, UseNames, NamesIn
  <2>2. Typed /\ LinesFit
    BY <1>1 DEF Analysed
  <2>3. i \in 1..Len(program)
    BY <2>2 DEF Typed
  <2>4. PICK chain \in Chain : chain = hash_table[name]
    BY <2>2 DEF Typed
  <2>5. PICK k \in Places(chain) : item = chain[k]
    BY <2>4, ChainFacts DEF Range
  <2>6. ItemLines(name, item)
    BY <2>1, <2>2, <2>4, <2>5 DEF LinesFit
  <2> QED BY <2>1, <2>3, <2>6 DEF ItemLines, Listed
<1> QED BY <1>1, AnalysedAlways, PTL

-----------------------------------------------------------------------------
(* Code generation, after an analysis without errors, over the table the   *)
(* analysis left.                                                          *)

LastFunction ==
  \A m \in 1..generated :
    IsFunction(m) /\ (\A k \in (m + 1)..generated : ~ IsFunction(k)) => func_name = program[m].name

Entry == [node : 1..MaxNodes, op : {"ALLOC", "PARAM", "CALL"},
          as : Scopes \cup {"VET", "INT", "VOID"}, arg : 0..MaxArgs]

\* A global variable with no variable of its name before it, or a local one.
OwnMemory(i) ==
  ~ (\E j \in 1..(i - 1) : IsVariable(j) /\ program[j].name = program[i].name
                                         /\ program[i].scope = Global)

\* What an entry of the code says of its node.
Emitted(e) ==
  LET node == program[e.node] IN
  /\ e.node \in 1..Len(program)
  /\ e.op = "ALLOC" => IsVariable(e.node) /\ (OwnMemory(e.node) => e.as = node.scope)
  /\ e.op = "PARAM" =>
       /\ node.op = "CALL"
       /\ e.as = "VET" <=> /\ node.args[e.arg].op = "IDENTIFIER"
                           /\ Visible(e.node, node.args[e.arg].name, Arrays) # {}
  /\ e.op = "CALL" => ~ IsVariable(e.node) /\ FunctionTypes(e.node, node.name) = {e.as}

Emissions == {e \in Entry : Emitted(e)}

CodeFits == code \in Seq(Emissions)

LEMMA SameEmissions ==
  ASSUME program' = program
  PROVE  Emissions' = Emissions
<1>1. \A i, name, types : Visible(i, name, types)' = Visible(i, name, types)
  BY DEF Visible
<1>2. \A i, name : FunctionTypes(i, name)' = FunctionTypes(i, name)
  BY DEF FunctionTypes, IsFunction
<1>3. \A i : (IsVariable(i)' <=> IsVariable(i)) /\ (OwnMemory(i)' <=> OwnMemory(i))
  BY DEF IsVariable, OwnMemory
<1>4. \A e : Emitted(e)' <=> Emitted(e)
  BY <1>1, <1>2, <1>3 DEF Emitted
<1> QED BY <1>4 DEF Emissions, Entry

\* The generator's current function is that of the node it is at.
LEMMA InFunction ==
  ASSUME Typed, ScopesNest, LastFunction, generated < Len(program),
         NEW i, i = generated + 1, program[i].scope # Global
  PROVE  func_name = program[i].scope
<1>1. i \in 1..Len(program) /\ i - 1 = generated
  BY DEF Typed
<1>2. PICK m \in 1..generated : Entered(m, generated, program[i].scope)
  BY <1>1 DEF ScopesNest, Nested
<1> QED BY <1>2 DEF Entered, LastFunction

Holds(d, chain, j) == \E q \in Places(chain) : d[q] = j

AllVariables(d, chain, name) ==
  \A p \in Places(chain) :
    /\ d[p] \in 1..Len(program) /\ IsVariable(d[p]) /\ program[d[p]].name = name
    /\ chain[p].id_type = program[d[p]].op /\ chain[p].scope = program[d[p]].scope

\* Where a name is a variable's, its items are variables'.
LEMMA VariableItems ==
  ASSUME Typed, LegalProgram, NEW name \in Names, NEW chain, chain = hash_table[name],
         NEW d, Stands(d, chain, name),
         NEW j \in 1..Len(program), IsVariable(j), program[j].name = name
  PROVE  Holds(d, chain, j) /\ AllVariables(d, chain, name)
<1>1. PICK q \in Places(chain) : d[q] = j
  BY Kinds DEF Stands
<1>2. Len(program) \in Nat
  BY DEF Typed
<1>3. chain[q].id_type # "FUNC"
  <2>1. DeclaredItem(j, name, chain[q])
    BY <1>1, <1>2 DEF Stands
  <2> QED BY <2>1, Kinds DEF DeclaredItem
<1>4. ASSUME NEW p \in Places(chain)
      PROVE  /\ d[p] \in 1..Len(program) /\ IsVariable(d[p]) /\ program[d[p]].name = name
             /\ chain[p].id_type = program[d[p]].op /\ chain[p].scope = program[d[p]].scope
  <2>1. chain[p].id_type # "FUNC"
    <3>1. ASSUME p \in FunctionPlaces(chain) PROVE FALSE
      <4>1. Places(chain) = {p}
        BY <3>1, LegalAlone
      <4> QED BY <1>1, <1>3, <3>1, <4>1 DEF FunctionPlaces
    <3> QED BY <3>1 DEF FunctionPlaces
  <2>2. d[p] # 0 /\ d[p] \in 0..Len(program)
    BY <2>1 DEF Stands, BuiltinItem
  <2>3. d[p] \in 1..Len(program) /\ DeclaredItem(d[p], name, chain[p])
    BY <1>2, <2>2 DEF Stands
  <2>4. ~ IsFunction(d[p])
    BY <2>1, <2>3 DEF DeclaredItem, IsFunction
  <2> QED BY <2>3, <2>4 DEF DeclaredItem, IsUse
<1> QED BY <1>1, <1>4 DEF Holds, AllVariables

\* A chain's first item of some kind is the earliest declaration of that kind.
LEMMA InOrder ==
  ASSUME NEW chain, Len(chain) \in Nat, NEW d, NEW name, Stands(d, chain, name),
         Len(program) \in Nat, NEW p \in Places(chain), NEW q \in Places(chain), p <= q
  PROVE  d[p] <= d[q]
<1>1. p = q \/ p < q
  BY DEF Places
<1>2. d[p] \in Nat /\ d[q] \in Nat
  BY DEF Stands
<1>3. p < q => d[p] < d[q]
  BY DEF Stands
<1> QED BY <1>1, <1>2, <1>3

LEMMA AllocEmitted ==
  ASSUME Typed, Fits, LegalProgram, ScopesNest, LastFunction, generated < Len(program),
         NEW i, i = generated + 1, program[i].op \in {"VAR", "ARRAY"}
  PROVE  Emit("ALLOC", AllocScope(program[i].name), 0) \in Emissions
<1>1. i \in 1..Len(program) /\ Len(program) \in Nat /\ Len(program) <= MaxNodes /\ MaxNodes \in Nat /\ MaxArgs \in Nat
  BY BoundsAssumption DEF Typed
<1>2. PICK node \in Nodes : node = program[i]
  BY <1>1 DEF Typed
<1>3. PICK name \in Names : name = node.name
  BY DEF Nodes
<1>4. PICK chain \in Chain : chain = hash_table[name]
  BY DEF Typed
<1>5. PICK d : Stands(d, chain, name)
  BY <1>4 DEF Fits
<1>6. IsVariable(i) /\ program[i].name = name
  BY <1>2, <1>3 DEF IsVariable, VariableTypes, Scalars, Arrays
<1>7. /\ Holds(d, chain, i)
      /\ \A p \in Places(chain) :
           /\ d[p] \in 1..Len(program) /\ IsVariable(d[p]) /\ program[d[p]].name = name
           /\ chain[p].id_type = program[d[p]].op /\ chain[p].scope = program[d[p]].scope
  <2>1. Holds(d, chain, i) /\ AllVariables(d, chain, name)
    BY <1>1, <1>4, <1>5, <1>6, VariableItems
  <2> QED BY <2>1 DEF AllVariables
<1>8. PICK q \in Places(chain) : d[q] = i
  BY <1>7 DEF Holds
<1>9. 1 \in Places(chain) /\ 1 <= q /\ chain # <<>> /\ Len(chain) \in Nat
  BY <1>8 DEF Places, Chain
<1>10. d[1] <= i /\ d[1] \in 1..Len(program)
  BY <1>1, <1>5, <1>7, <1>8, <1>9, InOrder
<1>11. AllocScope(name) = IF chain[1].scope = Global THEN Global ELSE func_name
  BY <1>4, <1>9 DEF AllocScope, search_symbol_id
<1>12. PICK as : as = AllocScope(name)
  OBVIOUS
<1>13. as \in Scopes
  BY <1>11, <1>12 DEF Typed, Scopes
<1>14. LegalVariable(i)
  BY <1>1, <1>6, LegalNodes
<1>15. ASSUME OwnMemory(i) PROVE as = node.scope
  <2>1. CASE node.scope = Global
    <3>1. d[1] = i
      <4>1. d[1] \notin 1..(i - 1)
        BY <1>2, <1>3, <1>7, <1>9, <1>15, <2>1 DEF OwnMemory
      <4> QED BY <1>1, <1>10, <4>1
    <3>2. chain[1].scope = Global
      BY <1>2, <1>7, <1>9, <2>1, <3>1
    <3> QED BY <1>11, <1>12, <2>1, <3>2
  <2>2. CASE node.scope # Global
    <3>1. func_name = node.scope
      BY <1>2, <2>2, InFunction
    <3>2. ASSUME chain[1].scope = Global PROVE FALSE
      <4>1. d[1] # i
        BY <1>2, <1>7, <1>9, <2>2, <3>2
      <4>2. d[1] \in 1..(i - 1)
        BY <1>1, <1>10, <4>1
      <4>3. d[1] \in Visible(i, name, VariableTypes)
        BY <1>7, <1>9, <3>2, <4>2 DEF Visible, IsVariable
      <4> QED BY <1>6, <1>14, <4>3 DEF LegalVariable
    <3> QED BY <1>11, <1>12, <3>1, <3>2
  <2> QED BY <2>1, <2>2
<1>16. PICK e : e = Emit("ALLOC", as, 0)
  OBVIOUS
<1>17. e = [node |-> i, op |-> "ALLOC", as |-> as, arg |-> 0]
  BY <1>16 DEF Emit
<1>18. e \in Entry
  <2>1. i \in 1..MaxNodes /\ 0 \in 0..MaxArgs
    BY <1>1
  <2> QED BY <1>13, <1>17, <2>1 DEF Entry
<1>19. Emitted(e)
  BY <1>1, <1>2, <1>6, <1>15, <1>17 DEF Emitted
<1> QED BY <1>2, <1>3, <1>12, <1>16, <1>18, <1>19 DEF Emissions

\* The types a node sees of a function are of the functions declared by then.
LEMMA TypesSeen ==
  ASSUME Typed, NEW i \in 1..Len(program), NEW name
  PROVE  FunctionTypes(i, name) \subseteq TypesNow(name)
<1>1. \A k \in 1..(i - 1) : k \in 1..Len(program)
  BY DEF Typed
<1> QED BY <1>1 DEF FunctionTypes, TypesNow

OnlyFunction(chain, f, types) ==
  f \in FunctionPlaces(chain) /\ Places(chain) = {f} /\ types = {chain[f].data_type}

\* A declared function is the only item of its name.
LEMMA FunctionItem ==
  ASSUME Typed, Fits, LegalProgram, NEW i \in 1..Len(program), NEW name \in Names,
         FunctionTypes(i, name) # {}, NEW chain, chain = hash_table[name]
  PROVE  \E f : OnlyFunction(chain, f, FunctionTypes(i, name))
<1>1. PICK d : Stands(d, chain, name)
  BY DEF Fits
<1>2. FunctionTypes(i, name) \subseteq {chain[k].data_type : k \in FunctionPlaces(chain)}
  <2>1. TypesNow(name) = DataTypes(chain)
    BY <1>1, FunctionsRead
  <2>2. FunctionTypes(i, name) \subseteq TypesNow(name)
    BY TypesSeen
  <2> QED BY <2>1, <2>2 DEF DataTypes
<1>3. PICK f \in FunctionPlaces(chain) : TRUE
  BY <1>2
<1>4. Places(chain) = {f}
  BY <1>1, <1>3, LegalAlone
<1>5. FunctionPlaces(chain) = {f}
  BY <1>3, <1>4 DEF FunctionPlaces
<1> QED BY <1>2, <1>3, <1>4, <1>5 DEF OnlyFunction

LEMMA CallEmitted ==
  ASSUME Typed, Fits, LegalProgram, generated < Len(program),
         NEW i, i = generated + 1, program[i].op \in {"CALL", "ASSIGN"}
  PROVE  EmitCall(program[i].name) \in Emissions
<1>1. i \in 1..Len(program) /\ Len(program) \in Nat /\ Len(program) <= MaxNodes /\ MaxNodes \in Nat /\ MaxArgs \in Nat
  BY BoundsAssumption DEF Typed
<1>2. PICK node \in Nodes : node = program[i]
  BY <1>1 DEF Typed
<1>3. PICK name \in Names : name = node.name
  BY DEF Nodes
<1>4. PICK chain \in Chain : chain = hash_table[name]
  BY DEF Typed
<1>5. FunctionTypes(i, name) # {}
  <2>1. node.op = "CALL" => LegalCall(i)
    BY <1>1, <1>2, LegalNodes
  <2>2. node.op = "ASSIGN" => FunctionTypes(i, program[i].name) = {"INT"}
    BY <1>1, <1>2, LegalNodes
  <2> QED BY <1>2, <1>3, <2>1, <2>2 DEF LegalCall
<1>6. PICK f \in FunctionPlaces(chain) : Places(chain) = {f} /\ FunctionTypes(i, name) = {chain[f].data_type}
  <2>1. PICK f : OnlyFunction(chain, f, FunctionTypes(i, name))
    BY <1>1, <1>4, <1>5, FunctionItem
  <2> QED BY <2>1 DEF OnlyFunction
<1>7. search_symbol_func(hash_table, name) = f
  <2>1. PICK p : p = search_symbol_func(hash_table, name)
    OBVIOUS
  <2>2. FirstIn(chain, FunctionPlaces(chain), p)
    BY <1>4, <2>1, Searches
  <2>3. FunctionPlaces(chain) \subseteq {f}
    BY <1>6 DEF FunctionPlaces
  <2> QED BY <1>6, <2>1, <2>2, <2>3 DEF FirstIn
<1>8. chain[f].data_type \in {"INT", "VOID"}
  BY <1>6, ChainFacts DEF Item
<1>9. PICK e : e = EmitCall(name)
  OBVIOUS
<1>10. e = [node |-> i, op |-> "CALL", as |-> chain[f].data_type, arg |-> 0]
  BY <1>4, <1>7, <1>9 DEF EmitCall, Emit
<1>11. e \in Entry
  BY <1>1, <1>8, <1>10 DEF Entry
<1>12. ~ IsVariable(i)
  BY DEF IsVariable, VariableTypes, Scalars, Arrays
<1>13. Emitted(e)
  BY <1>1, <1>2, <1>3, <1>6, <1>10, <1>12 DEF Emitted
<1> QED BY <1>2, <1>3, <1>9, <1>11, <1>13 DEF Emissions

\* A search of the whole table finds what a name meant at node i.
LEMMA SearchedLater ==
  ASSUME Typed, Fits, LegalProgram, ScopesNest, NEW i \in 1..Len(program), NEW name \in Names,
         NEW chain \in Chain, chain = hash_table[name], NEW s, program[i].scope = s,
         NEW j \in Visible(i, name, VariableTypes),
         NEW p, FirstIn(chain, ScopePlaces(chain, s), p)
  PROVE  p # 0 /\ (chain[p].id_type \in Arrays <=> Visible(i, name, Arrays) # {})
<1>1. Len(program) \in Nat /\ Len(chain) \in Nat
  BY DEF Typed, Chain
<1>2. PICK d : Stands(d, chain, name)
  BY DEF Fits
<1>3. j \in 1..(i - 1) /\ j \in 1..Len(program) /\ program[j].name = name /\ IsVariable(j)
      /\ program[j].scope \in {s, Global}
  BY <1>1 DEF Visible, IsVariable
<1>4. Holds(d, chain, j) /\ AllVariables(d, chain, name)
  BY <1>2, <1>3, VariableItems
<1>5. PICK q \in Places(chain) : d[q] = j
  BY <1>4 DEF Holds
<1>6. q \in ScopePlaces(chain, s)
  BY <1>3, <1>4, <1>5 DEF AllVariables, ScopePlaces, InScope
<1>7. p # 0 /\ p \in ScopePlaces(chain, s) /\ p <= q
  BY <1>6 DEF FirstIn
<1>8. p \in Places(chain) /\ chain[p].scope \in {s, Global}
  BY <1>7 DEF ScopePlaces, InScope
<1>9. d[p] <= j
  BY <1>1, <1>2, <1>5, <1>7, <1>8, InOrder
<1>10. /\ d[p] \in 1..Len(program) /\ IsVariable(d[p]) /\ program[d[p]].name = name
       /\ chain[p].id_type = program[d[p]].op /\ chain[p].scope = program[d[p]].scope
  BY <1>4, <1>8 DEF AllVariables
<1>11. d[p] \in 1..(i - 1)
  BY <1>1, <1>3, <1>9, <1>10
<1>12. d[p] \in InScopeOf(i - 1, s, name) /\ j \in InScopeOf(i - 1, s, name)
  BY <1>3, <1>8, <1>10, <1>11 DEF InScopeOf
<1>13. i - 1 \in 0..Len(program) /\ Nested(i - 1, s)
  BY <1>1 DEF ScopesNest
<1>14. \A k \in InScopeOf(i - 1, s, name) : k = j
  BY <1>12, <1>13, OneVisible
<1>15. chain[p].id_type = program[j].op
  BY <1>10, <1>12, <1>14
<1>16. Visible(i, name, Arrays) # {} <=> program[j].op \in Arrays
  <2>1. ASSUME NEW k \in Visible(i, name, Arrays) PROVE program[j].op \in Arrays
    <3>1. k \in InScopeOf(i - 1, s, name) /\ program[k].op \in Arrays
      BY DEF Visible, InScopeOf, IsVariable, VariableTypes
    <3> QED BY <1>14, <3>1
  <2>2. program[j].op \in Arrays => j \in Visible(i, name, Arrays)
    BY DEF Visible
  <2> QED BY <2>1, <2>2
<1> QED BY <1>7, <1>15, <1>16

LEMMA ParamEmitted ==
  ASSUME Typed, Fits, LegalProgram, ScopesNest, LastFunction, generated < Len(program),
         NEW i, i = generated + 1, program[i].op = "CALL",
         NEW args, args = program[i].args, NEW k \in DOMAIN args
  PROVE  EmitParam(args, k) \in Emissions
<1>1. i \in 1..Len(program) /\ Len(program) \in Nat /\ Len(program) <= MaxNodes /\ MaxNodes \in Nat /\ MaxArgs \in Nat
  BY BoundsAssumption DEF Typed
<1>2. PICK node \in Nodes : node = program[i]
  BY <1>1 DEF Typed
<1>3. args \in Seq(Arguments) /\ Len(args) <= MaxArgs
  BY <1>1, <1>2 DEF Nodes, Typed
<1>4. k \in 0..MaxArgs
  BY <1>1, <1>3
<1>5. PICK arg \in Arguments : arg = args[k]
  BY <1>3
<1>6. PICK name \in Names : name = arg.name
  BY DEF Arguments
<1>7. PICK chain \in Chain : chain = hash_table[name]
  BY DEF Typed
<1>8. PICK p : p = search_symbol_any(hash_table, name, func_name)
  OBVIOUS
<1>9. PICK s : s = program[i].scope
  OBVIOUS
<1>10. func_name = s
  <2>1. s # Global
    <3>1. IsUse(i)
      BY DEF IsUse, IsVariable, IsFunction, VariableTypes, Scalars, Arrays
    <3> QED BY <1>1, <1>9, <3>1 DEF ScopesNest
  <2> QED BY <1>9, <2>1, InFunction
<1>11. FirstIn(chain, ScopePlaces(chain, s), p)
  BY <1>7, <1>8, <1>10, Searches
<1>12. LegalArgument(i, arg)
  <2>1. LegalCall(i)
    BY <1>1, LegalNodes
  <2> QED BY <1>5, <2>1 DEF LegalCall
<1>13. arg.op \notin Complex /\ p # 0 /\ chain[p].id_type \in Arrays
         <=> arg.op = "IDENTIFIER" /\ Visible(i, name, Arrays) # {}
  <2>1. CASE arg.op \in Complex
    BY <2>1 DEF Complex
  <2>2. CASE arg.op = "CALL"
    <3>1. FunctionTypes(i, name) # {}
      BY <1>6, <1>12, <2>2 DEF LegalArgument, LegalOperand
    <3>2. PICK f : OnlyFunction(chain, f, FunctionTypes(i, name))
      BY <1>1, <1>7, <3>1, FunctionItem
    <3>3. p # 0 => p = f
      BY <1>11, <3>2 DEF FirstIn, ScopePlaces, OnlyFunction
    <3>4. chain[f].id_type = "FUNC"
      BY <3>2 DEF OnlyFunction, FunctionPlaces
    <3> QED BY <2>2, <3>3, <3>4 DEF Arrays
  <2>3. CASE arg.op = "IDENTIFIER"
    <3>1. Visible(i, name, Scalars) # {} \/ Visible(i, name, Arrays) # {}
      BY <1>6, <1>12, <2>3 DEF LegalArgument, LegalOperand
    <3>2. PICK j \in Visible(i, name, VariableTypes) : TRUE
      BY <3>1 DEF Visible, VariableTypes
    <3>3. p # 0 /\ (chain[p].id_type \in Arrays <=> Visible(i, name, Arrays) # {})
      BY <1>1, <1>7, <1>9, <1>11, <3>2, SearchedLater
    <3> QED BY <2>3, <3>3 DEF Complex
  <2> QED BY <2>1, <2>2, <2>3 DEF Arguments
<1>14. PICK as : as = IF arg.op \notin Complex /\ p # 0 /\ chain[p].id_type \in Arrays THEN "VET" ELSE "INT"
  OBVIOUS
<1>15. PICK e : e = EmitParam(args, k)
  OBVIOUS
<1>16. e = [node |-> i, op |-> "PARAM", as |-> as, arg |-> k]
  BY <1>5, <1>6, <1>7, <1>8, <1>14, <1>15 DEF EmitParam, Emit
<1>17. as \in {"VET", "INT"} /\ (as = "VET" <=> arg.op = "IDENTIFIER" /\ Visible(i, name, Arrays) # {})
  BY <1>13, <1>14
<1>18. e \in Entry
  <2>1. i \in 1..MaxNodes
    BY <1>1
  <2> QED BY <1>4, <1>16, <1>17, <2>1 DEF Entry
<1>19. Emitted(e)
  <2>1. /\ e.node = i /\ e.op = "PARAM" /\ e.as = as /\ e.arg = k
    BY <1>16
  <2>2. program[i].args[k] = arg
    BY <1>5
  <2> QED BY <1>1, <1>6, <1>17, <2>1, <2>2 DEF Emitted
<1> QED BY <1>15, <1>18, <1>19 DEF Emissions

-----------------------------------------------------------------------------
LEMMA GeneratedInit ==
  Init => LastFunction /\ CodeFits
<1>1. SUFFICES ASSUME Init PROVE LastFunction /\ CodeFits
  OBVIOUS
<1>2. generated = 0 /\ code = <<>>
  BY <1>1 DEF Init
<1>3. 1..generated = {}
  BY <1>2
<1> QED BY <1>2, <1>3 DEF LastFunction, CodeFits

LEMMA GeneratesStep ==
  ASSUME Typed, Accepted, ScopesNest, LastFunction, CodeFits, Generates
  PROVE  LastFunction' /\ CodeFits'
<1>1. /\ phase = "generation" /\ generated < Len(program) /\ generated' = generated + 1
      /\ UNCHANGED <<hash_table, semantic_errors, program, scope, header, phase>>
  BY DEF Generates, GenerateFunction, GenerateAlloc, GenerateCall, GenerateOther, Generate
<1>2. PICK i : i = generated + 1
  OBVIOUS
<1>3. i \in Nat \ {0} /\ i \in 1..Len(program) /\ generated = i - 1 /\ generated' = i
  BY <1>1, <1>2 DEF Typed
<1>4. Fits /\ LegalProgram
  BY <1>1 DEF Typed, Accepted
<1>5. PICK E : E = Emissions
  OBVIOUS
<1>6. Emissions' = E /\ code \in Seq(E)
  BY <1>1, <1>5, SameEmissions DEF CodeFits
<1>7. \A k : IsFunction(k)' <=> IsFunction(k)
  BY <1>1 DEF IsFunction
<1>8. func_name' = IF IsFunction(i) THEN program[i].name ELSE func_name
  BY <1>2 DEF Generates, GenerateFunction, GenerateAlloc, GenerateCall, GenerateOther, Generate, IsFunction
<1>9. LastFunction'
  <2>1. SUFFICES ASSUME NEW m \in 1..i, IsFunction(m), \A k \in (m + 1)..i : ~ IsFunction(k)
                 PROVE  func_name' = program[m].name
    BY <1>1, <1>3, <1>7 DEF LastFunction
  <2>2. CASE m = i
    BY <1>8, <2>1, <2>2
  <2>3. CASE m # i
    <3>1. i \in (m + 1)..i /\ m \in 1..generated /\ \A k \in (m + 1)..generated : k \in (m + 1)..i
      BY <1>3, <2>3
    <3>2. func_name' = func_name
      BY <1>8, <2>1, <3>1
    <3> QED BY <2>1, <3>1, <3>2 DEF LastFunction
  <2> QED BY <2>2, <2>3
<1>10. code' \in Seq(E)
  <2>1. CASE GenerateFunction \/ GenerateOther
    BY <1>6, <2>1 DEF GenerateFunction, GenerateOther
  <2>2. CASE GenerateAlloc
    <3>1. program[i].op \in {"VAR", "ARRAY"}
      BY <1>2, <2>2 DEF GenerateAlloc, Generate
    <3>2. PICK e \in E : e = Emit("ALLOC", AllocScope(program[i].name), 0)
      BY <1>1, <1>2, <1>4, <1>5, <3>1, AllocEmitted
    <3>3. code' = Append(code, e)
      BY <1>2, <2>2, <3>2 DEF GenerateAlloc
    <3> QED BY <1>6, <3>3
  <2>3. CASE GenerateCall
    <3>1. program[i].op \in {"CALL", "ASSIGN"}
      BY <1>2, <2>3 DEF GenerateCall, Generate
    <3>2. PICK e \in E : e = EmitCall(program[i].name)
      BY <1>1, <1>2, <1>4, <1>5, <3>1, CallEmitted
    <3>3. PICK args : args = IF program[i].op = "CALL" THEN program[i].args ELSE <<>>
      OBVIOUS
    <3>4. PICK n \in Nat : DOMAIN args = 1..n
      <4>1. PICK node \in Nodes : node = program[i]
        BY <1>3 DEF Typed
      <4>2. args \in Seq(Arguments)
        BY <3>3, <4>1 DEF Nodes
      <4> QED BY <4>2
    <3>5. \A k \in 1..n : EmitParam(args, k) \in E
      <4>1. CASE program[i].op = "CALL"
        <5>1. args = program[i].args
          BY <3>3, <4>1
        <5> QED BY <1>1, <1>2, <1>4, <1>5, <3>4, <4>1, <5>1, ParamEmitted
      <4>2. CASE program[i].op # "CALL"
        <5>1. args = <<>>
          BY <3>3, <4>2
        <5>2. 1..n = {}
          BY <3>4, <5>1
        <5> QED BY <5>2
      <4> QED BY <4>1, <4>2
    <3>6. PICK params : params = [k \in 1..n |-> EmitParam(args, k)]
      OBVIOUS
    <3>7. params \in Seq(E)
      BY <3>5, <3>6
    <3>8. code' = code \o params \o <<e>>
      BY <1>2, <2>3, <3>2, <3>3, <3>4, <3>6 DEF GenerateCall
    <3>9. <<e>> \in Seq(E)
      OBVIOUS
    <3> QED BY <1>6, <3>7, <3>8, <3>9
  <2> QED BY <2>1, <2>2, <2>3 DEF Generates
<1> QED BY <1>6, <1>9, <1>10 DEF CodeFits

LEMMA GeneratedStep ==
  ASSUME Analysed, LastFunction, CodeFits, [Next]_vars
  PROVE  LastFunction' /\ CodeFits'
<1>1. Typed
  BY DEF Analysed
<1>2. ASSUME NEW node \in Nodes, Traverses(node) PROVE LastFunction' /\ CodeFits'
  <2>1. generated' = 0 /\ code' = <<>>
    BY <1>1, <1>2 DEF Traverses, Typed
  <2>2. 1..generated' = {}
    BY <2>1
  <2> QED BY <2>1, <2>2 DEF LastFunction, CodeFits
<1>3. CASE Generates
  BY <1>3, GeneratesStep DEF Analysed
<1>4. ASSUME EndFunction \/ FinishAnalysis \/ UNCHANGED vars PROVE LastFunction' /\ CodeFits'
  <2>1. UNCHANGED <<program, generated, func_name, code>>
    BY <1>4 DEF EndFunction, FinishAnalysis, vars
  <2>2. LastFunction'
    BY <2>1 DEF LastFunction, IsFunction
  <2>3. CodeFits'
    BY <2>1, SameEmissions DEF CodeFits
  <2> QED BY <2>2, <2>3
<1> QED BY <1>1, <1>2, <1>3, <1>4, StepKinds

Generated == Analysed /\ LastFunction /\ CodeFits

LEMMA GeneratedAlways ==
  Spec => []Generated
<1>1. Init => Generated
  BY TypedInit, AcceptedInit, ScopesInit, LinesInit, GeneratedInit DEF Generated, Analysed
<1>2. Generated /\ [Next]_vars => Generated'
  <2>1. Analysed /\ [Next]_vars => Analysed'
    BY TypedStep, AcceptedStep, ScopesStep, LinesStep DEF Analysed
  <2> QED BY <2>1, GeneratedStep DEF Generated
<1> QED BY <1>1, <1>2, PTL DEF Spec

LEMMA EntryOfCode ==
  ASSUME CodeFits, NEW n \in DOMAIN code
  PROVE  code[n] \in Entry /\ Emitted(code[n])
BY DEF CodeFits, Emissions

\* Type correctness of the analysis and of the generator's searches.  That a
\* call emits a type rests on the verdict of the analysis: a search that found
\* nothing would give none.
THEOREM SemanticTyped ==
  Spec => []SemanticTypeOK
<1>1. ASSUME Generated PROVE SemanticTypeOK
  <2>1. Typed /\ CodeFits
    BY <1>1 DEF Generated, Analysed
  <2>2. /\ hash_table \in [Names -> Seq(Item)] /\ semantic_errors \in Nat /\ program \in Seq(Nodes)
        /\ scope \in Scopes /\ header \in BOOLEAN /\ phase \in {"analysis", "generation", "rejected"}
        /\ generated \in 0..Len(program) /\ func_name \in Scopes
    BY <2>1 DEF Typed, Chain
  <2>3. code \in Seq(Entry)
    <3>1. \A n \in DOMAIN code : code[n] \in Entry
      BY <2>1, EntryOfCode
    <3>2. code \in Seq(Emissions) /\ Len(code) \in Nat /\ DOMAIN code = 1..Len(code)
      BY <2>1 DEF CodeFits
    <3>3. code = [n \in 1..Len(code) |-> code[n]]
      BY <3>2
    <3> QED BY <3>1, <3>2, <3>3
  <2> QED BY <2>2, <2>3 DEF SemanticTypeOK, Nodes, NodeOps, Entry
<1> QED BY <1>1, GeneratedAlways, PTL

\* The code generator, searching the complete table, passes by address what was
\* an array where the analysis met the call, and takes a result of a function
\* declared INT by then (codeGen.c intermediate_code_expr_call), however many
\* declarations of the same names came after.
THEOREM CallsMeanTheSame ==
  Spec => []CallsAsAnalysed
<1>1. ASSUME Generated PROVE CallsAsAnalysed
  <2>1. CodeFits
    BY <1>1 DEF Generated
  <2>2. \A n \in DOMAIN code : Emitted(code[n])
    BY <2>1, EntryOfCode
  <2> QED BY <2>2 DEF CallsAsAnalysed, Emitted
<1> QED BY <1>1, GeneratedAlways, PTL

\* A local variable gets its memory in its function, and a global one outside
\* every function where no variable of its name precedes it (codeGen.c:482).
THEOREM MemoryWhereDeclared ==
  Spec => []AllocatedWhereDeclared
<1>1. ASSUME Generated PROVE AllocatedWhereDeclared
  <2>1. CodeFits
    BY <1>1 DEF Generated
  <2>2. SUFFICES ASSUME NEW i \in DOMAIN program, IsVariable(i), OwnMemory(i),
                        NEW n \in DOMAIN code, code[n].node = i
                 PROVE  code[n].as = program[i].scope
    BY DEF AllocatedWhereDeclared, ScopeOfAlloc, OwnMemory
  <2>3. PICK e \in Entry : e = code[n] /\ Emitted(e)
    BY <2>1, EntryOfCode
  <2>4. e.op = "ALLOC"
    <3>1. e.op # "PARAM"
      BY <2>2, <2>3 DEF Emitted, IsVariable, VariableTypes, Scalars, Arrays
    <3>2. e.op # "CALL"
      BY <2>2, <2>3 DEF Emitted
    <3> QED BY <3>1, <3>2 DEF Entry
  <2> QED BY <2>2, <2>3, <2>4 DEF Emitted
<1> QED BY <1>1, GeneratedAlways, PTL

=============================================================================
