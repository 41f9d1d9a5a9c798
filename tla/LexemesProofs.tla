---------------------------- MODULE LexemesProofs ----------------------------
(***************************************************************************)
(* Proofs about Lexemes for inputs of any length with any number of syntax *)
(* errors: lexeme_stack ends with the texts that the open rules await, but *)
(* for a token on which the parser is about to report an error.            *)
(***************************************************************************)
EXTENDS Lexemes, FiniteSetTheorems, SequenceTheorems, WellFoundedInduction, TLAPS

-----------------------------------------------------------------------------
(* Numbers and sequences. *)

LEMMA Through ==
  ASSUME NEW a \in Nat, NEW n \in Nat, NEW S, a \in S,
         \A k \in (a + 1)..n : k - 1 \in S => k \in S
  PROVE  \A k \in a..n : k \in S
<1>1. SUFFICES ASSUME NEW k \in a..n, k \notin S PROVE FALSE
  OBVIOUS
<1>2. PICK R : R = {m \in a..n : m \notin S}
  OBVIOUS
<1>3. R \subseteq Nat /\ R # {}
  BY <1>1, <1>2
<1>4. PICK m \in R : \A l \in R : <<l, m>> \notin OpToRel(<, Nat)
  BY <1>3, NatLessThanWellFounded, WFMin, Zenon
<1>5. \A l \in R : ~ (l < m)
  BY <1>3, <1>4, Zenon DEF OpToRel
<1>6. m \in (a + 1)..n /\ m - 1 \in a..n /\ m - 1 \notin R
  BY <1>2, <1>5
<1> QED BY <1>2, <1>6

\* A sequence ends with another if something put before that gives it.
LEMMA SuffixOf ==
  ASSUME NEW g \in Seq(Nat), NEW s \in Seq(Nat)
  PROVE  IsSuffix(s, g \o s)
<1>1. PICK t : t = g \o s
  OBVIOUS
<1>2. t \in Seq(Nat) /\ Len(t) = Len(g) + Len(s) /\ \A i \in 1..Len(s) : t[Len(g) + i] = s[i]
  BY <1>1
<1>3. PICK rs, rt : rs = Reverse(s) /\ rt = Reverse(t)
  OBVIOUS
<1>4. /\ rs = [j \in 1..Len(s) |-> s[(Len(s) - j) + 1]]
      /\ rt = [j \in 1..Len(t) |-> t[(Len(t) - j) + 1]]
  BY <1>3 DEF Reverse
<1>5. rs \in Seq(Nat) /\ rt \in Seq(Nat) /\ Len(rs) = Len(s) /\ Len(rt) = Len(t)
  <2>1. rs \in Seq(Nat) /\ Len(rs) = Len(s)
    BY <1>4
  <2>2. rt \in Seq(Nat) /\ Len(rt) = Len(t)
    BY <1>2, <1>4
  <2> QED BY <2>1, <2>2
<1>6. \A j \in 1..Len(s) : rs[j] = rt[j]
  <2>1. TAKE j \in 1..Len(s)
  <2>2. (Len(t) - j) + 1 = Len(g) + ((Len(s) - j) + 1) /\ (Len(s) - j) + 1 \in 1..Len(s)
    BY <1>2
  <2>3. rs[j] = s[(Len(s) - j) + 1] /\ rt[j] = t[(Len(t) - j) + 1]
    BY <1>2, <1>4
  <2> QED BY <1>2, <2>2, <2>3
<1>7. SubSeq(rs, 1, Len(rs)) = SubSeq(rt, 1, Len(rs))
  BY <1>2, <1>5, <1>6
<1> QED BY <1>1, <1>2, <1>3, <1>5, <1>7 DEF IsSuffix, IsPrefix

LEMMA Together ==
  ASSUME NEW a \in Seq(Nat), NEW b \in Seq(Nat), NEW c \in Seq(Nat)
  PROVE  /\ a \o b \in Seq(Nat) /\ Len(a \o b) = Len(a) + Len(b)
         /\ a \o (b \o c) = (a \o b) \o c /\ a \o <<>> = a
OBVIOUS

\* Taking away what a sequence ends with.
LEMMA Shorten ==
  ASSUME NEW s \in Seq(Nat), NEW u \in Seq(Nat)
  PROVE  /\ SubSeq(s \o u, 1, Len(s \o u) - Len(u)) = s
         /\ \A k \in 1..Len(u) : (s \o u)[(Len(s \o u) - Len(u)) + k] = u[k]
<1>1. PICK t : t = s \o u
  OBVIOUS
<1>2. /\ t \in Seq(Nat) /\ Len(t) - Len(u) = Len(s) /\ Len(s) <= Len(t)
      /\ \A k \in 1..Len(s) : t[k] = s[k]
      /\ \A k \in 1..Len(u) : t[Len(s) + k] = u[k]
  BY <1>1
<1>3. SubSeq(t, 1, Len(s)) = s
  BY <1>2
<1> QED BY <1>1, <1>2, <1>3

-----------------------------------------------------------------------------
(* Rules.  Some have others open within them; those of expressions are     *)
(* within an expression or a statement, all others never within an         *)
(* expression.                                                             *)

Under == ExpressionPlace \cup {"program", "block", "int_fun_id(", "int_fun_id(params)"}

Expression == {"ID", "NUM", "(", "fun_id", "call(", "call(args", "ID[", "ID[e]",
               "+", "=", "var", "e"}

\* How many texts a rule awaits.
OneText == {"int_ID", "var_declaracao", "int_ID[", "param_ID", "param_ID[",
            "param_ID[]", "ID", "ID[", "NUM", "ID[e]"}
TwoTexts == {"int_ID[NUM", "int_ID[NUM]", "var_declaracao[]"}
Texts(what) == IF what \in OneText THEN 1 ELSE IF what \in TwoTexts THEN 2 ELSE 0

Recovering == {"int_error", "int_error]", "error"}

What == Under \cup Expression \cup OneText \cup TwoTexts \cup Recovering \cup
        {"int", "int_fun_id", "int_fun_id(params", "param", "if", "if(e)s"}

-----------------------------------------------------------------------------
(* The texts the open rules await. *)

Rule == [what : What, at : Nat, held : Seq(Nat)]

Awaited(stack) == FlattenSeq([k \in DOMAIN stack |-> stack[k].held])

\* The n first of some sequences put together one by one.
Joins(f, seqs, n) ==
  /\ f \in [1..n -> Seq(Nat)]
  /\ \A i \in 1..n : f[i] = IF i = 1 THEN seqs[i] ELSE f[i - 1] \o seqs[i]

LEMMA JoinsExists ==
  ASSUME NEW n \in Nat \ {0}, NEW seqs \in [1..n -> Seq(Nat)]
  PROVE  \E f : Joins(f, seqs, n)
<1>1. PICK S : S = {m \in 1..n : \E f : Joins(f, seqs, m)}
  OBVIOUS
<1>2. 1 \in S
  <2>1. PICK f : f = [i \in 1..1 |-> seqs[i]]
    OBVIOUS
  <2>2. Joins(f, seqs, 1)
    BY <2>1 DEF Joins
  <2> QED BY <1>1, <2>2
<1>3. ASSUME NEW m \in (1 + 1)..n, m - 1 \in S PROVE m \in S
  <2>0. m \in 1..n /\ m - 1 \in 1..n
    OBVIOUS
  <2>1. PICK f : Joins(f, seqs, m - 1)
    BY <1>1, <1>3, <2>0
  <2>2. PICK g : g = [i \in 1..m |-> IF i = m THEN f[m - 1] \o seqs[m] ELSE f[i]]
    OBVIOUS
  <2>3. f[m - 1] \in Seq(Nat) /\ seqs[m] \in Seq(Nat) /\ \A i \in 1..(m - 1) : f[i] \in Seq(Nat)
    BY <2>0, <2>1 DEF Joins
  <2>4. f[m - 1] \o seqs[m] \in Seq(Nat)
    BY <2>3
  <2>5. \A i \in 1..m : i = m \/ i \in 1..(m - 1)
    OBVIOUS
  <2>6. g \in [1..m -> Seq(Nat)]
    BY <2>2, <2>3, <2>4, <2>5
  <2>7. \A i \in 1..(m - 1) : g[i] = f[i]
    BY <2>2
  <2>8. ASSUME NEW i \in 1..m PROVE g[i] = IF i = 1 THEN seqs[i] ELSE g[i - 1] \o seqs[i]
    <3>1. CASE i = m
      <4>1. i # 1 /\ i - 1 \in 1..(m - 1) /\ g[i] = f[m - 1] \o seqs[m]
        BY <2>2, <3>1
      <4> QED BY <2>7, <3>1, <4>1
    <3>2. CASE i # m
      <4>1. i \in 1..(m - 1) /\ (i # 1 => i - 1 \in 1..(m - 1))
        BY <3>2
      <4> QED BY <2>1, <2>7, <4>1 DEF Joins
    <3> QED BY <3>1, <3>2
  <2>9. Joins(g, seqs, m)
    BY <2>6, <2>8 DEF Joins
  <2> QED BY <1>1, <2>0, <2>9
<1>4. n \in S
  <2>1. n \in Nat /\ 1 \in Nat /\ \A k \in (1 + 1)..n : k - 1 \in S => k \in S
    BY <1>3, Zenon
  <2>2. \A k \in 1..n : k \in S
    BY <1>2, <2>1, Through, Zenon
  <2> QED BY <2>2
<1> QED BY <1>1, <1>4

\* Two such functions agree as far as both go.
LEMMA JoinsUnique ==
  ASSUME NEW m \in Nat \ {0}, NEW n \in Nat, m <= n, NEW s, NEW t,
         NEW f, Joins(f, s, m), NEW g, Joins(g, t, n), \A i \in 1..m : s[i] = t[i]
  PROVE  f[m] = g[m]
<1>1. PICK S : S = {i \in 1..m : f[i] = g[i]}
  OBVIOUS
<1>2. 1 \in S
  <2>1. 1 \in 1..m /\ 1 \in 1..n
    OBVIOUS
  <2>2. f[1] = s[1] /\ g[1] = t[1]
    BY <2>1, Zenon DEF Joins
  <2> QED BY <1>1, <2>1, <2>2
<1>3. ASSUME NEW i \in (1 + 1)..m, i - 1 \in S PROVE i \in S
  <2>1. i \in 1..m /\ i \in 1..n /\ i # 1
    OBVIOUS
  <2>2. f[i] = f[i - 1] \o s[i] /\ g[i] = g[i - 1] \o t[i]
    BY <2>1, Zenon DEF Joins
  <2> QED BY <1>1, <1>3, <2>1, <2>2
<1>4. m \in S
  BY <1>2, <1>3, Through
<1> QED BY <1>1, <1>4

LEMMA FlattenJoins ==
  ASSUME NEW n \in Nat \ {0}, NEW seqs \in [1..n -> Seq(Nat)]
  PROVE  \E f : Joins(f, seqs, n) /\ FlattenSeq(seqs) = f[n]
<1>1. Len(seqs) = n
  OBVIOUS
<1> DEFINE Step(f) == [i \in 1..n |-> IF i = 1 THEN seqs[i] ELSE f[i - 1] \o seqs[i]]
<1>2. PICK f : Joins(f, seqs, n)
  BY JoinsExists
<1>3. \E e : e = Step(e)
  <2>1. f = [i \in 1..n |-> f[i]]
    BY <1>2 DEF Joins
  <2>2. f = Step(f)
    BY <1>2, <2>1 DEF Joins
  <2> QED BY <2>2
<1>4. PICK g : g = CHOOSE e : e = Step(e)
  OBVIOUS
<1>5. g = Step(g)
  BY <1>3, <1>4, Zenon
<1>6. FlattenSeq(seqs) = g[n]
  BY <1>1, <1>4 DEF FlattenSeq
<1>7. \A i \in 1..n : g[i] = IF i = 1 THEN seqs[i] ELSE g[i - 1] \o seqs[i]
  <2>1. PICK e : e = Step(g)
    OBVIOUS
  <2>2. \A i \in 1..n : e[i] = IF i = 1 THEN seqs[i] ELSE g[i - 1] \o seqs[i]
    BY <2>1
  <2> HIDE DEF Step
  <2> QED BY <1>5, <2>1, <2>2
<1>8. DOMAIN g = 1..n /\ g = [i \in 1..n |-> g[i]]
  BY <1>5
<1> HIDE DEF Step
<1>9. \A i \in 1..n : g[i] \in Seq(Nat)
  <2>1. PICK S : S = {i \in 1..n : g[i] \in Seq(Nat)}
    OBVIOUS
  <2>2. 1 \in S
    BY <1>7, <2>1
  <2>3. ASSUME NEW i \in (1 + 1)..n, i - 1 \in S PROVE i \in S
    <3>0. i \in 1..n /\ i # 1
      OBVIOUS
    <3>1. g[i] = g[i - 1] \o seqs[i] /\ g[i - 1] \in Seq(Nat) /\ seqs[i] \in Seq(Nat)
      BY <1>7, <2>1, <2>3, <3>0
    <3>2. g[i] \in Seq(Nat)
      BY <3>1
    <3> QED BY <2>1, <3>0, <3>2
  <2>4. \A i \in 1..n : i \in S
    BY <2>2, <2>3, Through
  <2> QED BY <2>1, <2>4
<1>10. Joins(g, seqs, n)
  BY <1>7, <1>8, <1>9 DEF Joins
<1> QED BY <1>6, <1>10

LEMMA HeldTexts ==
  ASSUME NEW stack \in Seq(Rule), stack # <<>>
  PROVE  \E f : /\ Joins(f, [k \in 1..Len(stack) |-> stack[k].held], Len(stack))
                /\ Awaited(stack) = f[Len(stack)]
<1>1. PICK n \in Nat \ {0} : n = Len(stack)
  OBVIOUS
<1>2. PICK seqs : seqs = [k \in 1..n |-> stack[k].held]
  OBVIOUS
<1>3. DOMAIN stack = 1..n /\ \A k \in 1..n : stack[k].held \in Seq(Nat)
  <2>1. DOMAIN stack = 1..n /\ \A k \in 1..n : stack[k] \in Rule
    BY <1>1
  <2> QED BY <2>1 DEF Rule
<1>4. seqs \in [1..n -> Seq(Nat)]
  BY <1>2, <1>3
<1>5. Awaited(stack) = FlattenSeq(seqs)
  BY <1>2, <1>3 DEF Awaited
<1>6. PICK f : Joins(f, seqs, n) /\ FlattenSeq(seqs) = f[n]
  BY <1>4, FlattenJoins, Zenon
<1>7. /\ Joins(f, [k \in 1..Len(stack) |-> stack[k].held], Len(stack))
      /\ Awaited(stack) = f[Len(stack)]
  BY <1>1, <1>2, <1>5, <1>6, Zenon
<1> QED BY <1>7, Zenon

LEMMA AwaitedType ==
  ASSUME NEW stack \in Seq(Rule)
  PROVE  Awaited(stack) \in Seq(Nat)
<1>1. CASE stack = <<>>
  <2>1. [k \in DOMAIN stack |-> stack[k].held] = <<>>
    BY <1>1
  <2> QED BY <2>1 DEF Awaited, FlattenSeq
<1>2. CASE stack # <<>>
  <2>1. Len(stack) \in 1..Len(stack)
    BY <1>2
  <2> QED BY <1>2, <2>1, HeldTexts DEF Joins
<1> QED BY <1>1, <1>2

\* A rule opened awaits its texts after those of the others.
LEMMA AwaitedAppend ==
  ASSUME NEW stack \in Seq(Rule), NEW rule \in Rule
  PROVE  Awaited(Append(stack, rule)) = Awaited(stack) \o rule.held
<1>1. PICK more : more = Append(stack, rule)
  OBVIOUS
<1>2. PICK n \in Nat : n = Len(stack)
  OBVIOUS
<1>3. /\ more \in Seq(Rule) /\ Len(more) = n + 1 /\ more[n + 1] = rule
      /\ \A k \in 1..n : more[k] = stack[k]
  BY <1>1, <1>2
<1>31. more # <<>>
  BY <1>2, <1>3
<1>4. PICK t : t = [k \in 1..(n + 1) |-> more[k].held]
  OBVIOUS
<1>5. PICK g : Joins(g, t, n + 1) /\ Awaited(more) = g[n + 1]
  BY <1>3, <1>31, <1>4, HeldTexts
<1>6. n + 1 \in 1..(n + 1) /\ t[n + 1] = rule.held /\ rule.held \in Seq(Nat)
  BY <1>3, <1>4 DEF Rule
<1>7. CASE stack = <<>>
  <2>1. n = 0 /\ [k \in DOMAIN stack |-> stack[k].held] = <<>>
    BY <1>2, <1>7
  <2>2. Awaited(stack) = <<>>
    BY <2>1 DEF Awaited, FlattenSeq
  <2>3. g[1] = t[1]
    BY <1>5, <1>6, <2>1 DEF Joins
  <2> QED BY <1>1, <1>5, <1>6, <2>1, <2>2, <2>3
<1>8. CASE stack # <<>>
  <2>1. PICK s : s = [k \in 1..n |-> stack[k].held]
    OBVIOUS
  <2>2. PICK f : Joins(f, s, n) /\ Awaited(stack) = f[n]
    BY <1>2, <1>8, <2>1, HeldTexts
  <2>3. n \in Nat \ {0} /\ n + 1 \in Nat /\ n <= n + 1
    BY <1>2, <1>8
  <2>4. \A k \in 1..n : s[k] = t[k]
    BY <1>3, <1>4, <2>1
  <2>5. f[n] = g[n]
    BY <1>5, <2>2, <2>3, <2>4, JoinsUnique
  <2>6. n + 1 # 1 /\ (n + 1) - 1 = n
    BY <2>3
  <2>7. g[n + 1] = g[n] \o t[n + 1]
    BY <1>5, <1>6, <2>6, Zenon DEF Joins
  <2> QED BY <1>1, <1>5, <1>6, <2>2, <2>5, <2>7
<1> QED BY <1>7, <1>8

LEMMA AwaitedFront ==
  ASSUME NEW stack \in Seq(Rule), stack # <<>>
  PROVE  /\ Front(stack) \in Seq(Rule) /\ Last(stack) \in Rule
         /\ Len(Front(stack)) = Len(stack) - 1
         /\ \A k \in 1..(Len(stack) - 1) : Front(stack)[k] = stack[k]
         /\ Awaited(stack) = Awaited(Front(stack)) \o Last(stack).held
<1>1. /\ Front(stack) \in Seq(Rule) /\ Last(stack) \in Rule
      /\ Len(Front(stack)) = Len(stack) - 1
      /\ \A k \in 1..(Len(stack) - 1) : Front(stack)[k] = stack[k]
  <2>1. PICK n \in Nat : Len(stack) = n + 1
    <3>1. Len(stack) \in Nat /\ Len(stack) # 0
      OBVIOUS
    <3>2. Len(stack) - 1 \in Nat /\ Len(stack) = (Len(stack) - 1) + 1
      BY <3>1
    <3> QED BY <3>2
  <2>2. \A k \in 1..(n + 1) : stack[k] \in Rule
    BY <2>1
  <2>3. PICK f : f = SubSeq(stack, 1, n)
    OBVIOUS
  <2>4. f \in Seq(Rule) /\ Len(f) = n /\ \A k \in 1..n : f[k] = stack[k]
    BY <2>1, <2>2, <2>3
  <2>5. Front(stack) = f /\ Last(stack) \in Rule
    BY <2>1, <2>2, <2>3 DEF Front, Last
  <2> QED BY <2>1, <2>4, <2>5
<1>2. stack = Append(Front(stack), Last(stack))
  <2>1. PICK n \in Nat, f \in Seq(Rule) : n = Len(stack) - 1 /\ f = Front(stack)
    BY <1>1
  <2>2. PICK t : t = Append(f, stack[n + 1])
    OBVIOUS
  <2>3. t \in Seq(Rule) /\ Len(t) = n + 1 /\ Len(stack) = n + 1
    BY <1>1, <2>1, <2>2 DEF Last
  <2>4. \A k \in 1..(n + 1) : k = n + 1 \/ k \in 1..n
    OBVIOUS
  <2>5. \A k \in 1..(n + 1) : t[k] = stack[k]
    BY <1>1, <2>1, <2>2, <2>4
  <2>6. stack = t
    BY <2>3, <2>5
  <2> QED BY <2>1, <2>2, <2>6 DEF Last
<1> QED BY <1>1, <1>2, AwaitedAppend

LEMMA AwaitedNone ==
  ASSUME NEW stack \in Seq(Rule), \A k \in 1..Len(stack) : stack[k].held = <<>>
  PROVE  Awaited(stack) = <<>>
<1>1. CASE stack = <<>>
  <2>1. [k \in DOMAIN stack |-> stack[k].held] = <<>>
    BY <1>1
  <2> QED BY <2>1 DEF Awaited, FlattenSeq
<1>2. CASE stack # <<>>
  <2>1. PICK n \in Nat \ {0} : n = Len(stack)
    BY <1>2
  <2>2. PICK s : s = [k \in 1..n |-> stack[k].held]
    OBVIOUS
  <2>3. PICK f : Joins(f, s, n) /\ Awaited(stack) = f[n]
    BY <1>2, <2>1, <2>2, HeldTexts
  <2>4. PICK S : S = {k \in 1..n : f[k] = <<>>}
    OBVIOUS
  <2>5. 1 \in S
    <3>1. 1 \in 1..n /\ s[1] = <<>>
      BY <2>1, <2>2
    <3>2. f[1] = s[1]
      BY <2>3, <3>1, Zenon DEF Joins
    <3> QED BY <2>4, <3>1, <3>2
  <2>6. ASSUME NEW k \in (1 + 1)..n, k - 1 \in S PROVE k \in S
    <3>1. k \in 1..n /\ k # 1 /\ s[k] = <<>> /\ f[k - 1] = <<>>
      BY <2>1, <2>2, <2>4, <2>6
    <3>2. f[k] = f[k - 1] \o s[k]
      BY <2>3, <3>1, Zenon DEF Joins
    <3>3. f[k] = <<>>
      BY <3>1, <3>2
    <3> QED BY <2>4, <3>1, <3>3
  <2>7. \A k \in 1..n : k \in S
    BY <2>5, <2>6, Through
  <2> QED BY <2>3, <2>4, <2>7
<1> QED BY <1>1, <1>2

-----------------------------------------------------------------------------
(* The parser's stack.                                                     *)

\* It awaits those of tokens from its first on.
Fits(rule, now) ==
  /\ rule \in Rule
  /\ Len(rule.held) = Texts(rule.what)
  /\ rule.at <= now
  /\ \A i \in 1..Len(rule.held) : rule.at <= rule.held[i]

Within(rule, outer) ==
  /\ outer.what \in Under
  /\ outer.at <= rule.at
  /\ rule.what \notin Expression => outer.what \notin Expression

Parameter == {"param", "param_ID", "param_ID[", "param_ID[]"}
Inside(rule, outer) ==
  rule.what # "program" /\ (rule.what \in Parameter => outer.what = "int_fun_id(")

Proper(stack, now) ==
  /\ stack \in Seq(Rule) /\ stack # <<>>
  /\ stack[1].what = "program"
  /\ \A k \in 1..Len(stack) : Fits(stack[k], now)
  /\ \A k \in 2..Len(stack) :
       Inside(stack[k], stack[k - 1]) /\ \A j \in 1..(k - 1) : Within(stack[k], stack[j])

LEMMA ProperFront ==
  ASSUME NEW stack, NEW now, Proper(stack, now), Last(stack).what # "program"
  PROVE  /\ Len(stack) \in Nat /\ Len(stack) >= 2
         /\ Proper(Front(stack), now)
         /\ Last(stack) \in Rule /\ Fits(Last(stack), now)
         /\ Within(Last(stack), Last(Front(stack))) /\ Inside(Last(stack), Last(Front(stack)))
         /\ Last(Front(stack)) = stack[Len(stack) - 1]
         /\ Awaited(Front(stack)) \in Seq(Nat)
         /\ Awaited(stack) = Awaited(Front(stack)) \o Last(stack).held
<1>1. stack \in Seq(Rule) /\ stack # <<>> /\ stack[1].what = "program"
  BY DEF Proper
<1>2. Len(stack) \in Nat /\ Len(stack) >= 2
  BY <1>1 DEF Last
<1>3. PICK f : f = Front(stack)
  OBVIOUS
<1>4. /\ f \in Seq(Rule) /\ Len(f) = Len(stack) - 1
      /\ \A k \in 1..(Len(stack) - 1) : f[k] = stack[k]
      /\ Last(stack) \in Rule /\ Awaited(stack) = Awaited(f) \o Last(stack).held
  BY <1>1, <1>3, AwaitedFront
<1>5. Last(f) = stack[Len(stack) - 1] /\ f # <<>> /\ f[1] = stack[1]
  BY <1>2, <1>4 DEF Last
<1>6. \A k \in 1..Len(f) : Fits(f[k], now)
  BY <1>2, <1>4 DEF Proper
<1>7. ASSUME NEW k \in 2..Len(f)
      PROVE  Inside(f[k], f[k - 1]) /\ \A j \in 1..(k - 1) : Within(f[k], f[j])
  <2>1. k \in 2..Len(stack) /\ f[k] = stack[k] /\ \A j \in 1..(k - 1) : f[j] = stack[j]
    BY <1>2, <1>4
  <2>2. k - 1 \in 1..(k - 1)
    OBVIOUS
  <2> QED BY <2>1, <2>2 DEF Proper
<1>8. Proper(f, now)
  BY <1>1, <1>4, <1>5, <1>6, <1>7 DEF Proper
<1>9. /\ Fits(Last(stack), now) /\ Within(Last(stack), stack[Len(stack) - 1])
      /\ Inside(Last(stack), stack[Len(stack) - 1])
  <2>1. Len(stack) \in 1..Len(stack) /\ Len(stack) \in 2..Len(stack)
        /\ Len(stack) - 1 \in 1..(Len(stack) - 1)
    BY <1>2
  <2> QED BY <2>1 DEF Proper, Last
<1>10. Awaited(f) \in Seq(Nat)
  BY <1>4, AwaitedType
<1> QED BY <1>2, <1>3, <1>4, <1>5, <1>8, <1>9, <1>10

LEMMA ProperAppend ==
  ASSUME NEW stack, NEW now, Proper(stack, now), NEW rule, Fits(rule, now),
         Inside(rule, Last(stack)), Within(rule, Last(stack))
  PROVE  /\ Proper(Append(stack, rule), now)
         /\ Last(Append(stack, rule)) = rule
         /\ Awaited(Append(stack, rule)) = Awaited(stack) \o rule.held
<1>1. stack \in Seq(Rule) /\ stack # <<>> /\ rule \in Rule
  BY DEF Proper, Fits
<1>2. PICK n \in Nat \ {0} : n = Len(stack)
  BY <1>1
<1>3. PICK more : more = Append(stack, rule)
  OBVIOUS
<1>4. /\ more \in Seq(Rule) /\ Len(more) = n + 1 /\ more[n + 1] = rule
      /\ \A k \in 1..n : more[k] = stack[k]
  BY <1>1, <1>2, <1>3
<1>5. \A k \in 1..(n + 1) : k = n + 1 \/ k \in 1..n
  OBVIOUS
<1>6. more # <<>> /\ more[1] = stack[1] /\ Last(more) = rule
  BY <1>4 DEF Last
<1>7. \A k \in 1..(n + 1) : Fits(more[k], now)
  BY <1>2, <1>4, <1>5 DEF Proper
<1>8. ASSUME NEW j \in 1..n PROVE Within(rule, stack[j])
  <2>1. CASE j = n
    BY <1>2, <2>1 DEF Last
  <2>2. CASE j # n
    <3>1. n \in 2..n /\ j \in 1..(n - 1)
      BY <2>2
    <3>2. Within(stack[n], stack[j]) /\ Within(rule, stack[n])
      BY <1>2, <3>1 DEF Proper, Last
    <3>3. rule.at \in Nat /\ stack[n].at \in Nat /\ stack[j].at \in Nat
      <4>1. rule \in Rule /\ stack[n] \in Rule /\ stack[j] \in Rule
        BY <1>1, <1>2
      <4> QED BY <4>1 DEF Rule
    <3> QED BY <3>2, <3>3 DEF Within
  <2> QED BY <2>1, <2>2
<1>9. ASSUME NEW k \in 2..(n + 1)
      PROVE  Inside(more[k], more[k - 1]) /\ \A j \in 1..(k - 1) : Within(more[k], more[j])
  <2>1. CASE k = n + 1
    <3>1. \A j \in 1..(k - 1) : j \in 1..n /\ more[j] = stack[j]
      BY <1>4, <2>1
    <3>2. k - 1 = n /\ more[k - 1] = Last(stack)
      BY <1>2, <1>4, <2>1 DEF Last
    <3> QED BY <1>4, <1>8, <2>1, <3>1, <3>2
  <2>2. CASE k # n + 1
    <3>1. k \in 2..n /\ more[k] = stack[k] /\ \A j \in 1..(k - 1) : more[j] = stack[j]
      BY <1>4, <2>2
    <3>2. k - 1 \in 1..(k - 1)
      OBVIOUS
    <3> QED BY <1>2, <3>1, <3>2 DEF Proper
  <2> QED BY <2>1, <2>2
<1>10. Proper(more, now)
  <2>1. stack[1].what = "program"
    BY DEF Proper
  <2> QED BY <1>4, <1>6, <1>7, <1>9, <2>1 DEF Proper
<1> QED BY <1>1, <1>3, <1>6, <1>10, AwaitedAppend

LEMMA ProperLater ==
  ASSUME NEW stack, NEW now \in Nat, NEW later \in Nat, now <= later, Proper(stack, now)
  PROVE  Proper(stack, later)
<1>1. ASSUME NEW k \in 1..Len(stack) PROVE Fits(stack[k], later)
  <2>1. Fits(stack[k], now) /\ stack[k].at \in Nat
    BY DEF Proper, Fits, Rule
  <2> QED BY <2>1 DEF Fits
<1> QED BY <1>1 DEF Proper

\* The part of the stack an error leaves.
LEMMA ProperCut ==
  ASSUME NEW stack, NEW now, Proper(stack, now), NEW k \in 1..Len(stack)
  PROVE  Proper(SubSeq(stack, 1, k), now) /\ Last(SubSeq(stack, 1, k)) = stack[k]
<1>1. PICK n \in Nat : n = Len(stack) /\ k \in 1..n
  BY DEF Proper
<1>2. PICK f : f = SubSeq(stack, 1, k)
  OBVIOUS
<1>3. stack \in Seq(Rule) /\ stack[1].what = "program"
  BY DEF Proper
<1>4. f \in Seq(Rule) /\ Len(f) = k /\ \A j \in 1..k : f[j] = stack[j] /\ j \in 1..n
  BY <1>1, <1>2, <1>3
<1>5. f # <<>> /\ f[1] = stack[1] /\ Last(f) = stack[k]
  BY <1>1, <1>4 DEF Last
<1>6. \A j \in 1..k : Fits(f[j], now)
  BY <1>1, <1>4 DEF Proper
<1>7. ASSUME NEW j \in 2..k
      PROVE  Inside(f[j], f[j - 1]) /\ \A i \in 1..(j - 1) : Within(f[j], f[i])
  <2>1. j \in 2..n /\ f[j] = stack[j] /\ \A i \in 1..(j - 1) : f[i] = stack[i]
    BY <1>1, <1>4
  <2>2. j - 1 \in 1..(j - 1)
    OBVIOUS
  <2> QED BY <1>1, <2>1, <2>2 DEF Proper
<1> QED BY <1>2, <1>3, <1>4, <1>5, <1>6, <1>7 DEF Proper

\* Outside expressions nothing else is awaited.
LEMMA NoneBelow ==
  ASSUME NEW stack, NEW now, Proper(stack, now), Last(stack).what \notin Expression
  PROVE  /\ Last(stack).what # "program" => Awaited(Front(stack)) = <<>>
         /\ Texts(Last(stack).what) = 0 => Awaited(stack) = <<>>
<1>1. PICK n \in Nat \ {0} : n = Len(stack) /\ stack \in Seq(Rule)
  BY DEF Proper
<1>2. ASSUME NEW j \in 1..(n - 1) PROVE stack[j].held = <<>>
  <2>1. n \in 2..n /\ j \in 1..n
    BY <1>2
  <2>2. Within(stack[n], stack[j]) /\ Fits(stack[j], now)
    BY <1>1, <2>1 DEF Proper
  <2>3. stack[j].what \in Under \ Expression
    BY <1>1, <2>2 DEF Within, Last
  <2>4. Texts(stack[j].what) = 0
    BY <2>3 DEF Under, ExpressionPlace, StatementPlace, Expression, Texts, OneText, TwoTexts
  <2>5. Len(stack[j].held) = 0 /\ stack[j].held \in Seq(Nat)
    BY <2>2, <2>4 DEF Fits, Rule
  <2> QED BY <2>5
<1>3. ASSUME Texts(stack[n].what) = 0 PROVE stack[n].held = <<>>
  <2>1. Fits(stack[n], now)
    BY <1>1 DEF Proper
  <2>2. Len(stack[n].held) = 0 /\ stack[n].held \in Seq(Nat)
    BY <1>3, <2>1 DEF Fits, Rule
  <2> QED BY <2>2
<1>4. ASSUME Texts(Last(stack).what) = 0 PROVE Awaited(stack) = <<>>
  <2>1. \A j \in 1..n : j = n \/ j \in 1..(n - 1)
    OBVIOUS
  <2>2. \A j \in 1..n : stack[j].held = <<>>
    BY <1>1, <1>2, <1>3, <1>4, <2>1 DEF Last
  <2> QED BY <1>1, <2>2, AwaitedNone
<1>5. Awaited(Front(stack)) = <<>>
  <2>1. /\ Front(stack) \in Seq(Rule) /\ Len(Front(stack)) = n - 1
        /\ \A k \in 1..(n - 1) : Front(stack)[k] = stack[k]
    BY <1>1, AwaitedFront
  <2>2. \A k \in 1..(n - 1) : Front(stack)[k].held = <<>>
    BY <1>2, <2>1
  <2> QED BY <2>1, <2>2, AwaitedNone
<1> QED BY <1>4, <1>5

\* The innermost rule in another form.
LEMMA ProperReplace ==
  ASSUME NEW stack, NEW now, Proper(stack, now), NEW rule, Fits(rule, now),
         Last(stack).what # "program", Last(stack).at <= rule.at,
         rule.what \notin Expression => Last(stack).what \notin Expression,
         rule.what # "program", rule.what \in Parameter => Last(stack).what \in Parameter
  PROVE  /\ Proper(Append(Front(stack), rule), now)
         /\ Last(Append(Front(stack), rule)) = rule
         /\ Awaited(Append(Front(stack), rule)) = Awaited(Front(stack)) \o rule.held
<1>1. /\ Proper(Front(stack), now)
      /\ Within(Last(stack), Last(Front(stack))) /\ Inside(Last(stack), Last(Front(stack)))
  BY ProperFront
<1>2. rule.at \in Nat /\ Last(stack).at \in Nat /\ Last(Front(stack)).at \in Nat
  <2>1. Last(stack) \in Rule /\ Proper(Front(stack), now) /\ rule \in Rule
    BY ProperFront DEF Fits
  <2>2. Last(Front(stack)) \in Rule
    BY <2>1, AwaitedFront DEF Proper
  <2> QED BY <2>1, <2>2 DEF Rule
<1>3. Within(rule, Last(Front(stack))) /\ Inside(rule, Last(Front(stack)))
  <2>1. PICK last, below : last = Last(stack) /\ below = Last(Front(stack))
    OBVIOUS
  <2>2. Within(last, below) /\ Inside(last, below)
    BY <1>1, <2>1
  <2>3. below.at <= rule.at
    <3>1. below.at <= last.at /\ last.at <= rule.at
      BY <2>1, <2>2 DEF Within
    <3>2. below.at \in Nat /\ last.at \in Nat /\ rule.at \in Nat
      BY <1>2, <2>1
    <3> QED BY <3>1, <3>2
  <2>4. Within(rule, below)
    BY <2>1, <2>2, <2>3, Zenon DEF Within
  <2>5. Inside(rule, below)
    BY <2>1, <2>2, Zenon DEF Inside
  <2> QED BY <2>1, <2>4, <2>5
<1>4. PICK front : front = Front(stack)
  OBVIOUS
<1>5. Proper(front, now) /\ Inside(rule, Last(front)) /\ Within(rule, Last(front))
  BY <1>1, <1>3, <1>4
<1>6. /\ Proper(Append(front, rule), now)
      /\ Last(Append(front, rule)) = rule
      /\ Awaited(Append(front, rule)) = Awaited(front) \o rule.held
  BY <1>5, ProperAppend
<1> QED BY <1>4, <1>6

\* The same texts, another name.
LEMMA ProperRename ==
  ASSUME NEW stack, NEW now, Proper(stack, now), NEW what \in What,
         NEW rule, rule = [Last(stack) EXCEPT !.what = what],
         Texts(what) = Texts(Last(stack).what), Last(stack).what # "program",
         what \notin Expression => Last(stack).what \notin Expression,
         what # "program", what \in Parameter => Last(stack).what \in Parameter
  PROVE  /\ Proper(Append(Front(stack), rule), now)
         /\ Last(Append(Front(stack), rule)) = rule
         /\ Awaited(Append(Front(stack), rule)) = Awaited(stack)
<1>1. PICK last \in Rule : last = Last(stack) /\ Fits(last, now)
  BY ProperFront
<1>2. rule \in Rule /\ rule.what = what /\ rule.at = last.at /\ rule.held = last.held
      /\ last.at \in Nat
  BY <1>1 DEF Rule
<1>3. Fits(rule, now) /\ last.at <= rule.at
  BY <1>1, <1>2 DEF Fits
<1>4. PICK front : front = Front(stack)
  OBVIOUS
<1>5. Awaited(stack) = Awaited(front) \o rule.held
  BY <1>1, <1>2, <1>4, ProperFront
<1>6. /\ Proper(Append(front, rule), now)
      /\ Last(Append(front, rule)) = rule
      /\ Awaited(Append(front, rule)) = Awaited(front) \o rule.held
  <2>1. /\ Last(stack).what # "program" /\ Last(stack).at <= rule.at
        /\ rule.what \notin Expression => Last(stack).what \notin Expression
        /\ rule.what # "program"
        /\ rule.what \in Parameter => Last(stack).what \in Parameter
    BY <1>1, <1>2, <1>3
  <2>2. /\ Proper(Append(Front(stack), rule), now)
        /\ Last(Append(Front(stack), rule)) = rule
        /\ Awaited(Append(Front(stack), rule)) = Awaited(Front(stack)) \o rule.held
    BY <1>3, <2>1, ProperReplace
  <2> QED BY <1>4, <2>2
<1> QED BY <1>4, <1>5, <1>6

\* The innermost rule complete, with no text awaited.
LEMMA ProperClose ==
  ASSUME NEW stack, NEW now, Proper(stack, now), Last(stack).what # "program",
         Texts(Last(stack).what) = 0
  PROVE  /\ Last(stack).held = <<>>
         /\ Proper(Front(stack), now) /\ Last(Front(stack)).what \in Under
         /\ Awaited(Front(stack)) = Awaited(stack)
<1>1. Fits(Last(stack), now)
  BY ProperFront
<1>2. Len(Last(stack).held) = 0 /\ Last(stack).held \in Seq(Nat)
  BY <1>1 DEF Fits, Rule
<1>3. Last(stack).held = <<>>
  BY <1>2
<1>4. PICK front : front = Front(stack)
  OBVIOUS
<1>5. /\ Proper(front, now) /\ Awaited(front) \in Seq(Nat)
      /\ Awaited(stack) = Awaited(front) \o Last(stack).held
      /\ Within(Last(stack), Last(front))
  BY <1>4, ProperFront
<1>6. Awaited(front) = Awaited(stack)
  BY <1>3, <1>5
<1> QED BY <1>3, <1>4, <1>5, <1>6 DEF Within

-----------------------------------------------------------------------------
(* Statements and operands that are complete. *)

LEMMA StatementDone ==
  ASSUME NEW stack, NEW now, Proper(stack, now), Last(stack).what \in Under
  PROVE  /\ Proper(Statement(stack), now)
         /\ Last(Statement(stack)).what \in Under \cup {"if(e)s"}
         /\ Awaited(Statement(stack)) = Awaited(stack)
<1>1. CASE Last(stack).what = "if(e)"
  <2>0. PICK what \in What : what = "if(e)s"
    BY DEF What
  <2>1. PICK rule : rule = [Last(stack) EXCEPT !.what = what]
    OBVIOUS
  <2>2. /\ Texts(what) = Texts(Last(stack).what)
        /\ Last(stack).what # "program"
        /\ Last(stack).what \notin Expression
        /\ what # "program" /\ what \notin Parameter
    BY <1>1, <2>0 DEF Texts, OneText, TwoTexts, Expression, Parameter
  <2>3. /\ Proper(Append(Front(stack), rule), now)
        /\ Last(Append(Front(stack), rule)) = rule
        /\ Awaited(Append(Front(stack), rule)) = Awaited(stack)
    BY <2>1, <2>2, ProperRename
  <2>4. Last(stack) \in Rule
    BY <2>2, ProperFront
  <2>5. rule.what = "if(e)s"
    BY <2>0, <2>1, <2>4 DEF Rule
  <2> QED BY <1>1, <2>0, <2>1, <2>3, <2>5 DEF Statement
<1>2. CASE Last(stack).what # "if(e)"
  BY <1>2 DEF Statement
<1> QED BY <1>1, <1>2

LEMMA OperandDone ==
  ASSUME NEW stack, NEW now, Proper(stack, now), Last(stack).what \in Under,
         NEW what \in {"var", "e"}, NEW at \in Nat, Last(stack).at <= at, at <= now
  PROVE  /\ Proper(Operand(stack, what, at), now)
         /\ Last(Operand(stack, what, at)).what \in {"var", "e"}
         /\ Last(Operand(stack, what, at)).at <= at
         /\ Awaited(Operand(stack, what, at)) = Awaited(stack)
<1>0. Last(stack) \in Rule /\ Fits(Last(stack), now) /\ Awaited(stack) \in Seq(Nat)
  <2>1. Len(stack) \in 1..Len(stack) /\ stack \in Seq(Rule)
    BY DEF Proper
  <2> QED BY <2>1, AwaitedType DEF Proper, Last
<1>1. ASSUME NEW kind \in {"var", "e"}, NEW first \in Nat, first <= now
      PROVE  /\ Fits(Open(kind, first, <<>>), now)
             /\ Open(kind, first, <<>>).what = kind /\ kind \in Expression /\ kind # "program"
             /\ kind \notin Parameter
             /\ Open(kind, first, <<>>).at = first /\ Open(kind, first, <<>>).held = <<>>
  <2>1. PICK rule : rule = Open(kind, first, <<>>)
    OBVIOUS
  <2>2. rule \in Rule /\ rule.what = kind /\ rule.at = first /\ rule.held = <<>>
    <3>1. kind \in What
      BY DEF What, Expression
    <3>2. <<>> \in Seq(Nat)
      OBVIOUS
    <3> QED BY <2>1, <3>1, <3>2 DEF Open, Rule
  <2>3. kind \in Expression /\ kind # "program" /\ kind \notin Parameter /\ Texts(kind) = 0
    BY DEF Texts, OneText, TwoTexts, Expression, Parameter
  <2>4. Fits(rule, now)
    BY <1>1, <2>2, <2>3 DEF Fits
  <2> QED BY <2>1, <2>2, <2>3, <2>4
<1>2. CASE Last(stack).what \in {"+", "="}
  <2>1. PICK kind \in {"var", "e"} :
          Operand(stack, what, at) = Append(Front(stack), Open(kind, Last(stack).at, <<>>))
    BY <1>2 DEF Operand
  <2>2. /\ Last(stack).what # "program" /\ Texts(Last(stack).what) = 0
        /\ Last(stack).what \in Expression
    BY <1>2 DEF Texts, OneText, TwoTexts, Expression
  <2>3. Last(stack).at \in Nat /\ Last(stack).at <= now
    BY <1>0 DEF Rule, Fits
  <2>4. PICK rule : rule = Open(kind, Last(stack).at, <<>>)
    OBVIOUS
  <2>5. /\ Fits(rule, now) /\ rule.what = kind /\ rule.what \in Expression
        /\ rule.what # "program" /\ rule.what \notin Parameter
        /\ rule.at = Last(stack).at /\ rule.held = <<>>
    BY <1>1, <2>3, <2>4
  <2>6. Last(stack).at <= rule.at
    BY <2>3, <2>5
  <2>7. /\ Proper(Append(Front(stack), rule), now)
        /\ Last(Append(Front(stack), rule)) = rule
        /\ Awaited(Append(Front(stack), rule)) = Awaited(Front(stack)) \o rule.held
    BY <2>2, <2>5, <2>6, ProperReplace
  <2>8. Awaited(Front(stack)) = Awaited(stack)
    BY <2>2, ProperClose
  <2>9. Awaited(Append(Front(stack), rule)) = Awaited(stack)
    BY <1>0, <2>5, <2>7, <2>8
  <2> QED BY <2>1, <2>3, <2>4, <2>5, <2>7, <2>9
<1>3. CASE Last(stack).what \notin {"+", "="}
  <2>1. PICK rule : rule = Open(what, at, <<>>)
    OBVIOUS
  <2>2. Operand(stack, what, at) = Append(stack, rule)
    BY <1>3, <2>1 DEF Operand
  <2>3. /\ Fits(rule, now) /\ rule.what = what /\ what \in Expression
        /\ what # "program" /\ what \notin Parameter
        /\ rule.at = at /\ rule.held = <<>>
    BY <1>1, <2>1
  <2>4. Within(rule, Last(stack)) /\ Inside(rule, Last(stack))
    BY <2>3 DEF Within, Inside
  <2>5. /\ Proper(Append(stack, rule), now)
        /\ Last(Append(stack, rule)) = rule
        /\ Awaited(Append(stack, rule)) = Awaited(stack) \o rule.held
    BY <2>3, <2>4, ProperAppend
  <2>6. Awaited(Append(stack, rule)) = Awaited(stack)
    BY <1>0, <2>3, <2>5
  <2> QED BY <2>2, <2>3, <2>5, <2>6
<1> QED BY <1>2, <1>3

-----------------------------------------------------------------------------
(* What shifting a token does. *)

Named == {"ID", "NUM"}
Refusing == {"var", "e", "int_fun_id", "int_fun_id(params"}

LEMMA ContinuesFacts ==
  ASSUME NEW r \in Continues
  PROVE  /\ r[3] \in What /\ r[3] # "program" /\ r[1] # "program"
         /\ r[2] \in Named => Texts(r[3]) = Texts(r[1]) + 1
         /\ r[2] \notin Named => Texts(r[3]) = Texts(r[1])
         /\ r[3] \notin Expression => r[1] \notin Expression
         /\ r[3] \in Parameter => r[1] \in Parameter
         /\ r[3] \in Recovering => r[1] \in Recovering
         /\ r[1] \in Refusing \cup Recovering => r[2] \notin Named
BY DEF Continues, What, Under, ExpressionPlace, StatementPlace, Expression, OneText, TwoTexts,
       Parameter, Recovering, Refusing, Named, Texts

LEMMA BeginsFacts ==
  ASSUME NEW r \in Begins
  PROVE  /\ r[3] \in What /\ r[3] # "program" /\ r[1] \in Under
         /\ r[2] \in Named => Texts(r[3]) = 1
         /\ r[2] \notin Named => Texts(r[3]) = 0
         /\ r[3] \notin Expression => r[1] \notin Expression
         /\ r[3] \in Parameter => r[1] = "int_fun_id("
         /\ r[3] \notin Recovering
         /\ r[1] \notin Refusing \cup Recovering
BY DEF Begins, What, Under, ExpressionPlace, StatementPlace, Expression, OneText, TwoTexts,
       Parameter, Recovering, Refusing, Named, Texts

\* The stack after a token: it awaits its text, if any, after the others.
After(stack, token) ==
  /\ Proper(stack, read)
  /\ Awaited(stack) = Awaited(symbols) \o Text(token)
  /\ Last(stack).what \in Recovering => Top.what \in Recovering
  /\ Top.what \in Refusing \cup Recovering => token.kind \notin Named

LEMMA TextFacts ==
  ASSUME NEW token, token.n \in Nat
  PROVE  /\ Text(token) \in Seq(Nat)
         /\ token.kind \in Named => Text(token) = <<token.n>>
         /\ token.kind \notin Named => Text(token) = <<>>
BY DEF Text, Named

LEMMA TopFacts ==
  ASSUME read \in Nat, Proper(symbols, read)
  PROVE  /\ Top \in Rule /\ Fits(Top, read) /\ Awaited(symbols) \in Seq(Nat)
         /\ Top.at \in Nat /\ Top.at <= read /\ Top.held \in Seq(Nat) /\ Top.what \in What
         /\ Len(Top.held) = Texts(Top.what)
<1>1. symbols \in Seq(Rule) /\ Len(symbols) \in 1..Len(symbols)
  BY DEF Proper
<1>2. Top \in Rule /\ Fits(Top, read)
  BY <1>1 DEF Proper, Top, Last
<1> QED BY <1>1, <1>2, AwaitedType DEF Rule, Fits

LEMMA AfterContinues ==
  ASSUME read \in Nat, Proper(symbols, read), NEW token, token.n = read,
         NEW r \in Continues, r[1] = Top.what, r[2] = token.kind
  PROVE  After(Replace(r[3], Top.held \o Text(token)), token)
<1>1. PICK top \in Rule : top = Top /\ Fits(top, read) /\ Awaited(symbols) \in Seq(Nat)
  BY TopFacts
<1>2. PICK text \in Seq(Nat) : /\ text = Text(token)
                               /\ token.kind \in Named => text = <<read>>
                               /\ token.kind \notin Named => text = <<>>
  BY TextFacts
<1>3. PICK rule : rule = Open(r[3], Top.at, Top.held \o Text(token))
  OBVIOUS
<1>4. PICK held : held = top.held \o text
  OBVIOUS
<1>5. /\ top.at \in Nat /\ top.at <= read /\ top.held \in Seq(Nat)
      /\ Len(top.held) = Texts(r[1])
      /\ \A i \in 1..Len(top.held) : top.at <= top.held[i]
  BY <1>1 DEF Rule, Fits
<1>6. Len(held) = Texts(r[3]) /\ held \in Seq(Nat) /\ \A i \in 1..Len(held) : top.at <= held[i]
  <2>1. CASE token.kind \in Named
    <3>1. Texts(r[3]) = Texts(r[1]) + 1 /\ text = <<read>>
      BY <1>2, <2>1, ContinuesFacts
    <3>2. held = Append(top.held, read)
      BY <1>4, <1>5, <3>1
    <3>3. \A i \in 1..Len(held) : i = Len(held) \/ i \in 1..Len(top.held)
      BY <1>5, <3>2
    <3> QED BY <1>5, <3>1, <3>2, <3>3
  <2>2. CASE token.kind \notin Named
    <3>1. Texts(r[3]) = Texts(r[1]) /\ text = <<>>
      BY <1>2, <2>2, ContinuesFacts
    <3>2. held = top.held
      BY <1>4, <1>5, <3>1
    <3> QED BY <1>5, <3>1, <3>2
  <2> QED BY <2>1, <2>2
<1>7. rule.what = r[3] /\ rule.at = top.at /\ rule.held = held /\ rule \in Rule
  <2>1. r[3] \in What
    BY ContinuesFacts
  <2> QED BY <1>1, <1>2, <1>3, <1>4, <1>5, <1>6, <2>1 DEF Open, Rule
<1>8. Fits(rule, read)
  BY <1>5, <1>6, <1>7 DEF Fits
<1>9. /\ Last(symbols).what # "program" /\ Last(symbols).at <= rule.at
      /\ rule.what \notin Expression => Last(symbols).what \notin Expression
      /\ rule.what # "program"
      /\ rule.what \in Parameter => Last(symbols).what \in Parameter
  BY <1>1, <1>5, <1>7, ContinuesFacts DEF Top
<1>10. PICK front : front = Front(symbols)
  OBVIOUS
<1>11. /\ Proper(Append(front, rule), read)
       /\ Last(Append(front, rule)) = rule
       /\ Awaited(Append(front, rule)) = Awaited(front) \o rule.held
  <2>1. /\ Proper(Append(Front(symbols), rule), read)
        /\ Last(Append(Front(symbols), rule)) = rule
        /\ Awaited(Append(Front(symbols), rule)) = Awaited(Front(symbols)) \o rule.held
    BY <1>8, <1>9, ProperReplace
  <2> QED BY <1>10, <2>1
<1>12. Awaited(front) \in Seq(Nat) /\ Awaited(symbols) = Awaited(front) \o top.held
  BY <1>1, <1>9, <1>10, ProperFront DEF Top
<1>13. Awaited(front) \o rule.held = Awaited(symbols) \o text
  <2>1. PICK a, h : a = Awaited(front) /\ h = top.held
    OBVIOUS
  <2>2. a \in Seq(Nat) /\ h \in Seq(Nat) /\ text \in Seq(Nat)
    BY <1>5, <1>12, <2>1
  <2>3. a \o (h \o text) = (a \o h) \o text
    BY <2>2, SMTT(30)
  <2> QED BY <1>4, <1>7, <1>12, <2>1, <2>3, Zenon
<1>14. Replace(r[3], Top.held \o Text(token)) = Append(front, rule)
  BY <1>3, <1>10 DEF Replace
<1>15. /\ rule.what \in Recovering => Top.what \in Recovering
       /\ Top.what \in Refusing \cup Recovering => token.kind \notin Named
  BY <1>7, ContinuesFacts
<1>16. /\ Proper(Append(front, rule), read)
       /\ Awaited(Append(front, rule)) = Awaited(symbols) \o Text(token)
       /\ Last(Append(front, rule)).what \in Recovering => Top.what \in Recovering
  BY <1>2, <1>11, <1>13, <1>15, Zenon
<1>17. After(Append(front, rule), token)
  BY <1>15, <1>16, Zenon DEF After
<1> QED BY <1>14, <1>17, Zenon

LEMMA AfterBegins ==
  ASSUME read \in Nat, Proper(symbols, read), NEW token, token.n = read,
         NEW r \in Begins, r[1] = Top.what, r[2] = token.kind
  PROVE  After(Append(symbols, Open(r[3], token.n, Text(token))), token)
<1>1. PICK text \in Seq(Nat) : /\ text = Text(token)
                               /\ token.kind \in Named => text = <<read>>
                               /\ token.kind \notin Named => text = <<>>
  BY TextFacts
<1>2. PICK rule : rule = Open(r[3], token.n, Text(token))
  OBVIOUS
<1>3. rule.what = r[3] /\ rule.at = read /\ rule.held = text /\ rule \in Rule
  <2>1. r[3] \in What
    BY BeginsFacts
  <2> QED BY <1>1, <1>2, <2>1 DEF Open, Rule
<1>4. Len(text) = Texts(r[3]) /\ \A i \in 1..Len(text) : text[i] = read
  <2>1. CASE token.kind \in Named
    <3>1. Texts(r[3]) = 1 /\ text = <<read>>
      BY <1>1, <2>1, BeginsFacts
    <3> QED BY <3>1
  <2>2. CASE token.kind \notin Named
    <3>1. Texts(r[3]) = 0 /\ text = <<>>
      BY <1>1, <2>2, BeginsFacts
    <3> QED BY <3>1
  <2> QED BY <2>1, <2>2
<1>5. Fits(rule, read)
  BY <1>3, <1>4 DEF Fits
<1>6. Inside(rule, Top) /\ Within(rule, Top)
  <2>1. Top.at <= read
    BY TopFacts
  <2> QED BY <1>3, <2>1, BeginsFacts DEF Inside, Within
<1>7. /\ Proper(Append(symbols, rule), read)
      /\ Last(Append(symbols, rule)) = rule
      /\ Awaited(Append(symbols, rule)) = Awaited(symbols) \o rule.held
  BY <1>5, <1>6, ProperAppend DEF Top
<1>8. /\ rule.what \notin Recovering
      /\ Top.what \in Refusing \cup Recovering => token.kind \notin Named
  BY <1>3, BeginsFacts
<1>9. /\ Awaited(Append(symbols, rule)) = Awaited(symbols) \o Text(token)
      /\ Last(Append(symbols, rule)).what \in Recovering => Top.what \in Recovering
  BY <1>1, <1>3, <1>7, <1>8, Zenon
<1>10. After(Append(symbols, rule), token)
  BY <1>7, <1>8, <1>9, Zenon DEF After
<1> QED BY <1>2, <1>10, Zenon

LEMMA NotRecovering ==
  ASSUME NEW what, what \in Under \cup {"if(e)s", "var", "e", "+", "=", "ID[e]"}
  PROVE  what \notin Recovering
BY DEF Under, ExpressionPlace, StatementPlace, Recovering

\* A token without a text that closes something.
LEMMA AfterNoText ==
  ASSUME NEW token, token.kind \notin Named, token.n \in Nat,
         NEW stack, Proper(stack, read), Awaited(stack) = Awaited(symbols),
         Awaited(symbols) \in Seq(Nat), Last(stack).what \notin Recovering
  PROVE  After(stack, token)
<1>1. PICK a \in Seq(Nat) : a = Awaited(symbols)
  OBVIOUS
<1>2. Text(token) = <<>>
  BY TextFacts
<1>3. a \o <<>> = a
  OBVIOUS
<1>4. Awaited(stack) = Awaited(symbols) \o Text(token)
  BY <1>1, <1>2, <1>3, Zenon
<1> QED BY <1>4, Zenon DEF After

LEMMA OpenExpression ==
  ASSUME read \in Nat, Proper(symbols, read), Top.what \in {"var", "e"},
         NEW what \in {"+", "="}
  PROVE  /\ Proper(Replace(what, <<>>), read)
         /\ Last(Replace(what, <<>>)).what = what
         /\ Awaited(Replace(what, <<>>)) = Awaited(symbols)
<1>1. PICK rule : rule = Open(what, Top.at, <<>>)
  OBVIOUS
<1>2. Top.at \in Nat /\ Top.at <= read /\ Awaited(symbols) \in Seq(Nat)
  BY TopFacts
<1>3. /\ what \in What /\ Texts(what) = 0 /\ what # "program" /\ what \in Expression
      /\ what \notin Parameter
      /\ Top.what # "program" /\ Texts(Top.what) = 0 /\ Top.what \in Expression
  BY DEF What, Expression, Texts, OneText, TwoTexts, Parameter
<1>4. rule \in Rule /\ rule.what = what /\ rule.at = Top.at /\ rule.held = <<>>
  BY <1>1, <1>2, <1>3 DEF Open, Rule
<1>5. Fits(rule, read) /\ Last(symbols).at <= rule.at
  BY <1>2, <1>3, <1>4 DEF Fits, Top
<1>6. PICK front : front = Front(symbols)
  OBVIOUS
<1>7. /\ Proper(Append(front, rule), read)
      /\ Last(Append(front, rule)) = rule
      /\ Awaited(Append(front, rule)) = Awaited(front) \o rule.held
  <2>1. /\ Last(symbols).what # "program" /\ rule.what # "program"
        /\ rule.what \notin Expression => Last(symbols).what \notin Expression
        /\ rule.what \in Parameter => Last(symbols).what \in Parameter
    BY <1>3, <1>4 DEF Top
  <2>2. /\ Proper(Append(Front(symbols), rule), read)
        /\ Last(Append(Front(symbols), rule)) = rule
        /\ Awaited(Append(Front(symbols), rule)) = Awaited(Front(symbols)) \o rule.held
    BY <1>5, <2>1, ProperReplace
  <2> QED BY <1>6, <2>2
<1>8. Awaited(front) = Awaited(symbols)
  BY <1>3, <1>6, ProperClose DEF Top
<1>9. Awaited(front) \o rule.held = Awaited(front)
  BY <1>2, <1>4, <1>8
<1>10. Replace(what, <<>>) = Append(front, rule)
  BY <1>1, <1>6 DEF Replace
<1> QED BY <1>4, <1>7, <1>8, <1>9, <1>10

\* The rule an expression is in, once it is complete.
LEMMA OuterRule ==
  ASSUME Proper(symbols, read), Top.what # "program", Texts(Top.what) = 0
  PROVE  /\ Proper(Front(symbols), read) /\ Below = Last(Front(symbols))
         /\ Below.what \in Under /\ Awaited(Front(symbols)) = Awaited(symbols)
<1>1. /\ Last(Front(symbols)) = symbols[Len(symbols) - 1]
      /\ Proper(Front(symbols), read) /\ Last(Front(symbols)).what \in Under
      /\ Awaited(Front(symbols)) = Awaited(symbols)
  BY ProperFront, ProperClose DEF Top
<1> QED BY <1>1 DEF Below

LEMMA RenameOuter ==
  ASSUME read \in Nat, Proper(symbols, read), Top.what \in {"var", "e"},
         NEW what,
         \/ what = "if(e)" /\ Below.what = "if("
         \/ what = "call(args" /\ Below.what \in {"call(", "call(args"}
         \/ what = "ID[e]" /\ Below.what = "ID[",
         NEW stack, stack = Append(Front(Front(symbols)), [Below EXCEPT !.what = what])
  PROVE  /\ Proper(stack, read) /\ Awaited(stack) = Awaited(symbols)
         /\ Last(stack).what \notin Recovering
<1>1. Top.what # "program" /\ Texts(Top.what) = 0
  BY DEF Texts, OneText, TwoTexts
<1>2. PICK front : front = Front(symbols)
  OBVIOUS
<1>3. Proper(front, read) /\ Below = Last(front) /\ Awaited(front) = Awaited(symbols)
  BY <1>1, <1>2, OuterRule
<1>4. PICK rule : rule = [Last(front) EXCEPT !.what = what]
  OBVIOUS
<1>5. /\ what \in What /\ Texts(what) = Texts(Below.what) /\ Below.what # "program"
      /\ what \notin Expression => Below.what \notin Expression
      /\ what # "program" /\ what \notin Parameter /\ what \notin Recovering
  BY DEF What, Under, ExpressionPlace, StatementPlace, Expression, Texts, OneText, TwoTexts,
         Parameter, Recovering
<1>6. /\ Proper(Append(Front(front), rule), read)
      /\ Last(Append(Front(front), rule)) = rule
      /\ Awaited(Append(Front(front), rule)) = Awaited(front)
  BY <1>3, <1>4, <1>5, ProperRename
<1>7. rule.what = what
  <2>1. Last(front) \in Rule
    BY <1>3, <1>5, ProperFront
  <2> QED BY <1>4, <2>1 DEF Rule
<1>8. stack = Append(Front(front), rule)
  BY <1>2, <1>3, <1>4
<1> QED BY <1>3, <1>5, <1>6, <1>7, <1>8

\* What is in parentheses, or a call, is an operand.
LEMMA OperandOf ==
  ASSUME NEW stack, Proper(stack, read),
         Last(stack).what \in {"(", "call(", "call(args"},
         NEW new, new = Operand(Front(stack), "e", Last(stack).at)
  PROVE  /\ Proper(new, read) /\ Awaited(new) = Awaited(stack)
         /\ Last(new).what \notin Recovering
<1>1. Last(stack).what # "program" /\ Texts(Last(stack).what) = 0
  BY DEF Texts, OneText, TwoTexts
<1>2. PICK front, last : front = Front(stack) /\ last = Last(stack)
  OBVIOUS
<1>3. /\ Proper(front, read) /\ Last(front).what \in Under
      /\ Awaited(front) = Awaited(stack) /\ Within(last, Last(front))
      /\ last \in Rule /\ Fits(last, read)
  BY <1>1, <1>2, ProperFront, ProperClose
<1>4. last.at \in Nat /\ Last(front).at <= last.at /\ last.at <= read /\ "e" \in {"var", "e"}
  BY <1>3 DEF Rule, Within, Fits
<1>5. /\ Proper(Operand(front, "e", last.at), read)
      /\ Last(Operand(front, "e", last.at)).what \in {"var", "e"}
      /\ Awaited(Operand(front, "e", last.at)) = Awaited(front)
  BY <1>3, <1>4, OperandDone
<1>6. new = Operand(front, "e", last.at)
  BY <1>2
<1> QED BY <1>3, <1>5, <1>6, NotRecovering

LEMMA AfterAnExpression ==
  ASSUME read \in Nat, Proper(symbols, read), Top.what \in {"var", "e"},
         NEW token, token.n = read, NEW stack, stack \in AfterExpression(token.kind)
  PROVE  After(stack, token)
<1>1. Awaited(symbols) \in Seq(Nat)
  BY TopFacts
<1>2. Top.what # "program" /\ Texts(Top.what) = 0
  BY DEF Texts, OneText, TwoTexts
<1>3. PICK front, outer : front = Front(symbols) /\ outer = Front(Front(symbols))
  OBVIOUS
<1>4. /\ Proper(front, read) /\ Below = Last(front) /\ Below.what \in Under
      /\ Awaited(front) = Awaited(symbols)
  BY <1>2, <1>3, OuterRule
<1>5. /\ token.kind \notin Named
      /\ \/ stack \in {Replace("+", <<>>), Replace("=", <<>>)}
         \/ /\ Below.what = "if("
            /\ stack = Append(outer, [Below EXCEPT !.what = "if(e)"])
         \/ /\ Below.what \in {"(", "call(", "call(args"}
            /\ stack = Operand(outer, "e", Below.at)
         \/ /\ Below.what \in {"call(", "call(args"}
            /\ stack = Append(outer, [Below EXCEPT !.what = "call(args"])
         \/ /\ Below.what = "ID["
            /\ stack = Append(outer, [Below EXCEPT !.what = "ID[e]"])
         \/ stack = Statement(front)
  BY <1>3 DEF AfterExpression, Named
<1>6. Proper(stack, read) /\ Awaited(stack) = Awaited(symbols) /\ Last(stack).what \notin Recovering
  <2>1. CASE stack \in {Replace("+", <<>>), Replace("=", <<>>)}
    <3>1. PICK what \in {"+", "="} : stack = Replace(what, <<>>)
      BY <2>1
    <3> QED BY <3>1, OpenExpression, NotRecovering
  <2>2. CASE /\ Below.what = "if("
             /\ stack = Append(outer, [Below EXCEPT !.what = "if(e)"])
    <3>1. PICK what : what = "if(e)"
      OBVIOUS
    <3> QED BY <1>3, <2>2, <3>1, RenameOuter
  <2>3. CASE /\ Below.what \in {"(", "call(", "call(args"}
             /\ stack = Operand(outer, "e", Below.at)
    BY <1>3, <1>4, <2>3, OperandOf
  <2>4. CASE /\ Below.what \in {"call(", "call(args"}
             /\ stack = Append(outer, [Below EXCEPT !.what = "call(args"])
    <3>1. PICK what : what = "call(args"
      OBVIOUS
    <3> QED BY <1>3, <2>4, <3>1, RenameOuter
  <2>5. CASE /\ Below.what = "ID["
             /\ stack = Append(outer, [Below EXCEPT !.what = "ID[e]"])
    <3>1. PICK what : what = "ID[e]"
      OBVIOUS
    <3> QED BY <1>3, <2>5, <3>1, RenameOuter
  <2>6. CASE stack = Statement(front)
    BY <1>4, <2>6, StatementDone, NotRecovering
  <2> QED BY <1>5, <2>1, <2>2, <2>3, <2>4, <2>5, <2>6
<1>7. token.n \in Nat
  OBVIOUS
<1> QED BY <1>1, <1>5, <1>6, <1>7, AfterNoText

LEMMA AfterClosing ==
  ASSUME read \in Nat, Proper(symbols, read), NEW token, token.n = read,
         NEW stack, stack \in Closes(token.kind)
  PROVE  After(stack, token)
<1>1. Awaited(symbols) \in Seq(Nat)
  BY TopFacts
<1>2. PICK front : front = Front(symbols)
  OBVIOUS
<1>3. /\ token.kind \notin Named
      /\ \/ Top.what = "call(" /\ stack = Operand(front, "e", Top.at)
         \/ Top.what \in StatementPlace /\ stack = Statement(symbols)
         \/ /\ Top.what = "list"
            /\ Below.what = "int_fun_id(params)" /\ stack = Front(front)
         \/ Top.what \in {"list", "error"} /\ stack = Statement(front)
         \/ Top.what \in {"int_error", "int_error]"} /\ stack = front
  BY <1>2 DEF Closes, Named
<1>4. ASSUME Top.what \in {"list", "error", "int_error", "int_error]"}
      PROVE  /\ Proper(front, read) /\ Below = Last(front) /\ Below.what \in Under
             /\ Awaited(front) = Awaited(symbols)
  <2>1. Top.what # "program" /\ Texts(Top.what) = 0
    BY <1>4 DEF Texts, OneText, TwoTexts
  <2> QED BY <1>2, <2>1, OuterRule
<1>5. Proper(stack, read) /\ Awaited(stack) = Awaited(symbols) /\ Last(stack).what \notin Recovering
  <2>1. CASE Top.what = "call(" /\ stack = Operand(front, "e", Top.at)
    BY <1>2, <2>1, OperandOf DEF Top
  <2>2. CASE Top.what \in StatementPlace /\ stack = Statement(symbols)
    <3>1. Last(symbols).what \in Under
      BY <2>2 DEF Top, Under, ExpressionPlace
    <3> QED BY <2>2, <3>1, StatementDone, NotRecovering
  <2>3. CASE /\ Top.what = "list"
             /\ Below.what = "int_fun_id(params)" /\ stack = Front(front)
    <3>1. Last(front).what # "program" /\ Texts(Last(front).what) = 0
      BY <1>4, <2>3 DEF Texts, OneText, TwoTexts
    <3>2. /\ Proper(Front(front), read) /\ Last(Front(front)).what \in Under
          /\ Awaited(Front(front)) = Awaited(front)
      BY <1>4, <2>3, <3>1, ProperClose
    <3> QED BY <1>4, <2>3, <3>2, NotRecovering
  <2>4. CASE Top.what \in {"list", "error"} /\ stack = Statement(front)
    BY <1>4, <2>4, StatementDone, NotRecovering
  <2>5. CASE Top.what \in {"int_error", "int_error]"} /\ stack = front
    BY <1>4, <2>5, NotRecovering
  <2> QED BY <1>3, <2>1, <2>2, <2>3, <2>4, <2>5
<1>6. token.n \in Nat
  OBVIOUS
<1> QED BY <1>1, <1>3, <1>5, <1>6, AfterNoText

LEMMA AfterShift ==
  ASSUME read \in Nat, Proper(symbols, read), NEW token, token.n = read,
         NEW stack, stack \in Shifted(token)
  PROVE  After(stack, token)
<1>1. \/ \E r \in Continues : /\ r[1] = Top.what /\ r[2] = token.kind
                              /\ stack = Replace(r[3], Top.held \o Text(token))
      \/ \E r \in Begins : /\ r[1] = Top.what /\ r[2] = token.kind
                           /\ stack = Append(symbols, Open(r[3], token.n, Text(token)))
      \/ Top.what \in {"var", "e"} /\ stack \in AfterExpression(token.kind)
      \/ stack \in Closes(token.kind)
  BY Zenon DEF Shifted
<1> QED BY <1>1, AfterContinues, AfterBegins, AfterAnExpression, AfterClosing

-----------------------------------------------------------------------------
(* The invariant.                                                          *)

LexTyped ==
  /\ read \in Nat /\ errors \in Nat /\ wrong \subseteq Nat /\ lexeme_stack \in Seq(Nat)
  /\ lookahead # NoToken => lookahead.kind \in Kinds /\ lookahead.n = read

\* The tree is right and lexeme_stack ends with the texts awaited and that of the
\* token read; below them is what syntax errors left.
Matched ==
  /\ wrong = {}
  /\ \E left \in Seq(Nat) :
       /\ lexeme_stack = left \o (Awaited(symbols) \o Text(lookahead))
       /\ errors = 0 => left = <<>>

\* A text was taken with a name or a number read: no rule takes that token now.
Astray == Top.what \in Refusing /\ lookahead.kind \in Named

LexInv ==
  /\ LexTyped
  /\ Proper(symbols, read)
  /\ Top.what \in Complete => lookahead = NoToken
  /\ Top.what \in Recovering => wrong = {} /\ errors > 0
  /\ Astray => \A token \in wrong : Top.at <= token
  /\ Top.what \notin Recovering /\ ~ Astray => Matched

LEMMA TokenFacts ==
  ASSUME LexTyped
  PROVE  /\ lookahead.n \in Nat /\ Text(lookahead) \in Seq(Nat)
         /\ lookahead = NoToken => lookahead.kind \notin Named /\ Text(lookahead) = <<>>
         /\ lookahead # NoToken => lookahead.n = read /\ lookahead.kind # "none"
         /\ lookahead.kind \in Named => Text(lookahead) = <<read>>
         /\ lookahead.kind \notin Named => Text(lookahead) = <<>>
<1>1. lookahead = NoToken => lookahead.kind = "none" /\ lookahead.n = 0
  BY DEF NoToken
<1>2. lookahead.n \in Nat /\ "none" \notin Named /\ "none" \notin Kinds
  BY <1>1 DEF LexTyped, Named, Kinds
<1> QED BY <1>1, <1>2, TextFacts DEF LexTyped, Named

LEMMA LexInit ==
  ASSUME Init
  PROVE  LexInv
<1>1. PICK open \in {<<>>, <<"int_fun_id(params)", "block">>} :
        symbols = <<Open("program", 0, <<>>)>> \o [k \in DOMAIN open |-> Open(open[k], 0, <<>>)]
  BY DEF Init
<1>2. /\ lookahead = NoToken /\ lexeme_stack = <<>> /\ read = 0 /\ wrong = {} /\ errors = 0
      /\ LexTyped
  <2>1. /\ lookahead = NoToken /\ lexeme_stack = <<>> /\ read = 0 /\ wrong = {} /\ errors = 0
    BY DEF Init
  <2>2. <<>> \in Seq(Nat) /\ {} \subseteq Nat /\ 0 \in Nat
    OBVIOUS
  <2> QED BY <2>1, <2>2, Zenon DEF LexTyped
<1>3. PICK program, params, block :
        /\ program = Open("program", 0, <<>>)
        /\ params = Open("int_fun_id(params)", 0, <<>>) /\ block = Open("block", 0, <<>>)
  OBVIOUS
<1>4. /\ program \in Rule /\ params \in Rule /\ block \in Rule
      /\ program.what = "program" /\ params.what = "int_fun_id(params)" /\ block.what = "block"
      /\ program.at = 0 /\ params.at = 0 /\ block.at = 0
      /\ program.held = <<>> /\ params.held = <<>> /\ block.held = <<>>
  <2>1. {"program", "int_fun_id(params)", "block"} \subseteq What
    BY DEF What, Under
  <2>2. <<>> \in Seq(Nat)
    OBVIOUS
  <2> QED BY <1>3, <2>1, <2>2 DEF Open, Rule
<1>5. Fits(program, 0) /\ Fits(params, 0) /\ Fits(block, 0)
  <2>1. ASSUME NEW rule \in {program, params, block} PROVE Fits(rule, 0)
    <3>1. rule \in Rule /\ rule.at = 0 /\ rule.held = <<>>
      BY <1>4
    <3>2. rule.what \in {"program", "int_fun_id(params)", "block"}
      BY <1>4
    <3>3. Texts(rule.what) = 0
      BY <3>2 DEF Texts, OneText, TwoTexts
    <3> QED BY <3>1, <3>3 DEF Fits
  <2> QED BY <2>1
<1>6. /\ Inside(params, program) /\ Within(params, program)
      /\ Inside(block, params) /\ Within(block, params)
  BY <1>4 DEF Inside, Within, Parameter, Under, Expression
<1>7. PICK one : one = <<program>>
  OBVIOUS
<1>8. Proper(one, 0) /\ Last(one) = program /\ Awaited(one) = <<>>
  <2>0. program \in Rule
    BY <1>4
  <2>1. one \in Seq(Rule) /\ Len(one) = 1 /\ one[1] = program
    BY <1>7, <2>0
  <2>2. Awaited(one) = <<>>
    BY <1>4, <2>1, AwaitedNone
  <2>3. /\ one # <<>> /\ one[1].what = "program" /\ \A k \in 1..Len(one) : k = 1
        /\ 2..Len(one) = {} /\ Last(one) = program
    <3>1. one # <<>> /\ 1..Len(one) = {1} /\ 2..Len(one) = {} /\ Last(one) = one[1]
      BY <2>1 DEF Last
    <3> QED BY <1>4, <2>1, <3>1, Zenon
  <2>4. \A k \in 1..Len(one) : Fits(one[k], 0)
    BY <1>5, <2>1, <2>3, Zenon
  <2>5. Proper(one, 0)
    BY <2>1, <2>3, <2>4, Zenon DEF Proper
  <2> QED BY <2>2, <2>3, <2>5
<1>9. PICK two : two = Append(one, params)
  OBVIOUS
<1>10. Proper(two, 0) /\ Last(two) = params /\ Awaited(two) = <<>>
  <2>1. Proper(two, 0) /\ Last(two) = params /\ Awaited(two) = Awaited(one) \o params.held
    BY <1>5, <1>6, <1>8, <1>9, ProperAppend
  <2> QED BY <1>4, <1>8, <2>1
<1>11. PICK three : three = Append(two, block)
  OBVIOUS
<1>12. Proper(three, 0) /\ Last(three) = block /\ Awaited(three) = <<>>
  <2>1. Proper(three, 0) /\ Last(three) = block /\ Awaited(three) = Awaited(two) \o block.held
    BY <1>5, <1>6, <1>10, <1>11, ProperAppend
  <2> QED BY <1>4, <1>10, <2>1
<1>13. symbols = one \/ symbols = three
  <2>1. CASE open = <<>>
    <3>1. [k \in DOMAIN open |-> Open(open[k], 0, <<>>)] = <<>>
      BY <2>1
    <3>2. symbols = <<program>> \o <<>>
      BY <1>1, <1>3, <3>1
    <3> QED BY <1>4, <1>7, <3>2
  <2>2. CASE open = <<"int_fun_id(params)", "block">>
    <3>1. PICK rest : rest = [k \in DOMAIN open |-> Open(open[k], 0, <<>>)]
      OBVIOUS
    <3>2. /\ DOMAIN open = 1..2 /\ open[1] = "int_fun_id(params)" /\ open[2] = "block"
      BY <2>2
    <3>3. rest = [k \in 1..2 |-> IF k = 1 THEN params ELSE block]
      BY <1>3, <3>1, <3>2
    <3>4. rest = <<params, block>>
      BY <1>4, <3>3
    <3>5. symbols = <<program>> \o <<params, block>>
      BY <1>1, <1>3, <3>1, <3>4
    <3>6. three = Append(Append(<<program>>, params), block)
      BY <1>7, <1>9, <1>11
    <3>7. symbols = three
      BY <1>4, <3>5, <3>6
    <3> QED BY <3>7
  <2> QED BY <1>1, <2>1, <2>2
<1>14. Proper(symbols, read) /\ Top.what \in {"program", "block"} /\ Awaited(symbols) = <<>>
  BY <1>2, <1>4, <1>8, <1>12, <1>13 DEF Top
<1>15. Matched
  <2>1. Text(lookahead) = <<>>
    BY <1>2, TokenFacts
  <2>2. <<>> \in Seq(Nat) /\ lexeme_stack = <<>> \o (<<>> \o <<>>)
    BY <1>2
  <2> QED BY <1>2, <1>14, <2>1, <2>2 DEF Matched
<1>16. Top.what \notin Complete \cup Recovering \cup Refusing
  BY <1>14 DEF Complete, Recovering, Refusing
<1> QED BY <1>2, <1>14, <1>15, <1>16 DEF LexInv, Astray

LEMMA yylexStep ==
  ASSUME LexInv, yylex
  PROVE  LexInv'
<1>1. /\ LexTyped /\ Proper(symbols, read) /\ lookahead = NoToken /\ read' = read + 1
      /\ Top.what \notin Complete /\ symbols' = symbols /\ wrong' = wrong /\ errors' = errors
  BY DEF LexInv, yylex
<1>2. PICK kind \in Kinds :
        /\ lookahead' = [kind |-> kind, n |-> read']
        /\ lexeme_stack' = IF kind \in Named THEN Append(lexeme_stack, read') ELSE lexeme_stack
  BY Zenon DEF yylex, Named
<1>3. lookahead'.kind = kind /\ lookahead'.n = read' /\ read' \in Nat /\ read <= read'
  BY <1>1, <1>2 DEF LexTyped
<1>4. LexTyped'
  <2>1. lexeme_stack \in Seq(Nat)
    BY <1>1 DEF LexTyped
  <2>2. lexeme_stack' \in Seq(Nat)
    BY <1>2, <1>3, <2>1
  <2> QED BY <1>1, <1>2, <1>3, <2>2 DEF LexTyped
<1>5. Proper(symbols, read)'
  <2>1. read \in Nat
    BY <1>1 DEF LexTyped
  <2>2. Proper(symbols, read')
    BY <1>1, <1>3, <2>1, ProperLater
  <2> QED BY <1>1, <2>2
<1>6. /\ lookahead.kind \notin Named /\ Text(lookahead) = <<>> /\ ~ Astray
  BY <1>1, TokenFacts DEF Astray
<1>7. Top' = Top
  BY <1>1 DEF Top
<1>8. /\ Top.what \in Recovering => wrong = {} /\ errors > 0
      /\ Top.what \notin Recovering => Matched
  BY <1>6 DEF LexInv
<1>9. Astray' => \A token \in wrong' : Top'.at <= token
  <2>1. SUFFICES ASSUME Astray' PROVE wrong = {}
    BY <1>1
  <2>2. Top.what \notin Recovering
    BY <1>7, <2>1 DEF Astray, Refusing, Recovering
  <2> QED BY <1>8, <2>2 DEF Matched
<1>10. Top.what \notin Recovering => Matched'
  <2>1. SUFFICES ASSUME Top.what \notin Recovering PROVE Matched'
    OBVIOUS
  <2>2. PICK awaited \in Seq(Nat) : awaited = Awaited(symbols)
    BY <1>1, AwaitedType DEF Proper
  <2>3. PICK left \in Seq(Nat) :
          /\ lexeme_stack = left \o (awaited \o <<>>)
          /\ errors = 0 => left = <<>>
    BY <1>6, <1>8, <2>1, <2>2 DEF Matched
  <2>4. lexeme_stack = left \o awaited
    BY <2>2, <2>3
  <2>5. PICK text \in Seq(Nat) : /\ text = Text(lookahead')
                                 /\ kind \in Named => text = <<read'>>
                                 /\ kind \notin Named => text = <<>>
    BY <1>3, TextFacts
  <2>6. lexeme_stack' = left \o (awaited \o text)
    <3>1. CASE kind \in Named
      <4>1. lexeme_stack' = Append(left \o awaited, read') /\ text = <<read'>>
        BY <1>2, <2>4, <2>5, <3>1
      <4>2. (left \o awaited) \o <<read'>> = left \o (awaited \o <<read'>>)
        BY <1>3
      <4>3. Append(left \o awaited, read') = (left \o awaited) \o <<read'>>
        BY <1>3
      <4> QED BY <4>1, <4>2, <4>3, Zenon
    <3>2. CASE kind \notin Named
      <4>1. lexeme_stack' = left \o awaited /\ text = <<>>
        BY <1>2, <2>4, <2>5, <3>2
      <4> QED BY <4>1
    <3> QED BY <3>1, <3>2
  <2>7. wrong = {}
    BY <1>8, <2>1 DEF Matched
  <2>8. Awaited(symbols)' = awaited /\ Text(lookahead)' = text
    BY <1>1, <2>2, <2>5
  <2> QED BY <1>1, <2>3, <2>6, <2>7, <2>8 DEF Matched
<1> QED BY <1>1, <1>4, <1>5, <1>7, <1>8, <1>9, <1>10 DEF LexInv

LEMMA ShiftStep ==
  ASSUME LexInv, Shift
  PROVE  LexInv'
<1>1. /\ LexTyped /\ Proper(symbols, read) /\ lookahead # NoToken /\ lookahead' = NoToken
      /\ read' = read /\ lexeme_stack' = lexeme_stack /\ wrong' = wrong /\ errors' = errors
  BY DEF LexInv, Shift
<1>2. PICK token, stack : token = lookahead /\ stack = symbols'
  OBVIOUS
<1>3. After(stack, token)
  <2>1. stack \in Shifted(token)
    BY <1>2 DEF Shift
  <2>2. read \in Nat /\ token.n = read
    BY <1>1, <1>2 DEF LexTyped
  <2> QED BY <1>1, <2>1, <2>2, AfterShift
<1>4. PICK top : top = Last(stack) /\ top = Top'
  BY <1>2 DEF Top
<1>5. /\ Proper(stack, read) /\ Awaited(stack) = Awaited(symbols) \o Text(token)
      /\ top.what \in Recovering => Top.what \in Recovering
      /\ Top.what \in Refusing \cup Recovering => token.kind \notin Named
  BY <1>3, <1>4 DEF After
<1>6. LexTyped' /\ Proper(symbols, read)'
  BY <1>1, <1>2, <1>5 DEF LexTyped
<1>7. Text(NoToken) = <<>> /\ NoToken.kind \notin Named
  BY DEF Text, NoToken, Named
<1>8. ~ Astray /\ ~ Astray'
  BY <1>1, <1>2, <1>5, <1>7 DEF Astray
<1>9. /\ Top.what \in Recovering => wrong = {} /\ errors > 0
      /\ Top.what \notin Recovering => Matched
  BY <1>8 DEF LexInv
<1>10. PICK awaited \in Seq(Nat) : awaited = Awaited(stack)
  BY <1>5, AwaitedType DEF Proper
<1>11. Matched'
  <2>1. \E left \in Seq(Nat) : lexeme_stack = left \o awaited /\ (errors = 0 => left = <<>>)
    <3>1. CASE Top.what \in Recovering
      <4>1. Top.what \notin Expression /\ Texts(Top.what) = 0
        BY <3>1 DEF Recovering, Expression, Texts, OneText, TwoTexts
      <4>2. Awaited(symbols) = <<>>
        BY <1>1, <4>1, NoneBelow DEF Top
      <4>3. Text(token) = <<>>
        BY <1>1, <1>2, <1>5, <3>1, TokenFacts
      <4>4. awaited = <<>>
        BY <1>5, <1>10, <4>2, <4>3
      <4>5. lexeme_stack \in Seq(Nat) /\ errors # 0
        BY <1>1, <1>9, <3>1 DEF LexTyped
      <4>6. lexeme_stack = lexeme_stack \o awaited
        BY <4>4, <4>5
      <4> QED BY <4>5, <4>6
    <3>2. CASE Top.what \notin Recovering
      <4>1. Matched
        BY <1>9, <3>2
      <4> QED BY <1>2, <1>5, <1>10, <4>1, Zenon DEF Matched
    <3> QED BY <3>1, <3>2
  <2>2. wrong = {}
    BY <1>9 DEF Matched
  <2>3. Awaited(symbols)' = awaited /\ awaited \o Text(lookahead)' = awaited
    BY <1>1, <1>2, <1>7, <1>10
  <2> QED BY <1>1, <2>1, <2>2, <2>3, Zenon DEF Matched
<1>12. Top'.what \in Recovering => wrong' = {} /\ errors' > 0
  BY <1>1, <1>4, <1>5, <1>9
<1> QED BY <1>1, <1>6, <1>8, <1>11, <1>12, Zenon DEF LexInv

-----------------------------------------------------------------------------
(* Reductions.                                                             *)

\* The texts of the innermost rule are on the top, but for that of the token read.
LEMMA TakeHeld ==
  ASSUME LexInv, Top.what \notin Recovering \cup Refusing, Top.what # "program", Take(Top.held)
  PROVE  /\ lexeme_stack' \in Seq(Nat)
         /\ wrong' \subseteq {Top.held[i] : i \in 1..Len(Top.held)}
         /\ lookahead.kind \notin Named =>
              /\ wrong' = {}
              /\ \E left \in Seq(Nat) : /\ lexeme_stack' = left \o Awaited(Front(symbols))
                                        /\ errors = 0 => left = <<>>
<1>1. LexTyped /\ Proper(symbols, read) /\ Matched
  <2>1. ~ Astray
    BY DEF Astray
  <2> QED BY <2>1 DEF LexInv
<1>2. PICK held \in Seq(Nat) : held = Top.held
  BY <1>1, TopFacts DEF LexTyped
<1>3. PICK below \in Seq(Nat) : below = Awaited(Front(symbols)) /\ Awaited(symbols) = below \o held
  BY <1>1, <1>2, ProperFront DEF Top
<1>4. PICK text \in Seq(Nat) : /\ text = Text(lookahead)
                               /\ lookahead.kind \notin Named => text = <<>>
  BY <1>1, TokenFacts
<1>5. PICK left \in Seq(Nat) : /\ lexeme_stack = left \o ((below \o held) \o text)
                               /\ errors = 0 => left = <<>>
  BY <1>1, <1>3, <1>4 DEF Matched
<1>6. PICK rest \in Nat : rest = Len(lexeme_stack) - Len(held) /\ rest <= Len(lexeme_stack)
  <2>1. (below \o held) \o text \in Seq(Nat) /\ Len((below \o held) \o text) >= Len(held)
    BY Together
  <2>2. /\ Len(lexeme_stack) = Len(left) + Len((below \o held) \o text)
        /\ Len(left) \in Nat /\ Len(held) \in Nat
    BY <1>5, <2>1, Together
  <2>3. PICK n, m \in Nat : n = Len(lexeme_stack) /\ m = Len(held) /\ n >= m
    BY <2>1, <2>2
  <2>4. n - m \in Nat /\ n - m <= n
    BY <2>3
  <2> QED BY <2>3, <2>4
<1>7. /\ lexeme_stack' = SubSeq(lexeme_stack, 1, rest)
      /\ wrong' = wrong \cup {held[k] : k \in {k \in DOMAIN held :
                                                  lexeme_stack[rest + k] # held[k]}}
  BY <1>2, <1>6 DEF Take
<1>8. lexeme_stack' \in Seq(Nat)
  <2>1. lexeme_stack \in Seq(Nat) /\ \A k \in 1..rest : lexeme_stack[k] \in Nat
    BY <1>1, <1>6 DEF LexTyped
  <2> QED BY <1>6, <1>7, <2>1
<1>9. wrong' \subseteq {held[i] : i \in 1..Len(held)}
  BY <1>1, <1>7 DEF Matched
<1>10. ASSUME lookahead.kind \notin Named
       PROVE  /\ wrong' = {}
              /\ \E l \in Seq(Nat) : lexeme_stack' = l \o below /\ (errors = 0 => l = <<>>)
  <2>1. PICK s \in Seq(Nat) : s = left \o below
    BY Together
  <2>2. lexeme_stack = s \o held
    <3>1. text = <<>>
      BY <1>4, <1>10
    <3>2. (below \o held) \o <<>> = below \o held
      BY Together
    <3>3. left \o (below \o held) = (left \o below) \o held
      BY SMTT(30)
    <3> QED BY <1>5, <2>1, <3>1, <3>2, <3>3, Zenon
  <2>3. /\ SubSeq(s \o held, 1, Len(s \o held) - Len(held)) = s
        /\ \A k \in 1..Len(held) : (s \o held)[(Len(s \o held) - Len(held)) + k] = held[k]
    BY Shorten
  <2>4. lexeme_stack' = s /\ \A k \in 1..Len(held) : lexeme_stack[rest + k] = held[k]
    BY <1>6, <1>7, <2>2, <2>3, Zenon
  <2>5. wrong' = {}
    <3>1. {k \in DOMAIN held : lexeme_stack[rest + k] # held[k]} = {}
      <4>1. DOMAIN held = 1..Len(held)
        OBVIOUS
      <4> QED BY <2>4, <4>1, Zenon
    <3>2. wrong = {}
      BY <1>1 DEF Matched
    <3> QED BY <1>7, <3>1, <3>2
  <2> QED BY <1>5, <2>1, <2>4, <2>5
<1> QED BY <1>2, <1>3, <1>8, <1>9, <1>10

\* A reduction that takes its texts; if a name or a number has been read, no rule
\* takes that token afterwards.
LEMMA Reduction ==
  ASSUME LexInv, Top.what \notin Recovering \cup Refusing, Top.what # "program",
         Take(Top.held), NEW stack, Reduce(stack), Proper(stack, read),
         Awaited(stack) = Awaited(Front(symbols)),
         Last(stack).what \notin Recovering \cup Complete, Last(stack).at <= Top.at,
         lookahead.kind \in Named => Last(stack).what \in Refusing
  PROVE  LexInv'
<1>1. /\ LexTyped /\ Proper(symbols, read) /\ symbols' = stack /\ lookahead' = lookahead
      /\ read' = read /\ errors' = errors
  BY DEF LexInv, Reduce
<1>2. PICK top \in Rule : top = Top /\ Fits(top, read)
  BY <1>1, TopFacts DEF LexTyped
<1>3. PICK new \in Rule : new = Last(stack) /\ new = Top'
  <2>1. Last(stack) \in Rule
    BY AwaitedFront DEF Proper
  <2> QED BY <1>1, <2>1 DEF Top
<1>4. PICK held \in Seq(Nat) : held = top.held /\ \A i \in 1..Len(held) : top.at <= held[i]
  BY <1>2 DEF Rule, Fits
<1>5. /\ lexeme_stack' \in Seq(Nat)
      /\ wrong' \subseteq {held[i] : i \in 1..Len(held)}
      /\ lookahead.kind \notin Named =>
           /\ wrong' = {}
           /\ \E left \in Seq(Nat) : /\ lexeme_stack' = left \o Awaited(Front(symbols))
                                     /\ errors = 0 => left = <<>>
  BY <1>2, <1>4, TakeHeld
<1>6. LexTyped'
  <2>1. wrong' \subseteq Nat
    BY <1>4, <1>5
  <2> QED BY <1>1, <1>5, <2>1 DEF LexTyped
<1>7. \A token \in wrong' : new.at <= token
  <2>1. TAKE token \in wrong'
  <2>2. PICK i \in 1..Len(held) : token = held[i]
    BY <1>5
  <2>3. new.at <= top.at /\ top.at <= token /\ token \in Nat
    BY <1>2, <1>3, <1>4, <2>2
  <2>4. new.at \in Nat /\ top.at \in Nat
    BY <1>2, <1>3 DEF Rule
  <2> QED BY <2>3, <2>4
<1>8. new.what \notin Recovering /\ new.what \notin Complete
  BY <1>3
<1>9. ~ Astray' => Matched'
  <2>1. SUFFICES ASSUME ~ Astray' PROVE Matched'
    OBVIOUS
  <2>2. lookahead.kind \notin Named
    BY <1>1, <1>3, <2>1 DEF Astray
  <2>3. PICK below \in Seq(Nat) : below = Awaited(Front(symbols))
    BY <1>1, <1>2, ProperFront DEF Top
  <2>4. PICK left \in Seq(Nat) : lexeme_stack' = left \o below /\ (errors = 0 => left = <<>>)
    BY <1>5, <2>2, <2>3
  <2>5. Text(lookahead)' = <<>> /\ Awaited(symbols)' = below /\ below \o <<>> = below
    <3>1. Text(lookahead) = <<>>
      BY <1>1, <2>2, TokenFacts
    <3> QED BY <1>1, <2>3, <3>1, Together
  <2> QED BY <1>1, <1>5, <2>2, <2>4, <2>5 DEF Matched
<1>10. Proper(symbols, read)'
  BY <1>1
<1> QED BY <1>3, <1>6, <1>7, <1>8, <1>9, <1>10, Zenon DEF LexInv

\* The same without a text.
LEMMA ReductionNoText ==
  ASSUME LexInv, Top.what \notin Recovering \cup Refusing,
         UNCHANGED <<lexeme_stack, wrong>>, NEW stack, Reduce(stack), Proper(stack, read),
         Awaited(stack) = Awaited(symbols),
         Last(stack).what \notin Recovering \cup Refusing \cup Complete
  PROVE  LexInv'
<1>1. /\ LexTyped /\ symbols' = stack /\ lookahead' = lookahead
      /\ read' = read /\ errors' = errors /\ lexeme_stack' = lexeme_stack /\ wrong' = wrong
  BY DEF LexInv, Reduce
<1>2. Matched
  <2>1. ~ Astray
    BY DEF Astray
  <2> QED BY <2>1 DEF LexInv
<1>3. /\ Top'.what \notin Recovering /\ Top'.what \notin Complete /\ ~ Astray'
  BY <1>1 DEF Top, Astray
<1>4. Matched'
  <2>1. Awaited(symbols)' = Awaited(symbols) /\ Text(lookahead)' = Text(lookahead)
    BY <1>1
  <2> QED BY <1>1, <1>2, <2>1 DEF Matched
<1>5. LexTyped' /\ Proper(symbols, read)'
  BY <1>1 DEF LexTyped
<1> QED BY <1>3, <1>4, <1>5, Zenon DEF LexInv

LEMMA UnderFacts ==
  ASSUME NEW what \in Under \cup {"if(e)s"}
  PROVE  what \notin Recovering \cup Complete \cup Refusing
BY DEF Under, ExpressionPlace, StatementPlace, Recovering, Complete, Refusing

LEMMA DeclarationStep ==
  ASSUME LexInv, var_declaracao \/ var_declaracao_Array
  PROVE  LexInv'
<1>1. /\ Top.what \in {"var_declaracao", "var_declaracao[]"}
      /\ Take(Top.held) /\ Reduce(Front(symbols))
  BY DEF var_declaracao, var_declaracao_Array
<1>2. /\ Top.what \notin Recovering \cup Refusing /\ Top.what # "program" /\ Top.what \in Complete
  BY <1>1 DEF Recovering, Refusing, Complete
<1>3. LexTyped /\ Proper(symbols, read) /\ lookahead.kind \notin Named
  BY <1>2, TokenFacts DEF LexInv
<1>4. PICK stack : stack = Front(symbols)
  OBVIOUS
<1>5. Proper(stack, read) /\ Within(Top, Last(stack))
  BY <1>2, <1>3, <1>4, ProperFront DEF Top
<1>6. Last(stack).what \notin Recovering \cup Complete /\ Last(stack).at <= Top.at
  BY <1>5, UnderFacts DEF Within
<1>7. Awaited(stack) = Awaited(Front(symbols)) /\ Reduce(stack)
  BY <1>1, <1>4
<1> QED BY <1>1, <1>2, <1>3, <1>5, <1>6, <1>7, Reduction

LEMMA paramStep ==
  ASSUME LexInv, param
  PROVE  LexInv'
<1>1. /\ Top.what \in {"param_ID[]", "param_ID"} /\ Take(Top.held)
      /\ Reduce(Append(Front(Front(symbols)), [Below EXCEPT !.what = "int_fun_id(params"]))
  BY DEF param
<1>2. /\ Top.what \notin Recovering \cup Refusing /\ Top.what # "program" /\ Top.what \in Parameter
  BY <1>1 DEF Recovering, Refusing, Parameter
<1>3. Proper(symbols, read)
  BY DEF LexInv
<1>4. PICK front : front = Front(symbols)
  OBVIOUS
<1>5. /\ Proper(front, read) /\ Last(front) = Below
      /\ Within(Top, Last(front)) /\ Inside(Top, Last(front))
  BY <1>2, <1>3, <1>4, ProperFront DEF Top, Below
<1>6. Last(front).what = "int_fun_id(" /\ Last(front).at <= Top.at
  BY <1>2, <1>5 DEF Within, Inside
<1>7. PICK what : what = "int_fun_id(params"
  OBVIOUS
<1>8. PICK rule : rule = [Last(front) EXCEPT !.what = what]
  OBVIOUS
<1>9. /\ what \in What /\ Texts(what) = Texts(Last(front).what)
      /\ Last(front).what # "program" /\ Last(front).what \notin Expression
      /\ what # "program" /\ what \notin Parameter
      /\ what \notin Recovering \cup Complete /\ what \in Refusing
  BY <1>6, <1>7 DEF What, Texts, OneText, TwoTexts, Expression, Parameter, Recovering, Complete,
                    Refusing
<1>10. PICK stack : stack = Append(Front(front), rule)
  OBVIOUS
<1>11. Proper(stack, read) /\ Last(stack) = rule /\ Awaited(stack) = Awaited(front)
  BY <1>5, <1>8, <1>9, <1>10, ProperRename
<1>12. Last(stack).what = what /\ Last(stack).at <= Top.at
  <2>1. Last(front) \in Rule
    BY <1>5, <1>9, ProperFront
  <2>2. rule.what = what /\ rule.at = Last(front).at
    BY <1>8, <2>1 DEF Rule
  <2> QED BY <1>6, <1>11, <2>2
<1>13. Reduce(stack) /\ Awaited(stack) = Awaited(Front(symbols))
  BY <1>1, <1>4, <1>5, <1>7, <1>8, <1>10, <1>11
<1> QED BY <1>1, <1>2, <1>9, <1>11, <1>12, <1>13, Reduction

LEMMA fun_idStep ==
  ASSUME LexInv, fun_id
  PROVE  LexInv'
<1>1. PICK what \in {"fun_id", "int_fun_id"} :
        /\ \/ Top.what = "ID" /\ what = "fun_id" /\ lookahead.kind = "ABREPARENTESES"
           \/ Top.what = "int_ID" /\ what = "int_fun_id"
        /\ Take(Top.held) /\ Reduce(Replace(what, <<>>))
  <2>1. CASE Top.what = "ID"
    BY <2>1 DEF fun_id
  <2>2. CASE Top.what # "ID"
    BY <2>2 DEF fun_id
  <2> QED BY <2>1, <2>2
<1>2. /\ Top.what \notin Recovering \cup Refusing /\ Top.what # "program"
      /\ what \notin Expression => Top.what \notin Expression
      /\ what \in What /\ Texts(what) = 0 /\ what # "program" /\ what \notin Parameter
      /\ what \notin Recovering \cup Complete
      /\ lookahead.kind \in Named => what \in Refusing
  BY <1>1 DEF Recovering, Refusing, Expression, What, Texts, OneText, TwoTexts, Parameter,
              Complete, Named
<1>3. LexTyped /\ Proper(symbols, read)
  BY DEF LexInv
<1>4. Top.at \in Nat /\ Top.at <= read
  BY <1>3, TopFacts DEF LexTyped
<1>5. PICK rule : rule = Open(what, Top.at, <<>>)
  OBVIOUS
<1>6. rule \in Rule /\ rule.what = what /\ rule.at = Top.at /\ rule.held = <<>>
  BY <1>2, <1>4, <1>5 DEF Open, Rule
<1>7. Fits(rule, read) /\ Last(symbols).at <= rule.at
  BY <1>2, <1>4, <1>6 DEF Fits, Top
<1>8. PICK stack : stack = Append(Front(symbols), rule)
  OBVIOUS
<1>9. Proper(stack, read) /\ Last(stack) = rule /\ Awaited(stack) = Awaited(Front(symbols)) \o <<>>
  <2>1. /\ Last(symbols).what # "program" /\ rule.what # "program"
        /\ rule.what \notin Expression => Last(symbols).what \notin Expression
        /\ rule.what \in Parameter => Last(symbols).what \in Parameter
    BY <1>2, <1>6 DEF Top
  <2>2. /\ Proper(Append(Front(symbols), rule), read)
        /\ Last(Append(Front(symbols), rule)) = rule
        /\ Awaited(Append(Front(symbols), rule)) = Awaited(Front(symbols)) \o rule.held
    BY <1>3, <1>7, <2>1, ProperReplace
  <2> QED BY <1>6, <1>8, <2>2
<1>10. Awaited(stack) = Awaited(Front(symbols))
  <2>1. PICK below \in Seq(Nat) : below = Awaited(Front(symbols))
    BY <1>2, <1>3, ProperFront DEF Top
  <2>2. below \o <<>> = below
    BY Together
  <2> QED BY <1>9, <2>1, <2>2
<1>11. Reduce(stack) /\ Last(stack).what = what /\ Last(stack).at <= Top.at
  BY <1>1, <1>4, <1>5, <1>6, <1>8, <1>9 DEF Replace
<1> QED BY <1>1, <1>2, <1>9, <1>10, <1>11, Reduction

\* A name, an indexed name or a number becomes an operand.
LEMMA OperandStep ==
  ASSUME LexInv, var \/ fator
  PROVE  LexInv'
<1>1. PICK what \in {"var", "e"} :
        /\ Top.what \in {"ID[e]", "ID", "NUM"} /\ Take(Top.held)
        /\ Reduce(Operand(Front(symbols), what, Top.at))
  BY DEF var, fator
<1>2. Top.what \notin Recovering \cup Refusing /\ Top.what # "program"
  BY <1>1 DEF Recovering, Refusing
<1>3. LexTyped /\ Proper(symbols, read)
  BY DEF LexInv
<1>4. PICK front, at : front = Front(symbols) /\ at = Top.at
  OBVIOUS
<1>5. Proper(front, read) /\ Within(Top, Last(front))
  BY <1>2, <1>3, <1>4, ProperFront DEF Top
<1>6. /\ at \in Nat /\ at <= read /\ Last(front).at <= at /\ Last(front).what \in Under
  BY <1>3, <1>4, <1>5, TopFacts DEF LexTyped, Within
<1>7. PICK stack : stack = Operand(front, what, at)
  OBVIOUS
<1>8. /\ Proper(stack, read) /\ Last(stack).what \in {"var", "e"} /\ Last(stack).at <= at
      /\ Awaited(stack) = Awaited(front)
  BY <1>5, <1>6, <1>7, OperandDone
<1>9. Last(stack).what \notin Recovering \cup Complete /\ Last(stack).what \in Refusing
  BY <1>8 DEF Recovering, Complete, Refusing
<1>10. /\ Reduce(stack) /\ Awaited(stack) = Awaited(Front(symbols)) /\ Last(stack).at <= Top.at
  BY <1>1, <1>4, <1>7, <1>8
<1> QED BY <1>1, <1>2, <1>8, <1>9, <1>10, Reduction

LEMMA statement_listaStep ==
  ASSUME LexInv, statement_lista
  PROVE  LexInv'
<1>1. /\ Top.what = "block" /\ Reduce(Replace("list", <<>>))
      /\ UNCHANGED <<lexeme_stack, wrong>>
  BY DEF statement_lista
<1>2. PICK what : what = "list"
  OBVIOUS
<1>3. /\ Top.what \notin Recovering \cup Refusing /\ Top.what # "program"
      /\ Top.what \notin Expression /\ Texts(Top.what) = 0
      /\ what \in What /\ Texts(what) = 0 /\ what # "program" /\ what \notin Parameter
      /\ what \notin Recovering \cup Refusing \cup Complete
  BY <1>1, <1>2 DEF Recovering, Refusing, Expression, What, Under, ExpressionPlace, StatementPlace,
                    Texts, OneText, TwoTexts, Parameter, Complete
<1>4. LexTyped /\ Proper(symbols, read)
  BY DEF LexInv
<1>5. PICK rule : rule = [Last(symbols) EXCEPT !.what = what]
  OBVIOUS
<1>6. PICK stack : stack = Append(Front(symbols), rule)
  OBVIOUS
<1>7. Proper(stack, read) /\ Last(stack) = rule /\ Awaited(stack) = Awaited(symbols)
  BY <1>3, <1>4, <1>5, <1>6, ProperRename DEF Top
<1>8. rule = Open(what, Top.at, <<>>) /\ rule.what = what
  <2>1. Last(symbols) \in Rule /\ Last(symbols).held = <<>>
    BY <1>3, <1>4, ProperFront, ProperClose DEF Top
  <2> QED BY <1>5, <2>1 DEF Rule, Open, Top
<1>9. Reduce(stack) /\ Last(stack).what = what
  BY <1>1, <1>2, <1>6, <1>7, <1>8 DEF Replace
<1> QED BY <1>1, <1>3, <1>7, <1>9, ReductionNoText

LEMMA selecao_declStep ==
  ASSUME LexInv, selecao_decl
  PROVE  LexInv'
<1>1. /\ Top.what = "if(e)s" /\ Reduce(Statement(Front(symbols)))
      /\ UNCHANGED <<lexeme_stack, wrong>>
  BY DEF selecao_decl
<1>2. /\ Top.what \notin Recovering \cup Refusing /\ Top.what # "program" /\ Texts(Top.what) = 0
  BY <1>1 DEF Recovering, Refusing, Texts, OneText, TwoTexts
<1>3. PICK front : front = Front(symbols)
  OBVIOUS
<1>4. Proper(front, read) /\ Last(front).what \in Under /\ Awaited(front) = Awaited(symbols)
  BY <1>2, <1>3, ProperClose DEF LexInv, Top
<1>5. PICK stack : stack = Statement(front)
  OBVIOUS
<1>6. /\ Proper(stack, read) /\ Last(stack).what \in Under \cup {"if(e)s"}
      /\ Awaited(stack) = Awaited(symbols)
  BY <1>4, <1>5, StatementDone
<1>7. Last(stack).what \notin Recovering \cup Refusing \cup Complete /\ Reduce(stack)
  BY <1>1, <1>3, <1>5, <1>6, UnderFacts
<1> QED BY <1>1, <1>2, <1>6, <1>7, ReductionNoText

-----------------------------------------------------------------------------
(* Recovery.                                                               *)

LEMMA GreatestPlace ==
  ASSUME NEW n \in Nat, NEW places, places \subseteq 1..n, places # {}
  PROVE  Max(places) \in places
<1>1. PICK R : R = {m \in Nat : n - m \in places}
  OBVIOUS
<1>2. R \subseteq Nat /\ R # {}
  <2>1. PICK k : k \in places
    OBVIOUS
  <2>2. n - k \in Nat /\ n - (n - k) = k
    BY <2>1
  <2> QED BY <1>1, <2>1, <2>2
<1>3. PICK m \in R : \A l \in R : <<l, m>> \notin OpToRel(<, Nat)
  BY <1>2, NatLessThanWellFounded, WFMin, Zenon
<1>4. \A l \in R : ~ (l < m)
  BY <1>2, <1>3, Zenon DEF OpToRel
<1>5. n - m \in places
  BY <1>1
<1>6. ASSUME NEW k \in places PROVE n - m >= k
  <2>1. n - k \in Nat /\ n - (n - k) = k
    OBVIOUS
  <2>2. n - k \in R
    BY <1>1, <2>1
  <2>3. ~ (n - k < m) /\ m \in Nat
    BY <1>2, <1>4, <2>2
  <2> QED BY <2>1, <2>3
<1>7. \E k \in places : \A l \in places : k >= l
  BY <1>5, <1>6
<1> QED BY <1>7 DEF Max

\* What is wrong in the tree began after the innermost rule.
LEMMA WrongFrom ==
  ASSUME LexInv, Top.what \notin Recovering
  PROVE  /\ \A token \in wrong : Top.at <= token
         /\ Top.what \notin Refusing => wrong = {}
<1>1. ~ Astray => wrong = {}
  BY DEF LexInv, Matched
<1>2. Astray => \A token \in wrong : Top.at <= token
  BY DEF LexInv
<1>3. Astray => Top.what \in Refusing
  BY DEF Astray
<1> QED BY <1>1, <1>2, <1>3

LEMMA NoneEarlier ==
  ASSUME NEW W, W \subseteq Nat, NEW a \in Nat, NEW b \in Nat, a <= b, \A t \in W : b <= t
  PROVE  {t \in W : t < a} = {}
<1>1. ASSUME NEW t \in W PROVE ~ (t < a)
  <2>1. t \in Nat /\ b <= t
    OBVIOUS
  <2> QED BY <2>1
<1> QED BY <1>1, Zenon

\* Nothing of it is left where an error is recovered.
LEMMA Recovered ==
  ASSUME LexInv, Top.what \notin Recovering, lookahead # NoToken,
         NEW k \in 1..Len(symbols), NEW stack, NEW at,
         \/ /\ symbols[k].what \in Declaration /\ at = symbols[k].at
            /\ stack = Append(SubSeq(symbols, 1, k - 1), Open("int_error", at, <<>>))
         \/ /\ symbols[k].what \in StatementPlace
            /\ at = IF k < Len(symbols) THEN symbols[k + 1].at ELSE lookahead.n
            /\ stack = Append(SubSeq(symbols, 1, k), Open("error", at, <<>>))
  PROVE  /\ Proper(stack, read) /\ Last(stack).what \in Recovering
         /\ {token \in wrong : token < at} = {}
<1>1. LexTyped /\ Proper(symbols, read) /\ read \in Nat /\ wrong \subseteq Nat /\ lookahead.n = read
  BY DEF LexInv, LexTyped
<1>2. PICK n \in Nat \ {0} : n = Len(symbols) /\ k \in 1..n /\ symbols \in Seq(Rule)
  <2>1. symbols \in Seq(Rule) /\ symbols # <<>>
    BY <1>1 DEF Proper
  <2>2. Len(symbols) \in Nat \ {0}
    BY <2>1
  <2> QED BY <2>1, <2>2
<1>3. PICK f : f = SubSeq(symbols, 1, k)
  OBVIOUS
<1>4. Proper(f, read) /\ Last(f) = symbols[k]
  BY <1>1, <1>3, ProperCut
<1>5. \A j \in 1..n : symbols[j] \in Rule /\ symbols[j].at \in Nat /\ symbols[j].at <= read
  <2>1. TAKE j \in 1..n
  <2>2. Fits(symbols[j], read)
    BY <1>1, <1>2 DEF Proper
  <2> QED BY <2>2 DEF Fits, Rule
<1>6. Top = symbols[n]
  BY <1>2 DEF Top, Last
<1>7. \A i \in 1..n : \A j \in 1..i : symbols[j].at <= symbols[i].at
  <2>1. TAKE i \in 1..n
  <2>2. TAKE j \in 1..i
  <2>3. CASE j = i
    BY <1>5, <2>3
  <2>4. CASE j # i
    <3>1. i \in 2..n /\ j \in 1..(i - 1)
      BY <2>4
    <3>2. Within(symbols[i], symbols[j])
      BY <1>1, <1>2, <3>1 DEF Proper
    <3> QED BY <3>2 DEF Within
  <2> QED BY <2>3, <2>4
<1>8. ASSUME NEW what \in {"int_error", "error"}, NEW first \in Nat, first <= read,
             NEW rule, rule = Open(what, first, <<>>)
      PROVE  /\ Fits(rule, read) /\ rule.at = first /\ rule.what = what
             /\ what \notin Expression /\ what # "program" /\ what \notin Parameter
             /\ what \in Recovering
  <2>1. /\ what \in What /\ Texts(what) = 0 /\ what \notin Expression /\ what # "program"
        /\ what \notin Parameter /\ what \in Recovering
    BY DEF What, Recovering, Texts, OneText, TwoTexts, Expression, Parameter
  <2>2. rule \in Rule /\ rule.what = what /\ rule.at = first /\ rule.held = <<>>
    <3>1. <<>> \in Seq(Nat)
      OBVIOUS
    <3> QED BY <1>8, <2>1, <3>1 DEF Rule, Open
  <2> QED BY <1>8, <2>1, <2>2 DEF Fits
<1>9. CASE /\ symbols[k].what \in Declaration /\ at = symbols[k].at
           /\ stack = Append(SubSeq(symbols, 1, k - 1), Open("int_error", at, <<>>))
  <2>1. PICK what, rule :
          what = "int_error" /\ rule = Open(what, at, <<>>)
    OBVIOUS
  <2>2. at \in Nat /\ at <= read
    BY <1>2, <1>5, <1>9
  <2>3. /\ Fits(rule, read) /\ rule.at = at /\ rule.what = what
        /\ what \notin Expression /\ what # "program" /\ what \notin Parameter
        /\ what \in Recovering
    BY <1>8, <2>1, <2>2
  <2>4. Last(f).what # "program" /\ Last(f).what \notin Expression
    BY <1>4, <1>9 DEF Declaration, Expression
  <2>5. Last(f).at <= rule.at
    BY <1>4, <1>9, <2>2, <2>3
  <2>6. Proper(Append(Front(f), rule), read) /\ Last(Append(Front(f), rule)) = rule
    BY <1>4, <2>3, <2>4, <2>5, ProperReplace
  <2>7. stack = Append(Front(f), rule)
    <3>1. Front(f) = SubSeq(symbols, 1, k - 1)
      <4>1. \A j \in 1..n : symbols[j] \in Rule
        BY <1>5
      <4>2. PICK g, h : g = SubSeq(f, 1, Len(f) - 1) /\ h = SubSeq(symbols, 1, k - 1)
        OBVIOUS
      <4>3. f \in Seq(Rule) /\ Len(f) = k /\ \A j \in 1..k : f[j] = symbols[j]
        BY <1>2, <1>3, <4>1
      <4>4. /\ g \in Seq(Rule) /\ Len(g) = k - 1 /\ \A j \in 1..(k - 1) : g[j] = f[j]
            /\ h \in Seq(Rule) /\ Len(h) = k - 1 /\ \A j \in 1..(k - 1) : h[j] = symbols[j]
        BY <1>2, <4>1, <4>2, <4>3
      <4>5. \A j \in 1..Len(g) : g[j] = h[j]
        <5>1. \A j \in 1..(k - 1) : j \in 1..k
          BY <1>2
        <5> QED BY <4>3, <4>4, <5>1
      <4>6. g = h
        BY <4>4, <4>5, SeqEqual
      <4> QED BY <4>2, <4>6 DEF Front
    <3>2. rule = Open("int_error", at, <<>>)
      BY <2>1
    <3>3. stack = Append(SubSeq(symbols, 1, k - 1), Open("int_error", at, <<>>))
      BY <1>9
    <3> QED BY <3>1, <3>2, <3>3
  <2>8. {token \in wrong : token < at} = {}
    <3>1. at <= Top.at /\ Top.at \in Nat
      BY <1>2, <1>5, <1>6, <1>7, <1>9
    <3>2. \A token \in wrong : Top.at <= token
      BY WrongFrom
    <3> QED BY <1>1, <2>2, <3>1, <3>2, NoneEarlier
  <2> QED BY <2>3, <2>6, <2>7, <2>8
<1>10. CASE /\ symbols[k].what \in StatementPlace
            /\ at = IF k < Len(symbols) THEN symbols[k + 1].at ELSE lookahead.n
            /\ stack = Append(SubSeq(symbols, 1, k), Open("error", at, <<>>))
  <2>1. PICK what, rule : what = "error" /\ rule = Open(what, at, <<>>)
    OBVIOUS
  <2>2. at \in Nat /\ at <= read /\ symbols[k].at <= at
    <3>1. CASE k < n
      <4>1. k + 1 \in 1..n /\ k \in 1..(k + 1) /\ at = symbols[k + 1].at
        BY <1>2, <1>10, <3>1
      <4> QED BY <1>5, <1>7, <4>1
    <3>2. CASE ~ (k < n)
      BY <1>1, <1>2, <1>5, <1>10, <3>2
    <3> QED BY <3>1, <3>2
  <2>3. /\ Fits(rule, read) /\ rule.at = at /\ rule.what = what
        /\ what \notin Expression /\ what # "program" /\ what \notin Parameter
        /\ what \in Recovering
    BY <1>8, <2>1, <2>2
  <2>4. Last(f).what \in Under /\ Last(f).what \notin Expression
    BY <1>4, <1>10 DEF Under, ExpressionPlace, StatementPlace, Expression
  <2>5. Within(rule, Last(f)) /\ Inside(rule, Last(f))
    BY <1>4, <2>2, <2>3, <2>4 DEF Within, Inside
  <2>6. Proper(Append(f, rule), read) /\ Last(Append(f, rule)) = rule
    BY <1>4, <2>3, <2>5, ProperAppend
  <2>7. {token \in wrong : token < at} = {}
    <3>1. CASE k < n
      <4>1. k + 1 \in 1..n /\ at = symbols[k + 1].at
        BY <1>2, <1>10, <3>1
      <4>2. at <= Top.at /\ Top.at \in Nat
        BY <1>2, <1>5, <1>6, <1>7, <4>1
      <4>3. \A token \in wrong : Top.at <= token
        BY WrongFrom
      <4> QED BY <1>1, <2>2, <4>2, <4>3, NoneEarlier
    <3>2. CASE ~ (k < n)
      <4>1. k = n
        BY <1>2, <3>2
      <4>2. Top.what \notin Refusing
        BY <1>6, <1>10, <4>1 DEF StatementPlace, Refusing
      <4> QED BY <4>2, WrongFrom
    <3> QED BY <3>1, <3>2
  <2> QED BY <1>3, <1>10, <2>1, <2>3, <2>6, <2>7
<1> QED BY <1>9, <1>10

LEMMA yyerrorStep ==
  ASSUME LexInv, yyerror
  PROVE  LexInv'
<1>1. /\ LexTyped /\ Proper(symbols, read) /\ lookahead' = lookahead /\ read' = read
      /\ lexeme_stack' = lexeme_stack /\ errors' = errors + 1 /\ lookahead # NoToken
      /\ Top.what \notin Recovering /\ Top.what \notin Complete
  BY DEF LexInv, yyerror, Refused, Recovering
<1>2. PICK places :
        places = {k \in DOMAIN symbols : symbols[k].what \in Declaration \cup StatementPlace}
  OBVIOUS
<1>3. PICK k : k = Max(places)
  OBVIOUS
<1>4. PICK at : at = IF symbols[k].what \in Declaration THEN symbols[k].at
                     ELSE IF k < Len(symbols) THEN symbols[k + 1].at ELSE lookahead.n
  OBVIOUS
<1>5. \/ symbols' = symbols /\ wrong' = wrong
      \/ /\ places # {}
         /\ symbols' = IF symbols[k].what \in Declaration
                       THEN Append(SubSeq(symbols, 1, k - 1), Open("int_error", at, <<>>))
                       ELSE Append(SubSeq(symbols, 1, k), Open("error", at, <<>>))
         /\ wrong' = {token \in wrong : token < at}
  BY <1>2, <1>3, <1>4, Zenon DEF yyerror
<1>6. errors' \in Nat /\ errors' > 0
  BY <1>1 DEF LexTyped
<1>7. CASE symbols' = symbols /\ wrong' = wrong
  <2>1. LexTyped' /\ Proper(symbols, read)' /\ Top' = Top
    BY <1>1, <1>6, <1>7 DEF LexTyped, Top
  <2>2. Astray' => \A token \in wrong' : Top'.at <= token
    BY <1>1, <1>7, <2>1 DEF LexInv, Astray
  <2>3. ~ Astray' => Matched'
    <3>1. SUFFICES ASSUME ~ Astray' PROVE Matched'
      OBVIOUS
    <3>2. Matched
      BY <1>1, <2>1, <3>1 DEF LexInv, Astray
    <3>3. Awaited(symbols)' = Awaited(symbols) /\ Text(lookahead)' = Text(lookahead)
      BY <1>1, <1>7
    <3>4. PICK left \in Seq(Nat) : lexeme_stack = left \o (Awaited(symbols) \o Text(lookahead))
      BY <3>2 DEF Matched
    <3>5. lexeme_stack' = left \o (Awaited(symbols)' \o Text(lookahead)') /\ errors' # 0
      BY <1>1, <1>6, <3>3, <3>4
    <3>6. wrong' = {}
      BY <1>7, <3>2 DEF Matched
    <3> QED BY <3>5, <3>6, Zenon DEF Matched
  <2> QED BY <1>1, <2>1, <2>2, <2>3, Zenon DEF LexInv
<1>8. CASE /\ places # {}
           /\ symbols' = IF symbols[k].what \in Declaration
                         THEN Append(SubSeq(symbols, 1, k - 1), Open("int_error", at, <<>>))
                         ELSE Append(SubSeq(symbols, 1, k), Open("error", at, <<>>))
           /\ wrong' = {token \in wrong : token < at}
  <2>1. k \in 1..Len(symbols) /\ symbols[k].what \in Declaration \cup StatementPlace
    <3>1. PICK n \in Nat : n = Len(symbols) /\ DOMAIN symbols = 1..n
      BY <1>1 DEF Proper
    <3>2. places \subseteq 1..n
      BY <1>2, <3>1
    <3>3. k \in places
      BY <1>3, <1>8, <3>2, GreatestPlace
    <3> QED BY <1>2, <3>1, <3>3
  <2>2. PICK stack : stack = symbols'
    OBVIOUS
  <2>3. \/ /\ symbols[k].what \in Declaration /\ at = symbols[k].at
           /\ stack = Append(SubSeq(symbols, 1, k - 1), Open("int_error", at, <<>>))
        \/ /\ symbols[k].what \in StatementPlace
           /\ at = IF k < Len(symbols) THEN symbols[k + 1].at ELSE lookahead.n
           /\ stack = Append(SubSeq(symbols, 1, k), Open("error", at, <<>>))
    BY <1>4, <1>8, <2>1, <2>2, Zenon
  <2>4. /\ Proper(stack, read) /\ Last(stack).what \in Recovering
        /\ {token \in wrong : token < at} = {}
    BY <1>1, <2>1, <2>3, Recovered
  <2>5. wrong' = {} /\ LexTyped' /\ Proper(symbols, read)' /\ Top'.what \in Recovering
    <3>1. wrong' = {} /\ {} \subseteq Nat
      BY <1>8, <2>4
    <3> QED BY <1>1, <1>6, <2>2, <2>4, <3>1 DEF LexTyped, Top
  <2>6. Top'.what \notin Complete /\ ~ Astray'
    BY <2>5 DEF Recovering, Complete, Refusing, Astray
  <2> QED BY <1>6, <2>5, <2>6, Zenon DEF LexInv
<1> QED BY <1>5, <1>7, <1>8

LEMMA SkipStep ==
  ASSUME LexInv, Skip
  PROVE  LexInv'
<1>1. /\ LexTyped /\ Proper(symbols, read) /\ lookahead' = NoToken /\ read' = read
      /\ lexeme_stack' = lexeme_stack /\ errors' = errors /\ wrong' = wrong
      /\ Top.what \in Recovering /\ wrong = {} /\ errors > 0
  BY DEF LexInv, Skip, Recovering
<1>2. Top.at \in Nat /\ Top.at <= read
  BY <1>1, TopFacts DEF LexTyped
<1>3. Proper(symbols, read)' /\ Top'.what \in Recovering
  <2>1. CASE Top.what = "int_error]"
    <3>1. PICK what : what = "int_error"
      OBVIOUS
    <3>2. /\ what \in What /\ Texts(what) = 0 /\ what # "program" /\ what \notin Parameter
          /\ what \in Recovering
          /\ Top.what # "program" /\ Top.what \notin Expression
      BY <2>1, <3>1 DEF What, Recovering, Texts, OneText, TwoTexts, Parameter, Expression
    <3>3. PICK rule : rule = Open(what, Top.at, <<>>)
      OBVIOUS
    <3>4. rule \in Rule /\ rule.what = what /\ rule.at = Top.at /\ rule.held = <<>>
      BY <1>2, <3>2, <3>3 DEF Open, Rule
    <3>5. Fits(rule, read) /\ Last(symbols).at <= rule.at
      BY <1>2, <3>2, <3>4 DEF Fits, Top
    <3>6. PICK stack : stack = Append(Front(symbols), rule)
      OBVIOUS
    <3>7. Proper(stack, read) /\ Last(stack) = rule
      BY <1>1, <3>2, <3>4, <3>5, <3>6, ProperReplace DEF Top
    <3>8. symbols' = stack
      BY <2>1, <3>1, <3>3, <3>6 DEF Skip, Replace
    <3> QED BY <1>1, <3>2, <3>4, <3>7, <3>8 DEF Top
  <2>2. CASE Top.what # "int_error]"
    <3>1. symbols' = symbols
      BY <2>2 DEF Skip
    <3> QED BY <1>1, <3>1 DEF Top
  <2> QED BY <2>1, <2>2
<1>4. LexTyped'
  BY <1>1 DEF LexTyped
<1>5. Top'.what \notin Complete /\ ~ Astray'
  BY <1>3 DEF Recovering, Complete, Refusing, Astray
<1> QED BY <1>1, <1>3, <1>4, <1>5, Zenon DEF LexInv

LEMMA LexStep ==
  ASSUME LexInv, [Next]_vars
  PROVE  LexInv'
<1>1. CASE Next
  BY <1>1, yylexStep, ShiftStep, DeclarationStep, paramStep, fun_idStep, OperandStep,
     statement_listaStep, selecao_declStep, yyerrorStep, SkipStep DEF Next
<1>2. CASE UNCHANGED vars
  BY <1>2 DEF vars, LexInv, LexTyped, Matched, Astray, Top
<1> QED BY <1>1, <1>2

\* The state of the parser, its stack and lexeme_stack agree at all times.
THEOREM StackInvariant == Spec => []LexInv
<1>1. Init => LexInv
  BY LexInit
<1>2. LexInv /\ [Next]_vars => LexInv'
  BY LexStep
<1> QED BY <1>1, <1>2, PTL DEF Spec

\* Whenever no token is read ahead, every name and number in the tree has its own
\* text, also after syntax errors.
THEOREM TextsOwn == Spec => []TextsAreOwn
<1>1. LexInv => TextsAreOwn
  <2>1. SUFFICES ASSUME LexInv, lookahead = NoToken PROVE wrong = {}
    BY DEF TextsAreOwn
  <2>2. lookahead.kind \notin Named
    BY <2>1, TokenFacts DEF LexInv
  <2> QED BY <2>1, <2>2 DEF LexInv, Astray, Matched
<1> QED BY <1>1, StackInvariant, PTL

\* Whenever no token is read ahead, lexeme_stack ends with the texts of the tokens
\* that no rule has taken yet; before a syntax error it holds nothing else.
THEOREM TextsMatched == Spec => []TextsAwaited
<1>1. LexInv => TextsAwaited
  <2>1. SUFFICES ASSUME LexInv, lookahead = NoToken
                 PROVE  /\ IsSuffix(Awaited(symbols), lexeme_stack)
                        /\ errors = 0 => lexeme_stack = Awaited(symbols)
    BY Zenon DEF TextsAwaited, Awaited
  <2>2. LexTyped /\ Proper(symbols, read) /\ lexeme_stack \in Seq(Nat)
    BY <2>1 DEF LexInv, LexTyped
  <2>3. lookahead.kind \notin Named /\ Text(lookahead) = <<>>
    BY <2>1, <2>2, TokenFacts
  <2>4. PICK awaited \in Seq(Nat) : awaited = Awaited(symbols)
    BY <2>2, AwaitedType DEF Proper
  <2>5. \E left \in Seq(Nat) : lexeme_stack = left \o awaited /\ (errors = 0 => left = <<>>)
    <3>1. CASE Top.what \in Recovering
      <4>1. Top.what \notin Expression /\ Texts(Top.what) = 0
        BY <3>1 DEF Recovering, Expression, Texts, OneText, TwoTexts
      <4>2. awaited = <<>>
        BY <2>2, <2>4, <4>1, NoneBelow DEF Top
      <4>3. lexeme_stack = lexeme_stack \o awaited
        BY <2>2, <4>2, Together
      <4>4. errors # 0
        BY <2>1, <3>1 DEF LexInv
      <4> QED BY <2>2, <4>3, <4>4
    <3>2. CASE Top.what \notin Recovering
      <4>1. Matched
        BY <2>1, <2>3, <3>2 DEF LexInv, Astray
      <4>2. awaited \o <<>> = awaited
        BY Together
      <4> QED BY <2>3, <2>4, <4>1, <4>2, Zenon DEF Matched
    <3> QED BY <3>1, <3>2
  <2>6. PICK left \in Seq(Nat) : lexeme_stack = left \o awaited /\ (errors = 0 => left = <<>>)
    BY <2>5
  <2>7. IsSuffix(awaited, left \o awaited)
    BY SuffixOf
  <2>8. <<>> \o awaited = awaited
    OBVIOUS
  <2> QED BY <2>4, <2>6, <2>7, <2>8, Zenon
<1> QED BY <1>1, StackInvariant, PTL

-----------------------------------------------------------------------------
(* How many texts the open rules await.                                    *)

\* Indices open in each other.
Nested(stack) == {k \in DOMAIN stack : stack[k].what \in {"ID[", "ID[e]"}}

LEMMA OneMore ==
  ASSUME NEW k \in Nat, NEW A, A \subseteq 1..k
  PROVE  /\ IsFiniteSet(A) /\ Cardinality(A) \in Nat
         /\ Cardinality(A \cup {k + 1}) = Cardinality(A) + 1
<1>1. IsFiniteSet(1..k)
  BY FS_Interval
<1>2. IsFiniteSet(A) /\ Cardinality(A) \in Nat
  BY <1>1, FS_Subset, FS_CardinalityType
<1>3. k + 1 \notin A
  OBVIOUS
<1> QED BY <1>2, <1>3, FS_AddElement

\* Below the innermost rule only indices await a text, one each.
LEMMA AwaitedBelow ==
  ASSUME NEW stack, NEW now, Proper(stack, now), Last(stack).what # "program"
  PROVE  Len(Awaited(Front(stack))) <= Cardinality(Nested(stack))
<1>1. PICK front : front = Front(stack)
  OBVIOUS
<1>2. Proper(front, now)
  BY <1>1, ProperFront
<1>3. PICK n \in Nat \ {0} : /\ n = Len(front) /\ Len(stack) = n + 1 /\ DOMAIN stack = 1..(n + 1)
                             /\ \A k \in 1..n : front[k] = stack[k]
  <2>1. stack \in Seq(Rule) /\ stack # <<>> /\ Len(stack) >= 2 /\ Len(stack) \in Nat
    BY ProperFront DEF Proper
  <2>2. PICK n \in Nat \ {0} : Len(stack) = n + 1
    <3>1. PICK l \in Nat : l = Len(stack) /\ l >= 2
      BY <2>1
    <3>2. l - 1 \in Nat \ {0} /\ (l - 1) + 1 = l
      BY <3>1
    <3> QED BY <3>1, <3>2
  <2>3. Len(front) = n /\ \A k \in 1..n : front[k] = stack[k]
    BY <1>1, <2>1, <2>2, AwaitedFront
  <2> QED BY <2>1, <2>2, <2>3
<1>4. \A k \in 1..n : /\ front[k].held \in Seq(Nat)
                      /\ Len(front[k].held) = IF front[k].what = "ID[" THEN 1 ELSE 0
  <2>1. TAKE k \in 1..n
  <2>2. n + 1 \in 2..Len(stack) /\ k \in 1..((n + 1) - 1)
    BY <1>3
  <2>3. front[k].what \in Under
    BY <1>3, <2>2 DEF Proper, Within
  <2>4. Fits(front[k], now)
    BY <1>2, <1>3 DEF Proper
  <2>5. Texts(front[k].what) = IF front[k].what = "ID[" THEN 1 ELSE 0
    BY <2>3 DEF Under, ExpressionPlace, StatementPlace, Texts, OneText, TwoTexts
  <2> QED BY <2>4, <2>5 DEF Fits, Rule
<1>5. PICK seqs : seqs = [k \in 1..n |-> front[k].held]
  OBVIOUS
<1>6. PICK f : Joins(f, seqs, n) /\ Awaited(front) = f[n]
  <2>1. front \in Seq(Rule) /\ front # <<>>
    BY <1>2 DEF Proper
  <2> QED BY <1>3, <1>5, <2>1, HeldTexts
<1> DEFINE Indices(k) == {j \in 1..k : front[j].what = "ID["}
<1>7. PICK S : S = {k \in 1..n : Len(f[k]) = Cardinality(Indices(k))}
  OBVIOUS
<1>8. ASSUME NEW k \in Nat, NEW next, next = k + 1
      PROVE  /\ Cardinality(Indices(k)) \in Nat
             /\ Cardinality(Indices(next)) =
                  Cardinality(Indices(k)) + (IF front[next].what = "ID[" THEN 1 ELSE 0)
  <2>1. Indices(k) \subseteq 1..k
    OBVIOUS
  <2>2. /\ Cardinality(Indices(k)) \in Nat
        /\ Cardinality(Indices(k) \cup {next}) = Cardinality(Indices(k)) + 1
    <3> HIDE DEF Indices
    <3> QED BY <1>8, <2>1, OneMore
  <2>3. Indices(next) = IF front[next].what = "ID[" THEN Indices(k) \cup {next} ELSE Indices(k)
    <3>1. \A j \in 1..next : j = next \/ j \in 1..k
      BY <1>8
    <3>2. next \in 1..next /\ next \notin 1..k /\ \A j \in 1..k : j \in 1..next
      BY <1>8
    <3> QED BY <3>1, <3>2
  <2>4. CASE front[next].what = "ID["
    <3>1. Indices(next) = Indices(k) \cup {next}
      BY <2>3, <2>4, Zenon
    <3> HIDE DEF Indices
    <3> QED BY <2>2, <2>4, <3>1
  <2>5. CASE front[next].what # "ID["
    <3>1. Indices(next) = Indices(k)
      BY <2>3, <2>5, Zenon
    <3> HIDE DEF Indices
    <3> QED BY <2>2, <2>5, <3>1
  <2> QED BY <2>4, <2>5, Zenon
<1>9. Cardinality(Indices(0)) = 0
  <2>1. Indices(0) = {}
    OBVIOUS
  <2> QED BY <2>1, FS_EmptySet
<1> HIDE DEF Indices
<1>10. 1 \in S
  <2>1. 1 \in 1..n /\ f[1] = front[1].held
    <3>1. 1 \in 1..n
      OBVIOUS
    <3>2. f[1] = seqs[1]
      BY <1>6, <3>1, Zenon DEF Joins
    <3> QED BY <1>5, <3>1, <3>2
  <2>2. Cardinality(Indices(1)) =
          Cardinality(Indices(0)) + (IF front[1].what = "ID[" THEN 1 ELSE 0)
    BY <1>8
  <2>3. Len(f[1]) = Cardinality(Indices(1))
    <3>1. Len(f[1]) = IF front[1].what = "ID[" THEN 1 ELSE 0
      BY <1>4, <2>1, Zenon
    <3> QED BY <1>9, <2>2, <3>1
  <2> QED BY <1>7, <2>1, <2>3, Zenon
<1>11. ASSUME NEW k \in (1 + 1)..n, k - 1 \in S PROVE k \in S
  <2>1. k \in 1..n /\ k # 1 /\ k - 1 \in 1..n /\ k - 1 \in Nat /\ (k - 1) + 1 = k
    OBVIOUS
  <2>2. f[k] = f[k - 1] \o seqs[k] /\ f[k - 1] \in Seq(Nat) /\ seqs[k] = front[k].held
    BY <1>5, <1>6, <2>1 DEF Joins
  <2>3. Len(f[k]) = Len(f[k - 1]) + Len(front[k].held)
    BY <1>4, <2>1, <2>2, Together
  <2>4. Cardinality(Indices(k)) =
          Cardinality(Indices(k - 1)) + (IF front[k].what = "ID[" THEN 1 ELSE 0)
    BY <1>8, <2>1
  <2>5. Len(f[k - 1]) = Cardinality(Indices(k - 1))
    BY <1>7, <1>11
  <2>6. Len(f[k]) = Cardinality(Indices(k))
    BY <1>4, <2>1, <2>3, <2>4, <2>5
  <2> QED BY <1>7, <2>1, <2>6
<1>12. n \in S
  <2>1. \A k \in 1..n : k \in S
    BY <1>10, <1>11, Through
  <2> QED BY <2>1
<1>13. Len(Awaited(front)) = Cardinality(Indices(n))
  BY <1>6, <1>7, <1>12
<1>14. Cardinality(Indices(n)) <= Cardinality(Nested(stack))
  <2>1. Indices(n) \subseteq Nested(stack)
    BY <1>3 DEF Indices, Nested
  <2>2. IsFiniteSet(Nested(stack))
    <3>1. Nested(stack) \subseteq 1..(n + 1)
      BY <1>3 DEF Nested
    <3>2. IsFiniteSet(1..(n + 1))
      BY FS_Interval
    <3> QED BY <3>1, <3>2, FS_Subset
  <2> QED BY <2>1, <2>2, FS_Subset
<1> QED BY <1>1, <1>13, <1>14

\* The innermost rule adds a text, or is that of an array's declaration, with two.
LEMMA FewAwaited ==
  ASSUME NEW stack, NEW now, Proper(stack, now)
  PROVE  \/ Len(Awaited(stack)) <= Cardinality(Nested(stack)) + 1
         \/ Len(Awaited(stack)) = 2
<1>0. stack \in Seq(Rule) /\ stack # <<>> /\ Last(stack) \in Rule /\ Fits(Last(stack), now)
  <2>1. Len(stack) \in 1..Len(stack)
    BY DEF Proper
  <2> QED BY <2>1, AwaitedFront DEF Proper, Last
<1>1. Cardinality(Nested(stack)) \in Nat
  <2>1. PICK n \in Nat : n = Len(stack) /\ DOMAIN stack = 1..n
    BY <1>0
  <2>2. Nested(stack) \subseteq 1..n
    BY <2>1 DEF Nested
  <2> QED BY <2>1, <2>2, OneMore
<1>2. CASE Texts(Last(stack).what) = 0 /\ Last(stack).what \notin Expression
  <2>1. Awaited(stack) = <<>>
    BY <1>2, NoneBelow
  <2> QED BY <1>1, <2>1
<1>3. CASE Last(stack).what # "program"
  <2>1. PICK below \in Seq(Nat), held \in Seq(Nat) :
          /\ below = Awaited(Front(stack)) /\ held = Last(stack).held
          /\ Awaited(stack) = below \o held /\ Len(held) = Texts(Last(stack).what)
    BY <1>0, <1>3, ProperFront DEF Fits, Rule
  <2>2. Len(Awaited(stack)) = Len(below) + Texts(Last(stack).what)
    BY <2>1, Together
  <2>3. Len(below) <= Cardinality(Nested(stack)) /\ Len(below) \in Nat
    BY <1>3, <2>1, AwaitedBelow
  <2>4. CASE Last(stack).what \in TwoTexts
    <3>1. Last(stack).what \notin Expression /\ Texts(Last(stack).what) = 2
      BY <2>4 DEF TwoTexts, OneText, Expression, Texts
    <3>2. below = <<>>
      BY <1>3, <2>1, <3>1, NoneBelow
    <3> QED BY <2>2, <3>1, <3>2
  <2>5. CASE Last(stack).what \notin TwoTexts
    <3>1. Texts(Last(stack).what) \in {0, 1}
      BY <2>5 DEF Texts
    <3> QED BY <1>1, <2>2, <2>3, <3>1
  <2> QED BY <2>4, <2>5
<1>4. Last(stack).what = "program" =>
        Texts(Last(stack).what) = 0 /\ Last(stack).what \notin Expression
  BY DEF Texts, OneText, TwoTexts, Expression
<1> QED BY <1>2, <1>3, <1>4

\* The declaration of an array has two texts on lexeme_stack (parser.y:91-92), which
\* would fill one of two places.
LEMMA yylexNesting ==
  ASSUME LEXEMES # 2, LexInv, yylex, status' = "overflow", errors' = 0
  PROVE  OverflowIsNesting'
<1>1. /\ LexTyped /\ Proper(symbols, read) /\ lookahead = NoToken /\ symbols' = symbols
      /\ errors = 0 /\ status = "parsing"
  BY DEF LexInv, yylex
<1>2. Len(lexeme_stack) = LEXEMES
  BY <1>1, Zenon DEF yylex
<1>3. Matched
  <2>1. Top.what \notin Recovering
    BY <1>1 DEF LexInv
  <2>2. ~ Astray
    BY <1>1, TokenFacts DEF Astray
  <2> QED BY <2>1, <2>2 DEF LexInv
<1>4. lexeme_stack = Awaited(symbols)
  <2>1. PICK awaited \in Seq(Nat) : awaited = Awaited(symbols)
    BY <1>1, AwaitedType DEF Proper
  <2>2. Text(lookahead) = <<>>
    BY <1>1, TokenFacts
  <2>3. lexeme_stack = <<>> \o (awaited \o <<>>)
    BY <1>1, <1>3, <2>1, <2>2, Zenon DEF Matched
  <2>4. <<>> \o awaited = awaited /\ awaited \o <<>> = awaited
    OBVIOUS
  <2> QED BY <2>1, <2>3, <2>4
<1>5. PICK nested : nested = Nested(symbols)
  OBVIOUS
<1>6. LEXEMES <= Cardinality(nested) + 1
  BY <1>1, <1>2, <1>4, <1>5, FewAwaited
<1>7. Cardinality(nested) \in Nat /\ LEXEMES \in Nat
  <2>1. PICK n \in Nat : n = Len(symbols) /\ DOMAIN symbols = 1..n
    BY <1>1 DEF Proper
  <2>2. nested \subseteq 1..n
    BY <1>5, <2>1 DEF Nested
  <2> QED BY <2>1, <2>2, OneMore, SizesAssumption
<1>8. Cardinality(nested) >= LEXEMES - 1
  BY <1>6, <1>7
<1>9. nested = {k \in DOMAIN symbols' : symbols'[k].what \in {"ID[", "ID[e]"}}
  BY <1>1, <1>5 DEF Nested
<1> QED BY <1>8, <1>9 DEF OverflowIsNesting

\* In a program without a syntax error lexeme_stack is full only when as many indices
\* are open in each other as it has places, less one.
THEOREM OverflowNested ==
  ASSUME LEXEMES # 2
  PROVE  Spec => []OverflowIsNesting
<1>1. Init => OverflowIsNesting
  BY DEF Init, OverflowIsNesting
<1>2. LexInv /\ OverflowIsNesting /\ [Next]_vars => OverflowIsNesting'
  <2>1. SUFFICES ASSUME LexInv, OverflowIsNesting, [Next]_vars,
                        status' = "overflow", errors' = 0
                 PROVE  OverflowIsNesting'
    BY DEF OverflowIsNesting
  <2>2. CASE yylex
    BY <2>1, <2>2, yylexNesting
  <2>3. CASE UNCHANGED vars
    BY <2>1, <2>3 DEF vars, OverflowIsNesting
  <2>4. CASE Next /\ ~ yylex
    <3>1. status' \in {status, "failed"} /\ status = "parsing"
      BY <2>4 DEF Next, Shift, var_declaracao, var_declaracao_Array, param, fun_id, var, fator,
                  statement_lista, selecao_decl, yyerror, Skip, Reduce
    <3> QED BY <2>1, <3>1
  <2> QED BY <2>1, <2>2, <2>3, <2>4
<1> QED BY <1>1, <1>2, StackInvariant, PTL DEF Spec

=============================================================================
