---------------------------- MODULE FramesProofs ----------------------------
(***************************************************************************)
(* Proofs about Frames for any programs whose functions declare variables  *)
(* in blocks only if they call none (NestedInLeaves): the frames on the    *)
(* stack follow each other without a gap, what links them is intact, and   *)
(* Frames implements Activations.                                          *)
(***************************************************************************)
EXTENDS Frames, TLAPS

-----------------------------------------------------------------------------
(* The program. *)

LEMMA ProgramFacts ==
  ASSUME program \in Programs
  PROVE  /\ Main \in Nat \ {0} /\ Functions = 1..Main
         /\ Params \in [Functions -> Nat] /\ Locals \in [Functions -> Nat]
         /\ Nested \in [Functions -> Nat] /\ GlobalSize \in Nat
         /\ Params[Main] = 0
         /\ GlobalSize + Size(Main, 0) <= INIT_CONTEXT_SWITCH
         /\ \A f \in Functions : Callees[f] \subseteq {g \in Functions : g # Main}
<1> USE ProgramsAssumption
    DEF Functions, Main, Params, Locals, Nested, GlobalSize, Callees
<1>1. /\ program.Params \in Seq(Nat) /\ Len(program.Params) \in Nat \ {0}
      /\ program.Params \in [1..Len(program.Params) -> Nat]
      /\ DOMAIN program.Params = 1..Len(program.Params)
  OBVIOUS
<1>2. Main \in 1..Main
  BY <1>1
<1>3. Size(Main, 0) = 6 + program.Locals[Main]
  BY <1>1, <1>2 DEF Size
<1>4. GlobalSize + Size(Main, 0) <= INIT_CONTEXT_SWITCH
  <2>1. /\ program.GlobalSize \in Nat /\ program.Locals[Main] \in Nat
        /\ program.GlobalSize + 6 + program.Locals[Main] <= INIT_CONTEXT_SWITCH
    BY <1>1, <1>2
  <2> QED BY <1>3, <2>1, BoundsAssumption DEF INIT_CONTEXT_SWITCH, INIT_STACK_PARAMS
<1>5. \A f \in Functions : Callees[f] \subseteq {g \in Functions : g # Main}
  BY <1>1
<1>6. Main \in Nat \ {0} /\ Functions = 1..Main
  BY <1>1
<1>7. Params \in [Functions -> Nat] /\ Params[Main] = 0
  BY <1>1
<1>8. Locals \in [Functions -> Nat] /\ Nested \in [Functions -> Nat] /\ GlobalSize \in Nat
  BY <1>1
<1> QED BY <1>4, <1>5, <1>6, <1>7, <1>8

LEMMA Regions ==
  /\ INIT_CONTEXT_SWITCH \in Int /\ INIT_STACK_PARAMS \in Int /\ MaxParams \in Nat
  /\ INIT_STACK_PARAMS = INIT_CONTEXT_SWITCH + 32
BY BoundsAssumption DEF INIT_CONTEXT_SWITCH, INIT_STACK_PARAMS

LEMMA SameProgram ==
  ASSUME UNCHANGED program
  PROVE  /\ Params' = Params /\ Locals' = Locals /\ Nested' = Nested
         /\ GlobalSize' = GlobalSize /\ Callees' = Callees /\ Void' = Void
         /\ Functions' = Functions /\ Main' = Main /\ Words' = Words
BY DEF Params, Locals, Nested, GlobalSize, Callees, Void, Functions, Main, Words

-----------------------------------------------------------------------------
(* The inductive invariant. *)

\* Of the d-th open activation: function, frame pointer, control link, return
\* address, and the first word after the frame.
FnAt(d) == stack[d].fn
FpAt(d) == stack[d].fp
Link(d) == FpAt(d) + Vinculo_Controle(FnAt(d))
Back(d) == FpAt(d) + Endereco_Retorno(FnAt(d))
Past(d) == FpAt(d) + Size(FnAt(d), 0)

Typed ==
  /\ program \in Programs
  /\ fn \in Functions /\ block \in {0, Nested[fn]}
  /\ parametros \in 0..MaxParams
  /\ fp \in Nat /\ sp \in Nat
  /\ memory \in [Addresses -> Words]
  /\ reg \in Words
  /\ stack \in Seq([fn : Functions, fp : Nat]) /\ Len(stack) > 0

\* Main is the first activation, each calls the next, the last one runs.
Opened ==
  /\ FnAt(1) = Main
  /\ fn = FnAt(Len(stack)) /\ fp = FpAt(Len(stack))
  /\ \A d \in 2..Len(stack) : FnAt(d) \in Callees[FnAt(d - 1)]

\* Frames follow each other without a gap, after the global one.
Stacked ==
  /\ \A d \in 1..Len(stack) : GlobalSize <= FpAt(d)
  /\ \A d, e \in 1..Len(stack) : d < e => Past(d) <= FpAt(e)
  /\ \A d \in 2..Len(stack) : Past(d - 1) = FpAt(d)

\* $sp is within the partition and at the end of the running frame.
Topped ==
  /\ Past(Len(stack)) - 1 <= sp /\ sp < INIT_CONTEXT_SWITCH
  /\ fn # Main \/ ~ Leaf(fn) => sp = fp + Size(fn, Nested[fn]) - 1

Linked ==
  \A d \in 2..Len(stack) :
    /\ memory[Link(d)] = Address(Link(d - 1), 0)
    /\ \E ps \in 0..MaxParams : memory[Back(d)] = Site(FnAt(d - 1), 0, ps)

\* Arguments wait across a call only while the function called makes none.
Waiting ==
  /\ Leaf(fn) => parametros = 0
  /\ \A d \in 2..Len(stack) :
       \/ d = Len(stack) /\ Leaf(fn)
       \/ memory[Back(d)] = Site(FnAt(d - 1), 0, 0)

Shaped   == Typed /\ Opened /\ Stacked /\ Topped
FrameInv == Shaped /\ Linked /\ Waiting

-----------------------------------------------------------------------------
(* Where the frames are. *)

LEMMA LayoutFacts ==
  ASSUME program \in Programs, NEW f \in Functions
  PROVE  /\ Vinculo_Controle(f) \in Nat /\ Size(f, 0) \in Nat
         /\ Params[f] = Vinculo_Controle(f)
         /\ Endereco_Retorno(f) = Vinculo_Controle(f) + 1
         /\ Valor_Retorno(f) = Vinculo_Controle(f) + 2
         /\ FirstLocal(f) = Vinculo_Controle(f) + 6
         /\ Locals[f] \in Nat /\ Nested[f] \in Nat
         /\ Size(f, 0) = FirstLocal(f) + Locals[f]
         /\ Size(f, Nested[f]) = Size(f, 0) + Nested[f]
<1>1. Params[f] \in Nat /\ Locals[f] \in Nat /\ Nested[f] \in Nat
  BY ProgramFacts
<1> DEFINE p == Params[f]  l == Locals[f]  n == Nested[f]
<1>2. /\ Vinculo_Controle(f) = p /\ Endereco_Retorno(f) = p + 1
      /\ Valor_Retorno(f) = p + 2 /\ FirstLocal(f) = p + 6
  BY DEF Vinculo_Controle, Endereco_Retorno, Valor_Retorno, FirstLocal
<1>3. Size(f, 0) = p + 6 + l + 0 /\ Size(f, n) = p + 6 + l + n
  BY DEF Size
<1> HIDE DEF p, l, n
<1> QED BY <1>1, <1>2, <1>3 DEF p, l, n

\* A variable's offset in the frame is not one of the words of linkage.
LEMMA VariableFacts ==
  ASSUME program \in Programs, NEW f \in Functions, NEW v \in Variables(f)
  PROVE  /\ v \in Nat /\ v < Size(f, 0)
         /\ v < Vinculo_Controle(f) \/ v >= FirstLocal(f)
<1>1. v \in 0..(Params[f] - 1) \cup FirstLocal(f)..(FirstLocal(f) + Locals[f] - 1)
  BY DEF Variables
<1> DEFINE p == Params[f]  l == Locals[f]
<1>2. p \in Nat /\ l \in Nat /\ Vinculo_Controle(f) = p
      /\ FirstLocal(f) = p + 6 /\ Size(f, 0) = p + 6 + l
  BY LayoutFacts
<1>3. v \in 0..(p - 1) \cup (p + 6)..(p + 6 + l - 1)
  BY <1>1, <1>2
<1> HIDE DEF p, l
<1> QED BY <1>2, <1>3

LEMMA ActivationFacts ==
  ASSUME Typed
  PROVE  /\ Len(stack) \in Nat \ {0} /\ Len(stack) \in 1..Len(stack)
         /\ \A d \in 1..Len(stack) :
              /\ FnAt(d) \in Functions /\ FpAt(d) \in Nat
              /\ stack[d] = [fn |-> FnAt(d), fp |-> FpAt(d)]
              /\ Link(d) \in Nat /\ FpAt(d) <= Link(d)
              /\ Back(d) = Link(d) + 1
              /\ Link(d) + 6 <= Past(d) /\ Past(d) \in Nat
<1> DEFINE Activation == [fn : Functions, fp : Nat]
<1>1. stack \in Seq(Activation) /\ Len(stack) > 0 /\ program \in Programs
  BY DEF Typed
<1>2. \A d \in 1..Len(stack) : stack[d] \in Activation
  <2> HIDE DEF Activation
  <2> QED BY <1>1
<1>3. Len(stack) \in Nat \ {0} /\ Len(stack) \in 1..Len(stack)
  BY <1>1
<1>4. ASSUME NEW d \in 1..Len(stack)
      PROVE  /\ FnAt(d) \in Functions /\ FpAt(d) \in Nat
             /\ stack[d] = [fn |-> FnAt(d), fp |-> FpAt(d)]
  BY <1>2 DEF FnAt, FpAt
<1>5. ASSUME NEW d \in 1..Len(stack)
      PROVE  /\ Link(d) \in Nat /\ FpAt(d) <= Link(d)
             /\ Back(d) = Link(d) + 1
             /\ Link(d) + 6 <= Past(d) /\ Past(d) \in Nat
  <2> DEFINE base == FpAt(d)  link == Vinculo_Controle(FnAt(d))
             size == Size(FnAt(d), 0)  locals == Locals[FnAt(d)]
  <2>1. base \in Nat /\ FnAt(d) \in Functions
    BY <1>4
  <2>2. /\ link \in Nat /\ locals \in Nat /\ size = FirstLocal(FnAt(d)) + locals
        /\ FirstLocal(FnAt(d)) = link + 6 /\ Endereco_Retorno(FnAt(d)) = link + 1
    BY <1>1, <2>1, LayoutFacts
  <2>3. Link(d) = base + link /\ Back(d) = base + (link + 1) /\ Past(d) = base + (link + 6 + locals)
    BY <2>2 DEF Link, Back, Past
  <2> HIDE DEF base, link, size, locals
  <2>4. base + link \in Nat /\ base <= base + link /\ base + (link + 1) = base + link + 1
        /\ base + link + 6 <= base + (link + 6 + locals) /\ base + (link + 6 + locals) \in Nat
    BY <2>1, <2>2
  <2> QED BY <2>3, <2>4 DEF base
<1> QED BY <1>3, <1>4, <1>5

\* Frames lie between the global one and $sp, which is in the partition.
LEMMA FramesBelowSp ==
  ASSUME Shaped
  PROVE  /\ \A d \in 1..Len(stack) : Past(d) - 1 <= sp
         /\ \A a \in 0..sp : a \in Addresses /\ a < INIT_STACK_PARAMS
<1> USE DEF Shaped
<1>1. ASSUME NEW d \in 1..Len(stack) PROVE Past(d) - 1 <= sp
  <2> DEFINE n == Len(stack)  past == Past(d)  last == Past(n)  base == FpAt(n)
  <2>2. n \in 1..n /\ past \in Nat
    BY ActivationFacts DEF Typed
  <2>1. d = n \/ past <= base
    BY <2>2 DEF Stacked
  <2>3. last \in Nat /\ base \in Nat /\ base <= Link(n) /\ Link(n) + 6 <= last /\ Link(n) \in Nat
    BY <2>2, ActivationFacts
  <2>4. last - 1 <= sp /\ sp \in Nat
    BY DEF Typed, Topped
  <2>5. d = n => past = last
    OBVIOUS
  <2> HIDE DEF past, last, base
  <2>6. base <= last
    BY <2>3
  <2>7. past <= last
    BY <2>1, <2>2, <2>3, <2>5, <2>6
  <2>8. past - 1 <= sp
    BY <2>2, <2>3, <2>4, <2>7
  <2> QED BY <2>8 DEF past
<1>2. \A a \in 0..sp : a \in Addresses /\ a < INIT_STACK_PARAMS
  BY Regions DEF Topped, Typed, Addresses
<1> QED BY <1>1, <1>2

\* a is none of the words that link the open activations.
Spared(a) == \A d \in 2..Len(stack) : a # Link(d) /\ a # Back(d)

LEMMA LinksAddressed ==
  ASSUME Shaped, NEW d \in 1..Len(stack)
  PROVE  Link(d) \in 0..sp /\ Back(d) \in 0..sp /\ Link(d) \in Addresses /\ Back(d) \in Addresses
<1> DEFINE link == Link(d)  past == Past(d)
<1>1. link \in Nat /\ Back(d) = link + 1 /\ past \in Nat /\ link + 6 <= past
  BY ActivationFacts DEF Shaped
<1>2. past - 1 <= sp /\ sp \in Nat
  BY FramesBelowSp DEF Shaped, Typed
<1>3. link \in 0..sp /\ Back(d) \in 0..sp
  <2> HIDE DEF link, past
  <2> QED BY <1>1, <1>2
<1> QED BY <1>3, FramesBelowSp

\* Of two open activations one has its frame before the other's.
LEMMA FramesApart ==
  ASSUME Shaped, NEW d \in 1..Len(stack), NEW e \in 1..Len(stack),
         NEW a \in Nat, FpAt(d) <= a, a < Past(d), a # Link(d), a # Back(d)
  PROVE  a # Link(e) /\ a # Back(e)
<1> DEFINE base == FpAt(d)  past == Past(d)  base2 == FpAt(e)  past2 == Past(e)
           link == Link(e)  back == Back(e)
<1>1. base \in Nat /\ past \in Nat
  BY ActivationFacts DEF Shaped
<1>2. /\ base2 \in Nat /\ past2 \in Nat /\ link \in Nat /\ base2 <= link
      /\ back = link + 1 /\ link + 6 <= past2
  BY ActivationFacts DEF Shaped
<1>3. d = e \/ past <= base2 \/ past2 <= base
  BY DEF Shaped, Stacked
<1>4. base <= a /\ a < past /\ (d = e => a # link /\ a # back)
  OBVIOUS
<1> SUFFICES a # link /\ a # back
  OBVIOUS
<1> HIDE DEF base, past, base2, past2, link, back
<1> QED BY <1>1, <1>2, <1>3, <1>4

\* A variable of an open activation is a word of the partition and links nothing.
LEMMA VariablesSpared ==
  ASSUME Shaped, NEW d \in 1..Len(stack), NEW v \in Variables(FnAt(d))
  PROVE  FpAt(d) + v \in 0..sp /\ FpAt(d) + v \in Addresses /\ Spared(FpAt(d) + v)
<1> DEFINE base == FpAt(d)  link == Vinculo_Controle(FnAt(d))  size == Size(FnAt(d), 0)
           past == Past(d)
<1>1. program \in Programs /\ FnAt(d) \in Functions /\ base \in Nat
  BY ActivationFacts DEF Shaped, Typed
<1>2. v \in Nat /\ v < size /\ (v < link \/ v >= link + 6) /\ link \in Nat /\ size \in Nat
  BY <1>1, VariableFacts, LayoutFacts
<1>3. Link(d) = base + link /\ Back(d) = base + (link + 1) /\ past = base + size
  BY <1>1, LayoutFacts DEF Past, Link, Back
<1>4. past - 1 <= sp /\ sp \in Nat
  BY FramesBelowSp DEF Shaped, Typed
<1>5. /\ base + v \in 0..sp /\ base <= base + v /\ base + v < past
      /\ base + v # Link(d) /\ base + v # Back(d)
  <2> HIDE DEF base, link, size, past
  <2> QED BY <1>1, <1>2, <1>3, <1>4
<1>6. base + v \in Nat
  BY <1>1, <1>2
<1>7. \A e \in 2..Len(stack) : base + v # Link(e) /\ base + v # Back(e)
  <2> SUFFICES ASSUME NEW e \in 2..Len(stack)
               PROVE  base + v # Link(e) /\ base + v # Back(e)
    OBVIOUS
  <2>1. e \in 1..Len(stack)
    BY ActivationFacts DEF Shaped
  <2> QED BY <1>5, <1>6, <2>1, FramesApart
<1> QED BY <1>5, <1>7, FramesBelowSp DEF Spared

\* Globals and the parameter stack link nothing either.
LEMMA GlobalsSpared ==
  ASSUME Shaped, NEW a \in Globals
  PROVE  a \in 0..sp /\ a \in Addresses /\ Spared(a)
<1>1. GlobalSize \in Nat
  BY ProgramFacts DEF Shaped, Typed
<1>2. a \in Nat /\ a < GlobalSize
  BY <1>1 DEF Globals
<1>3. ASSUME NEW d \in 1..Len(stack)
      PROVE  a \in 0..sp /\ a # Link(d) /\ a # Back(d)
  <2> DEFINE base == FpAt(d)  link == Link(d)  past == Past(d)  size == GlobalSize
  <2>1. size <= base
    BY DEF Shaped, Stacked
  <2>2. /\ base \in Nat /\ link \in Nat /\ base <= link /\ Back(d) = link + 1
        /\ link + 6 <= past /\ past \in Nat
    BY ActivationFacts DEF Shaped
  <2>3. past - 1 <= sp /\ sp \in Nat
    BY FramesBelowSp DEF Shaped, Typed
  <2>4. size \in Nat /\ a < size
    BY <1>1, <1>2
  <2>5. link \in 0..sp /\ Back(d) \in 0..sp
    BY LinksAddressed
  <2> HIDE DEF base, link, past, size
  <2>6. a < link /\ a < link + 1 /\ a <= sp
    BY <1>2, <2>1, <2>2, <2>3, <2>4
  <2> QED BY <1>2, <2>2, <2>3, <2>6 DEF link
<1>4. 1 \in 1..Len(stack) /\ \A d \in 2..Len(stack) : d \in 1..Len(stack)
  BY ActivationFacts DEF Shaped
<1> QED BY <1>3, <1>4, FramesBelowSp DEF Spared

LEMMA ParametersSpared ==
  ASSUME Shaped, NEW p \in 0..MaxParams - 1
  PROVE  INIT_STACK_PARAMS + p \in Addresses /\ Spared(INIT_STACK_PARAMS + p)
<1>1. INIT_STACK_PARAMS + p \in INIT_STACK_PARAMS..(INIT_STACK_PARAMS + MaxParams - 1)
  BY Regions
<1>2. sp \in Nat /\ sp < INIT_STACK_PARAMS + p
  BY Regions DEF Shaped, Topped, Typed
<1>3. \A d \in 2..Len(stack) : Link(d) \in 0..sp /\ Back(d) \in 0..sp
  BY LinksAddressed, ActivationFacts DEF Shaped
<1> QED BY <1>1, <1>2, <1>3, Regions DEF Spared, Addresses

-----------------------------------------------------------------------------
(* Steps that keep the activations. *)

LEMMA SameStack ==
  ASSUME UNCHANGED <<program, stack>>, NEW d
  PROVE  /\ FnAt(d)' = FnAt(d) /\ FpAt(d)' = FpAt(d)
         /\ Link(d)' = Link(d) /\ Back(d)' = Back(d) /\ Past(d)' = Past(d)
<1>1. Params' = Params /\ Locals' = Locals /\ Nested' = Nested
  BY SameProgram
<1> QED BY <1>1 DEF FnAt, FpAt, Link, Back, Past, Vinculo_Controle, Endereco_Retorno, Size

LEMMA WordFacts ==
  /\ Values \subseteq Words
  /\ \A a \in Addresses : Address(a, 0) \in Words
  /\ \A a \in Addresses, f \in Functions : Address(a, Locals[f]) \in Words
  /\ \A f \in Functions, ps \in 0..MaxParams : Site(f, 0, ps) \in Words
BY DEF Words

\* What declares in blocks calls nothing.
LEMMA CallersFlat ==
  ASSUME NestedInLeaves, program \in Programs, NEW f \in Functions, ~ Leaf(f)
  PROVE  Nested[f] = 0
BY DEF NestedInLeaves, Functions, Leaf, Nested, Callees

\* The linkage stays where no word of it is written.
LEMMA LinkageKept ==
  ASSUME Shaped, Linked, Waiting, UNCHANGED <<program, fn, stack>>,
         \A d \in 2..Len(stack) : memory'[Link(d)] = memory[Link(d)] /\ memory'[Back(d)] = memory[Back(d)],
         Leaf(fn) => parametros' = 0
  PROVE  Linked' /\ Waiting'
<1>1. Linked'
  <2> SUFFICES ASSUME NEW d \in 2..Len(stack)
               PROVE  /\ memory'[Link(d)'] = Address(Link(d - 1)', 0)
                      /\ \E ps \in 0..MaxParams : memory'[Back(d)'] = Site(FnAt(d - 1)', 0, ps)
    BY DEF Linked
  <2>1. Link(d)' = Link(d) /\ Back(d)' = Back(d)
        /\ Link(d - 1)' = Link(d - 1) /\ FnAt(d - 1)' = FnAt(d - 1)
    BY SameStack
  <2> QED BY <2>1 DEF Linked
<1>2. Waiting'
  <2>1. Leaf(fn)' <=> Leaf(fn)
    BY SameProgram DEF Leaf
  <2>2. ASSUME NEW d \in 2..Len(stack)
        PROVE  \/ d = Len(stack) /\ Leaf(fn)
               \/ memory'[Back(d)'] = Site(FnAt(d - 1)', 0, 0)
    <3>1. Back(d)' = Back(d) /\ FnAt(d - 1)' = FnAt(d - 1)
      BY SameStack
    <3> QED BY <3>1 DEF Waiting
  <2> QED BY <2>1, <2>2 DEF Waiting
<1> QED BY <1>1, <1>2

\* A step in an activation: frames stay; in main $sp may take in the words of a block.
LEMMA InActivation ==
  ASSUME NestedInLeaves, FrameInv, UNCHANGED <<program, fn, fp, stack>>,
         block' \in {0, Nested[fn]}, parametros' \in 0..MaxParams, Leaf(fn) => parametros' = 0,
         \/ sp' = sp
         \/ fn = Main /\ sp' = sp + Nested[fn] /\ sp' < INIT_CONTEXT_SWITCH,
         memory' \in [Addresses -> Words], reg' \in Words,
         \A d \in 2..Len(stack) : memory'[Link(d)] = memory[Link(d)] /\ memory'[Back(d)] = memory[Back(d)]
  PROVE  FrameInv'
<1> USE DEF FrameInv, Shaped
<1>1. program \in Programs /\ fn \in Functions /\ Nested[fn] \in Nat
  BY LayoutFacts DEF Typed
<1>2. Typed'
  BY <1>1, SameProgram DEF Typed
<1>3. Opened'
  <2>1. \A d : FnAt(d)' = FnAt(d) /\ FpAt(d)' = FpAt(d)
    BY SameStack
  <2> QED BY <2>1, SameProgram DEF Opened
<1>4. Stacked'
  <2>1. \A d : FpAt(d)' = FpAt(d) /\ Past(d)' = Past(d)
    BY SameStack
  <2> QED BY <2>1, SameProgram DEF Stacked
<1>5. Topped'
  <2>1. Past(Len(stack))' = Past(Len(stack)) /\ Past(Len(stack)) \in Nat
    BY SameStack, ActivationFacts
  <2>2. /\ Main' = Main /\ (Leaf(fn)' <=> Leaf(fn))
        /\ (fp + Size(fn, Nested[fn]) - 1)' = fp + Size(fn, Nested[fn]) - 1
    BY SameProgram DEF Leaf, Size
  <2>3. sp' = sp \/ (sp' >= sp /\ sp' < INIT_CONTEXT_SWITCH /\ fn = Main /\ (~ Leaf(fn) => sp' = sp))
    BY <1>1, CallersFlat DEF Typed
  <2>4. Past(Len(stack)) - 1 <= sp' /\ sp' < INIT_CONTEXT_SWITCH
    BY <1>2, <2>1, <2>3 DEF Topped, Typed
  <2>5. fn # Main \/ ~ Leaf(fn) => sp' = fp + Size(fn, Nested[fn]) - 1
    BY <2>3 DEF Topped
  <2> QED BY <2>1, <2>2, <2>4, <2>5 DEF Topped
<1>6. Linked' /\ Waiting'
  BY LinkageKept
<1> QED BY <1>2, <1>3, <1>4, <1>5, <1>6

\* A write to a word that links nothing.
LEMMA WriteSpared ==
  ASSUME NestedInLeaves, FrameInv, UNCHANGED <<program, fn, block, fp, sp, stack>>,
         parametros' \in 0..MaxParams, Leaf(fn) => parametros' = 0, reg' \in Words,
         NEW a \in Addresses, Spared(a), NEW w \in Words, memory' = [memory EXCEPT ![a] = w]
  PROVE  FrameInv'
<1>1. memory \in [Addresses -> Words] /\ block \in {0, Nested[fn]}
  BY DEF FrameInv, Shaped, Typed
<1>2. \A d \in 2..Len(stack) : memory'[Link(d)] = memory[Link(d)] /\ memory'[Back(d)] = memory[Back(d)]
  BY <1>1 DEF Spared
<1>3. memory' \in [Addresses -> Words]
  BY <1>1
<1> QED BY <1>1, <1>2, <1>3, InActivation

-----------------------------------------------------------------------------
(* The actions. *)

LEMMA VisibleSpared ==
  ASSUME Shaped, NEW a \in Visible
  PROVE  a \in 0..sp /\ a \in Addresses /\ Spared(a)
<1>1. CASE a \in Globals
  BY <1>1, GlobalsSpared
<1>2. CASE a \in {fp + v : v \in Variables(fn)}
  <2>1. Len(stack) \in 1..Len(stack) /\ fn = FnAt(Len(stack)) /\ fp = FpAt(Len(stack))
    BY ActivationFacts DEF Shaped, Opened
  <2> QED BY <1>2, <2>1, VariablesSpared
<1> QED BY <1>1, <1>2 DEF Visible

\* An element of a live array is a variable of the activation that has the array.
LEMMA ElementsAreVariables ==
  ASSUME Shaped, NEW a \in Elements
  PROVE  \E d \in 1..Len(stack) : \E v \in Variables(FnAt(d)) : a = FpAt(d) + v
<1>1. PICK p \in 0..(Params[fn] - 1) :
        /\ memory[fp + p] \in LiveArrays
        /\ \E e \in 0..(memory[fp + p].len - 1) : a = memory[fp + p].address + e
  BY DEF Elements
<1>2. PICK d \in 1..Len(stack) : memory[fp + p] = LocalArray(FnAt(d), FpAt(d))
  BY <1>1 DEF LiveArrays, FnAt, FpAt
<1> DEFINE f == FnAt(d)  base == FpAt(d)
<1>3. memory[fp + p].len = Locals[f] /\ memory[fp + p].address = base + FirstLocal(f)
  BY <1>2 DEF LocalArray, Address
<1>4. PICK e \in 0..(Locals[f] - 1) : a = base + FirstLocal(f) + e
  BY <1>1, <1>3
<1>5. base \in Nat /\ f \in Functions /\ program \in Programs
  BY ActivationFacts DEF Shaped, Typed
<1>6. FirstLocal(f) \in Nat /\ Locals[f] \in Nat
  BY <1>5, LayoutFacts
<1>7. FirstLocal(f) + e \in Variables(f) /\ a = base + (FirstLocal(f) + e)
  <2> DEFINE first == FirstLocal(f)  locals == Locals[f]
  <2>1. first + e \in first..(first + locals - 1) /\ a = base + (first + e)
    <3>1. first \in Nat /\ locals \in Nat /\ base \in Nat /\ e \in 0..(locals - 1) /\ a = base + first + e
      BY <1>4, <1>5, <1>6
    <3> HIDE DEF first, locals, base
    <3> QED BY <3>1
  <2> QED BY <2>1 DEF Variables
<1> QED BY <1>7

LEMMA ElementsSpared ==
  ASSUME Shaped, NEW a \in Elements
  PROVE  a \in 0..sp /\ a \in Addresses /\ Spared(a)
BY ElementsAreVariables, VariablesSpared

\* Steps that only put a word in the register.
LEMMA RegisterStep ==
  ASSUME NestedInLeaves, FrameInv, UNCHANGED <<control, memory>>, reg' \in Words
  PROVE  FrameInv'
<1>1. /\ block \in {0, Nested[fn]} /\ parametros \in 0..MaxParams /\ memory \in [Addresses -> Words]
      /\ Leaf(fn) => parametros = 0
  BY DEF FrameInv, Shaped, Typed, Waiting
<1> QED BY <1>1, InActivation DEF control

LEMMA ReadStep ==
  ASSUME NestedInLeaves, FrameInv, Compute \/ LOAD \/ LOAD_Element
  PROVE  FrameInv'
<1>1. memory \in [Addresses -> Words] /\ Shaped
  BY DEF FrameInv, Shaped, Typed
<1>2. UNCHANGED <<control, memory>>
  BY DEF Compute, LOAD, LOAD_Element
<1>3. reg' \in Words
  <2>1. CASE Compute
    BY <2>1, WordFacts DEF Compute
  <2>2. CASE LOAD
    BY <2>2, <1>1, VisibleSpared DEF LOAD
  <2>3. CASE LOAD_Element
    BY <2>3, <1>1, ElementsSpared DEF LOAD_Element
  <2> QED BY <2>1, <2>2, <2>3
<1> QED BY <1>2, <1>3, RegisterStep

LEMMA WriteStep ==
  ASSUME NestedInLeaves, FrameInv, STORE \/ STORE_Element
  PROVE  FrameInv'
<1>1. /\ reg \in Words /\ parametros \in 0..MaxParams /\ Shaped
      /\ Leaf(fn) => parametros = 0
  BY DEF FrameInv, Shaped, Typed, Waiting
<1>2. UNCHANGED <<control, reg>>
  BY DEF STORE, STORE_Element
<1>3. PICK a \in Addresses : Spared(a) /\ memory' = [memory EXCEPT ![a] = reg]
  <2>1. CASE STORE
    BY <2>1, <1>1, VisibleSpared DEF STORE
  <2>2. CASE STORE_Element
    BY <2>2, <1>1, ElementsSpared DEF STORE_Element
  <2> QED BY <2>1, <2>2
<1> QED BY <1>1, <1>2, <1>3, WriteSpared DEF control

LEMMA MoveStep ==
  ASSUME NestedInLeaves, FrameInv, Jump \/ ALLOC
  PROVE  FrameInv'
<1>1. /\ reg \in Words /\ parametros \in 0..MaxParams /\ memory \in [Addresses -> Words]
      /\ Leaf(fn) => parametros = 0
  BY DEF FrameInv, Shaped, Typed, Waiting
<1>2. CASE Jump
  BY <1>1, <1>2, InActivation DEF Jump
<1>3. CASE ALLOC
  BY <1>1, <1>3, InActivation DEF ALLOC
<1> QED BY <1>2, <1>3

LEMMA ParamStep ==
  ASSUME NestedInLeaves, FrameInv, NEW w \in Words, PARAM(w)
  PROVE  FrameInv'
<1>1. parametros \in 0..MaxParams /\ parametros < MaxParams /\ Shaped
  BY DEF FrameInv, Shaped, Typed, PARAM
<1>2. parametros \in 0..MaxParams - 1 /\ parametros + 1 \in 0..MaxParams
  BY <1>1, Regions
<1>3. INIT_STACK_PARAMS + parametros \in Addresses /\ Spared(INIT_STACK_PARAMS + parametros)
  BY <1>1, <1>2, ParametersSpared
<1> QED BY <1>1, <1>2, <1>3, WriteSpared DEF PARAM

\* The array a function passes is in its frame.
LEMMA ArrayIsWord ==
  ASSUME Shaped, Locals[fn] > 0
  PROVE  LocalArray(fn, fp) \in Words
<1>1. /\ Len(stack) \in 1..Len(stack) /\ fn = FnAt(Len(stack)) /\ fp = FpAt(Len(stack))
      /\ fn \in Functions /\ program \in Programs
  BY ActivationFacts DEF Shaped, Opened, Typed
<1>2. FirstLocal(fn) \in Variables(fn)
  <2>1. FirstLocal(fn) \in Nat /\ Locals[fn] \in Nat
    BY <1>1, LayoutFacts
  <2> QED BY <2>1 DEF Variables
<1>3. fp + FirstLocal(fn) \in Addresses
  BY <1>1, <1>2, VariablesSpared
<1> QED BY <1>1, <1>3, WordFacts DEF LocalArray

\* A call: the running frame ends at $sp, so the new one starts after it.
LEMMA CallPlaces ==
  ASSUME NestedInLeaves, Shaped, NEW g \in Callees[fn], CALL(g)
  PROVE  /\ g \in Functions /\ g # Main /\ ~ Leaf(fn) /\ block = 0
         /\ fp' = sp + 1 /\ fp' = Past(Len(stack)) /\ fp' \in Nat
         /\ sp' = fp' + Size(g, Nested[g]) - 1 /\ sp' < INIT_CONTEXT_SWITCH
         /\ fp' + Size(g, 0) - 1 <= sp' /\ sp' \in Nat
         /\ parametros - Params[g] \in 0..MaxParams
<1>1. /\ program \in Programs /\ fn \in Functions /\ fp \in Nat /\ sp \in Nat
      /\ block \in {0, Nested[fn]} /\ parametros \in 0..MaxParams
  BY DEF Shaped, Typed
<1>2. g \in Functions /\ g # Main
  BY <1>1, ProgramFacts
<1>3. ~ Leaf(fn)
  BY DEF Leaf
<1>4. Nested[fn] = 0 /\ block = 0
  BY <1>1, <1>3, CallersFlat
<1>5. Past(Len(stack)) = fp + Size(fn, 0) /\ sp = fp + Size(fn, 0) - 1 /\ Size(fn, 0) \in Nat
  BY <1>1, <1>3, <1>4, LayoutFacts DEF Shaped, Topped, Opened, Past
<1>6. CalleeSize(g, fn, block) = Size(g, Nested[g])
  BY <1>4 DEF CalleeSize
<1>7. Size(g, 0) \in Nat /\ Nested[g] \in Nat /\ Size(g, Nested[g]) = Size(g, 0) + Nested[g]
      /\ Size(g, 0) >= 6 /\ Params[g] \in Nat
  <2>1. /\ Vinculo_Controle(g) \in Nat /\ Locals[g] \in Nat /\ Nested[g] \in Nat
        /\ Size(g, 0) = Vinculo_Controle(g) + 6 + Locals[g]
        /\ Size(g, Nested[g]) = Size(g, 0) + Nested[g] /\ Params[g] = Vinculo_Controle(g)
    BY <1>1, <1>2, LayoutFacts
  <2> DEFINE p == Vinculo_Controle(g)  l == Locals[g]  size == Size(g, 0)
  <2>2. size \in Nat /\ size >= 6
    <3>1. p \in Nat /\ l \in Nat /\ size = p + 6 + l
      BY <2>1
    <3> HIDE DEF p, l, size
    <3> QED BY <3>1
  <2> QED BY <2>1, <2>2
<1>8. fp' = fp + Size(fn, 0) /\ sp' = sp + Size(g, Nested[g]) /\ sp' < INIT_CONTEXT_SWITCH
  BY <1>4, <1>6 DEF CALL
<1>9. parametros - Params[g] = 0 \/ parametros - Params[g] > 0
  BY DEF CALL
<1>10. parametros - Params[g] \in 0..MaxParams
  BY <1>1, <1>7, <1>9, Regions
<1>11. /\ fp' = sp + 1 /\ fp' \in Nat /\ fp' + Size(g, 0) - 1 <= sp' /\ sp' \in Nat
       /\ sp' = fp' + Size(g, Nested[g]) - 1
  <2> DEFINE own == Size(fn, 0)  size == Size(g, 0)  nested == Nested[g]  full == Size(g, Nested[g])
  <2>1. /\ own \in Nat /\ size \in Nat /\ size >= 6 /\ nested \in Nat /\ full = size + nested
        /\ fp' = fp + own /\ sp' = sp + full /\ sp = fp + own - 1
    BY <1>5, <1>7, <1>8
  <2> HIDE DEF own, size, nested, full
  <2>2. fp' = sp + 1 /\ fp' \in Nat /\ fp' + size - 1 <= sp' /\ sp' \in Nat /\ sp' = fp' + full - 1
    BY <1>1, <2>1
  <2> QED BY <2>2 DEF size, full
<1> QED BY <1>2, <1>3, <1>4, <1>5, <1>8, <1>10, <1>11

\* What it writes: arguments and control link after $sp, then the return address.
LEMMA CallWrites ==
  ASSUME NestedInLeaves, Shaped, NEW g \in Callees[fn], CALL(g)
  PROVE  LET base == Past(Len(stack))
         IN  /\ \A a \in 0..sp : memory'[a] = memory[a]
             /\ \A p \in 0..(Params[g] - 1) :
                  memory'[base + p] = memory[INIT_STACK_PARAMS + (parametros - Params[g]) + p]
             /\ memory'[base + Vinculo_Controle(g)] = Address(Link(Len(stack)), 0)
             /\ memory'[base + Endereco_Retorno(g)] = Site(fn, 0, parametros - Params[g])
             /\ \A a \in Addresses : a >= INIT_STACK_PARAMS => memory'[a] = memory[a]
             /\ memory' \in [Addresses -> Words]
<1> DEFINE base == Past(Len(stack))  params == Params[g]  left == parametros - params
           link == Address(fp + Vinculo_Controle(fn), 0)
           moved == [i \in 1..params |-> memory[INIT_STACK_PARAMS + left + i - 1]]
           linked == [a \in Addresses |->
                        IF a - sp \in 1..params THEN moved[a - sp]
                        ELSE IF a = sp + params + 1 THEN link
                        ELSE memory[a]]
           site == Site(fn, 0, left)
<1>1. /\ g \in Functions /\ block = 0 /\ base = sp + 1 /\ base \in Nat /\ fp' = base
      /\ sp' \in Nat /\ sp' < INIT_CONTEXT_SWITCH /\ left \in 0..MaxParams
      /\ base + Size(g, 0) - 1 <= sp'
  BY CallPlaces
<1>2. /\ program \in Programs /\ fn \in Functions /\ sp \in Nat /\ parametros \in 0..MaxParams
      /\ memory \in [Addresses -> Words] /\ sp < INIT_CONTEXT_SWITCH
  BY DEF Shaped, Typed, Topped
<1>3. /\ params \in Nat /\ Endereco_Retorno(g) = params + 1 /\ Vinculo_Controle(g) = params
      /\ base + params + 5 <= sp'
  <2> DEFINE size == Size(g, 0)  locals == Locals[g]
  <2>1. /\ params \in Nat /\ locals \in Nat /\ size = params + 6 + locals
        /\ Endereco_Retorno(g) = params + 1 /\ Vinculo_Controle(g) = params
    BY <1>1, <1>2, LayoutFacts
  <2>2. base + size - 1 <= sp'
    BY <1>1
  <2> HIDE DEF base, params, size, locals
  <2> QED BY <1>1, <2>1, <2>2
<1>4. memory' = [linked EXCEPT ![base + (params + 1)] = site]
  BY <1>1, <1>3 DEF CALL
<1>5. link = Address(Link(Len(stack)), 0) /\ link \in Words
  <2>1. fp + Vinculo_Controle(fn) = Link(Len(stack)) /\ Link(Len(stack)) \in Addresses
    BY LinksAddressed, ActivationFacts DEF Shaped, Opened, Link
  <2> QED BY <2>1, WordFacts
<1>6. site \in Words
  BY <1>1, <1>2, WordFacts
<1>7. \A i \in 1..params : /\ moved[i] = memory[INIT_STACK_PARAMS + left + i - 1]
                           /\ moved[i] \in Words
  <2> SUFFICES ASSUME NEW i \in 1..params
               PROVE  INIT_STACK_PARAMS + left + i - 1 \in Addresses
    BY <1>2
  <2>1. left = parametros - params /\ left \in 0..MaxParams
    BY <1>1
  <2> HIDE DEF params, left
  <2> QED BY <1>2, <1>3, <2>1, Regions DEF Addresses
<1> HIDE DEF base, params, left, link, moved, site
<1>8. linked \in [Addresses -> Words]
  BY <1>2, <1>5, <1>7
<1>9. memory' \in [Addresses -> Words]
  <2> HIDE DEF linked
  <2> QED BY <1>4, <1>6, <1>8
<1>10. \A a \in Addresses : a <= sp \/ a >= INIT_STACK_PARAMS => memory'[a] = memory[a]
  <2> SUFFICES ASSUME NEW a \in Addresses, a <= sp \/ a >= INIT_STACK_PARAMS
               PROVE  memory'[a] = memory[a]
    OBVIOUS
  <2>1. a \in Int
    BY Regions DEF Addresses
  <2>2. a # base + (params + 1) /\ ~ (a - sp \in 1..params) /\ a # sp + params + 1
    BY <1>1, <1>2, <1>3, <2>1, Regions
  <2> QED BY <1>4, <2>2
<1>11. \A a \in 0..sp' : a \in Addresses
  BY <1>1, Regions DEF Addresses
<1>12. memory'[base + params] = link
  <2>1. base + params \in Addresses
    BY <1>1, <1>3, <1>11
  <2> DEFINE word == base + params
  <2>2. word # base + (params + 1) /\ ~ (word - sp \in 1..params) /\ word = sp + params + 1
    BY <1>1, <1>2, <1>3
  <2> HIDE DEF word
  <2>3. linked[word] = link
    BY <2>1, <2>2 DEF word
  <2>4. memory'[word] = linked[word]
    <3> HIDE DEF linked
    <3> QED BY <1>4, <1>8, <2>1, <2>2 DEF word
  <2> QED BY <2>3, <2>4 DEF word
<1>13. memory'[base + (params + 1)] = site
  <2>1. base + (params + 1) \in Addresses
    BY <1>1, <1>3, <1>11
  <2> QED BY <1>4, <2>1
<1>14. \A p \in 0..(params - 1) : memory'[base + p] = memory[INIT_STACK_PARAMS + left + p]
  <2> SUFFICES ASSUME NEW p \in 0..(params - 1)
               PROVE  memory'[base + p] = memory[INIT_STACK_PARAMS + left + p]
    OBVIOUS
  <2> DEFINE word == base + p
  <2>1. word \in Addresses /\ word # base + (params + 1)
        /\ word - sp = p + 1 /\ p + 1 \in 1..params
    BY <1>1, <1>2, <1>3, <1>11
  <2> HIDE DEF word
  <2>4. linked[word] = moved[p + 1]
    BY <2>1
  <2>5. memory'[word] = linked[word]
    <3> HIDE DEF linked
    <3> QED BY <1>4, <1>8, <2>1
  <2>2. memory'[base + p] = moved[p + 1]
    BY <2>4, <2>5 DEF word
  <2>3. INIT_STACK_PARAMS + left + (p + 1) - 1 = INIT_STACK_PARAMS + left + p
    BY <1>1, Regions
  <2> QED BY <1>7, <2>1, <2>2, <2>3
<1>15. \A a \in 0..sp : a \in Addresses /\ a <= sp
  BY <1>2, Regions DEF Addresses
<1> QED BY <1>3, <1>5, <1>9, <1>10, <1>12, <1>13, <1>14, <1>15 DEF base, params, left, site

\* The activations after a call: those before it, and the one called.
LEMMA CallStack ==
  ASSUME NestedInLeaves, Shaped, NEW g \in Callees[fn], CALL(g), NEW n, n = Len(stack)
  PROVE  /\ Len(stack') = n + 1
         /\ stack' \in Seq([fn : Functions, fp : Nat])
         /\ \A d \in 1..n : /\ FnAt(d)' = FnAt(d) /\ FpAt(d)' = FpAt(d)
                            /\ Link(d)' = Link(d) /\ Back(d)' = Back(d) /\ Past(d)' = Past(d)
         /\ FnAt(n + 1)' = g /\ FpAt(n + 1)' = Past(n)
         /\ Link(n + 1)' = Past(n) + Vinculo_Controle(g)
         /\ Back(n + 1)' = Past(n) + Endereco_Retorno(g)
         /\ Past(n + 1)' = Past(n) + Size(g, 0)
<1> DEFINE new == [fn |-> g, fp |-> fp']
           Activation == [fn : Functions, fp : Nat]
<1>1. stack \in Seq(Activation) /\ n \in Nat \ {0}
  BY ActivationFacts DEF Shaped, Typed
<1>2. new \in Activation
  BY CallPlaces
<1>3. stack' = Append(stack, new) /\ UNCHANGED program
  BY DEF CALL
<1>4. /\ Len(stack') = n + 1 /\ stack' \in Seq(Activation)
      /\ \A d \in 1..n : stack'[d] = stack[d]
      /\ stack'[n + 1] = new
  <2> HIDE DEF new, Activation
  <2> QED BY <1>1, <1>2, <1>3
<1>5. /\ \A f : Vinculo_Controle(f)' = Vinculo_Controle(f)
      /\ \A f : Endereco_Retorno(f)' = Endereco_Retorno(f)
      /\ \A f : Size(f, 0)' = Size(f, 0)
  BY <1>3, SameProgram DEF Vinculo_Controle, Endereco_Retorno, Size
<1>6. ASSUME NEW d \in 1..n
      PROVE  /\ FnAt(d)' = FnAt(d) /\ FpAt(d)' = FpAt(d)
             /\ Link(d)' = Link(d) /\ Back(d)' = Back(d) /\ Past(d)' = Past(d)
  <2>1. FnAt(d)' = FnAt(d) /\ FpAt(d)' = FpAt(d)
    BY <1>4 DEF FnAt, FpAt
  <2> QED BY <1>3, <2>1, SameProgram DEF Link, Back, Past, Vinculo_Controle, Endereco_Retorno, Size
<1>7. FnAt(n + 1)' = g /\ FpAt(n + 1)' = Past(n)
  <2>1. new.fn = g /\ new.fp = fp' /\ fp' = Past(n)
    BY CallPlaces
  <2>2. FnAt(n + 1)' = stack'[n + 1].fn /\ FpAt(n + 1)' = stack'[n + 1].fp
    BY <1>3, <1>4 DEF FnAt, FpAt
  <2> QED BY <1>4, <2>1, <2>2
<1>8. /\ Link(n + 1)' = Past(n) + Vinculo_Controle(g)
      /\ Back(n + 1)' = Past(n) + Endereco_Retorno(g)
      /\ Past(n + 1)' = Past(n) + Size(g, 0)
  BY <1>3, <1>7, SameProgram DEF Link, Back, Past, Vinculo_Controle, Endereco_Retorno, Size
<1> QED BY <1>4, <1>6, <1>7, <1>8

LEMMA CallStep ==
  ASSUME NestedInLeaves, FrameInv, NEW g \in Callees[fn], CALL(g)
  PROVE  FrameInv'
<1>0. PICK n : n = Len(stack)
  OBVIOUS
<1>1. Shaped /\ n \in 1..n /\ n = Len(stack) /\ Linked /\ Waiting
  BY <1>0, ActivationFacts DEF FrameInv, Shaped
<1> DEFINE base == Past(n)
<1>2. /\ g \in Functions /\ g # Main /\ ~ Leaf(fn)
      /\ fp' = sp + 1 /\ fp' = base /\ fp' \in Nat
      /\ sp' = fp' + Size(g, Nested[g]) - 1 /\ sp' < INIT_CONTEXT_SWITCH
      /\ fp' + Size(g, 0) - 1 <= sp' /\ sp' \in Nat
      /\ parametros - Params[g] \in 0..MaxParams
  BY <1>1, CallPlaces
<1>3. /\ Len(stack') = n + 1
      /\ stack' \in Seq([fn : Functions, fp : Nat])
      /\ \A d \in 1..n : /\ FnAt(d)' = FnAt(d) /\ FpAt(d)' = FpAt(d)
                         /\ Link(d)' = Link(d) /\ Back(d)' = Back(d) /\ Past(d)' = Past(d)
      /\ FnAt(n + 1)' = g /\ FpAt(n + 1)' = base
      /\ Link(n + 1)' = base + Vinculo_Controle(g)
      /\ Back(n + 1)' = base + Endereco_Retorno(g)
      /\ Past(n + 1)' = base + Size(g, 0)
  BY <1>1, CallStack
<1>4. /\ \A a \in 0..sp : memory'[a] = memory[a]
      /\ memory'[base + Vinculo_Controle(g)] = Address(Link(n), 0)
      /\ memory'[base + Endereco_Retorno(g)] = Site(fn, 0, parametros - Params[g])
      /\ memory' \in [Addresses -> Words]
  BY <1>1, CallWrites
<1>5. /\ fn' = g /\ block' = 0 /\ parametros' = 0 /\ program' = program /\ reg' = reg
      /\ parametros - Params[g] = 0 \/ Leaf(g)
  BY DEF CALL
<1>6. /\ GlobalSize' = GlobalSize /\ Callees' = Callees /\ Functions' = Functions
      /\ Main' = Main /\ Words' = Words /\ Nested' = Nested
      /\ \A f : Size(f, Nested[f])' = Size(f, Nested[f])
      /\ \A f : Leaf(f)' <=> Leaf(f)
  BY <1>5, SameProgram DEF Size, Leaf
<1>7. \A d \in 1..n + 1 : d \in 1..n \/ d = n + 1
  BY <1>1
<1> HIDE DEF base
<1>8. Typed'
  BY <1>2, <1>3, <1>4, <1>5, <1>6, <1>1, Regions DEF Shaped, Typed
<1>9. Opened'
  <2>1. FnAt(1)' = Main'
    BY <1>1, <1>3, <1>5, <1>6 DEF Shaped, Opened
  <2>2. fn' = FnAt(n + 1)' /\ fp' = FpAt(n + 1)'
    BY <1>2, <1>3, <1>5
  <2>3. ASSUME NEW d \in 2..n + 1
        PROVE  FnAt(d)' \in Callees'[FnAt(d - 1)']
    <3>1. CASE d = n + 1
      BY <1>1, <1>3, <1>5, <3>1, <1>6 DEF Shaped, Opened
    <3>2. CASE d # n + 1
      <4>1. d \in 2..n /\ d \in 1..n /\ d - 1 \in 1..n
        BY <1>1, <3>2
      <4> QED BY <1>1, <1>3, <1>5, <4>1, <1>6 DEF Shaped, Opened
    <3> QED BY <3>1, <3>2
  <2> QED BY <1>3, <2>1, <2>2, <2>3 DEF Opened
<1>10. Stacked'
  <2>1. GlobalSize' = GlobalSize /\ GlobalSize \in Nat
    BY <1>1, <1>5, <1>6, ProgramFacts DEF Shaped, Typed
  <2>2. \A d \in 1..n : Past(d) <= base /\ Past(d) \in Nat /\ FpAt(d) \in Nat /\ FpAt(d) <= base
    <3> SUFFICES ASSUME NEW d \in 1..n
                 PROVE  Past(d) <= base /\ Past(d) \in Nat /\ FpAt(d) \in Nat /\ FpAt(d) <= base
      OBVIOUS
    <3> DEFINE past == Past(d)  start == FpAt(d)  link == Link(d)
    <3>1. past - 1 <= sp /\ sp \in Nat
      BY <1>1, FramesBelowSp DEF Shaped, Typed
    <3>2. past \in Nat /\ start \in Nat /\ link \in Nat /\ start <= link /\ link + 6 <= past
      BY <1>1, ActivationFacts DEF Shaped
    <3>3. base = sp + 1
      BY <1>2
    <3> HIDE DEF past, start, link
    <3>4. past <= base /\ past \in Nat /\ start \in Nat /\ start <= base
      BY <3>1, <3>2, <3>3
    <3> QED BY <3>4 DEF past, start
  <2>3. GlobalSize <= base
    <3>1. GlobalSize <= FpAt(n) /\ FpAt(n) \in Nat /\ FpAt(n) <= base
      BY <1>1, <2>2 DEF Shaped, Stacked
    <3> QED BY <1>2, <2>1, <3>1
  <2>4. ASSUME NEW d \in 1..n + 1 PROVE GlobalSize <= FpAt(d)'
    BY <1>1, <1>3, <1>7, <2>3 DEF Shaped, Stacked
  <2>5. ASSUME NEW d \in 1..n + 1, NEW e \in 1..n + 1, d < e
        PROVE  Past(d)' <= FpAt(e)'
    <3>1. d \in 1..n
      BY <1>1, <2>5
    <3>2. CASE e \in 1..n
      BY <1>1, <1>3, <2>5, <3>1, <3>2 DEF Shaped, Stacked
    <3>3. CASE e = n + 1
      BY <1>3, <2>2, <3>1, <3>3
    <3> QED BY <1>7, <3>2, <3>3
  <2>6. ASSUME NEW d \in 2..n + 1 PROVE Past(d - 1)' = FpAt(d)'
    <3>1. CASE d = n + 1
      BY <1>1, <1>3, <3>1 DEF base
    <3>2. CASE d # n + 1
      <4>1. d \in 2..n /\ d \in 1..n /\ d - 1 \in 1..n
        BY <1>1, <3>2
      <4> QED BY <1>1, <1>3, <4>1 DEF Shaped, Stacked
    <3> QED BY <3>1, <3>2
  <2> QED BY <1>3, <2>1, <2>4, <2>5, <2>6 DEF Stacked
<1>11. Topped'
  <2>1. Past(Len(stack))' = fp' + Size(g, 0)
    BY <1>2, <1>3
  <2>2. Past(Len(stack))' - 1 <= sp' /\ sp' < INIT_CONTEXT_SWITCH
    BY <1>1, <1>2, <2>1, LayoutFacts DEF Shaped, Typed
  <2>3. Size(fn, Nested[fn])' = Size(g, Nested[g])
    BY <1>5, <1>6
  <2>4. sp' = fp' + Size(fn, Nested[fn])' - 1
    BY <1>2, <2>3
  <2> QED BY <2>2, <2>4 DEF Topped
<1>12. Linked'
  <2>1. ASSUME NEW d \in 2..n + 1
        PROVE  /\ memory'[Link(d)'] = Address(Link(d - 1)', 0)
               /\ \E ps \in 0..MaxParams : memory'[Back(d)'] = Site(FnAt(d - 1)', 0, ps)
    <3>1. CASE d = n + 1
      BY <1>1, <1>2, <1>3, <1>4, <3>1 DEF Shaped, Opened
    <3>2. CASE d # n + 1
      <4>1. d \in 2..n /\ d \in 1..n /\ d - 1 \in 1..n
        BY <1>1, <3>2
      <4>2. Link(d) \in 0..sp /\ Back(d) \in 0..sp
        BY <1>1, <4>1, LinksAddressed
      <4> QED BY <1>1, <1>3, <1>4, <4>1, <4>2 DEF Linked
    <3> QED BY <3>1, <3>2
  <2> QED BY <1>3, <2>1 DEF Linked
<1>13. Waiting'
  <2>1. Leaf(fn)' <=> Leaf(g)
    BY <1>5, SameProgram DEF Leaf
  <2>2. ASSUME NEW d \in 2..n + 1
        PROVE  \/ d = n + 1 /\ Leaf(g)
               \/ memory'[Back(d)'] = Site(FnAt(d - 1)', 0, 0)
    <3>1. CASE d = n + 1
      BY <1>1, <1>3, <1>4, <1>5, <3>1 DEF Shaped, Opened
    <3>2. CASE d # n + 1
      <4>1. d \in 2..n /\ d \in 1..n /\ d - 1 \in 1..n
        BY <1>1, <3>2
      <4>2. Back(d) \in 0..sp
        BY <1>1, <4>1, LinksAddressed
      <4> QED BY <1>1, <1>2, <1>3, <1>4, <4>1, <4>2 DEF Waiting
    <3> QED BY <3>1, <3>2
  <2> QED BY <1>3, <1>5, <2>1, <2>2 DEF Waiting
<1> QED BY <1>8, <1>9, <1>10, <1>11, <1>12, <1>13 DEF FrameInv, Shaped

\* A return: main does not return, so there is a caller below, and it is not a leaf.
LEMMA ReturnPlaces ==
  ASSUME NestedInLeaves, Shaped, fn # Main, NEW n, n = Len(stack)
  PROVE  /\ n \in Nat /\ n >= 2 /\ n \in 2..n /\ n - 1 \in 1..n /\ n \in 1..n
         /\ fn = FnAt(n) /\ fp = FpAt(n) /\ FnAt(n - 1) \in Functions
         /\ ~ Leaf(FnAt(n - 1)) /\ Nested[FnAt(n - 1)] = 0
         /\ FpAt(n - 1) = fp - Size(FnAt(n - 1), 0) /\ FpAt(n - 1) \in Nat
         /\ Past(n - 1) = fp /\ Size(FnAt(n - 1), 0) \in Nat
         /\ sp - CalleeSize(fn, FnAt(n - 1), 0) = fp - 1
<1>1. /\ n \in 1..n /\ n \in Nat \ {0} /\ fn = FnAt(n) /\ fp = FpAt(n) /\ FnAt(1) = Main
      /\ program \in Programs /\ fn \in Functions /\ fp \in Nat /\ sp \in Nat
  BY ActivationFacts DEF Shaped, Opened, Typed
<1>2. n # 1
  BY <1>1
<1>3. n >= 2 /\ n \in 2..n /\ n - 1 \in 1..n
  BY <1>1, <1>2
<1>4. FnAt(n - 1) \in Functions /\ FpAt(n - 1) \in Nat
  BY <1>3, ActivationFacts DEF Shaped
<1>5. FnAt(n) \in Callees[FnAt(n - 1)] /\ Past(n - 1) = FpAt(n)
  BY <1>3 DEF Shaped, Opened, Stacked
<1>6. ~ Leaf(FnAt(n - 1))
  BY <1>5 DEF Leaf
<1>7. Nested[FnAt(n - 1)] = 0
  BY <1>1, <1>4, <1>6, CallersFlat
<1>8. Size(FnAt(n - 1), 0) \in Nat /\ Size(fn, Nested[fn]) \in Nat
  <2>1. Size(FnAt(n - 1), 0) \in Nat
    BY <1>1, <1>4, LayoutFacts
  <2>2. Nested[fn] \in Nat
    BY <1>1, LayoutFacts
  <2>3. Size(fn, Nested[fn]) \in Nat
    BY <1>1, <2>2, LayoutFacts
  <2> QED BY <2>1, <2>3
<1>9. FpAt(n - 1) = fp - Size(FnAt(n - 1), 0)
  BY <1>1, <1>4, <1>5, <1>8 DEF Past
<1>10. CalleeSize(fn, FnAt(n - 1), 0) = Size(fn, Nested[fn])
  BY <1>7 DEF CalleeSize
<1>11. sp = fp + Size(fn, Nested[fn]) - 1
  BY DEF Shaped, Topped
<1>12. sp - Size(fn, Nested[fn]) = fp - 1
  BY <1>1, <1>8, <1>11
<1> QED BY <1>1, <1>3, <1>4, <1>5, <1>6, <1>7, <1>8, <1>9, <1>10, <1>12

\* What END, and the caller after it, do with the return address they find.
LEMMA EndStep ==
  ASSUME NestedInLeaves, FrameInv, fn # Main,
         EndTo(memory'[Back(Len(stack))]), reg' \in Words,
         memory' \in [Addresses -> Words],
         \A d \in 2..Len(stack) : memory'[Link(d)] = memory[Link(d)] /\ memory'[Back(d)] = memory[Back(d)]
  PROVE  FrameInv'
<1>0. PICK n : n = Len(stack)
  OBVIOUS
<1>1. Shaped /\ Linked /\ Waiting
  BY DEF FrameInv
<1> DEFINE c == FnAt(n - 1)
<1>2. /\ n \in Nat /\ n >= 2 /\ n \in 2..n /\ n - 1 \in 1..n /\ n \in 1..n
      /\ fn = FnAt(n) /\ fp = FpAt(n) /\ c \in Functions
      /\ ~ Leaf(c) /\ Nested[c] = 0
      /\ FpAt(n - 1) = fp - Size(c, 0) /\ FpAt(n - 1) \in Nat
      /\ Past(n - 1) = fp /\ Size(c, 0) \in Nat
      /\ sp - CalleeSize(fn, c, 0) = fp - 1
  BY <1>0, <1>1, ReturnPlaces
<1>3. PICK ps \in 0..MaxParams : memory[Back(n)] = Site(c, 0, ps)
  BY <1>0, <1>1, <1>2 DEF Linked
<1>4. memory'[Back(n)] = Site(c, 0, ps)
  BY <1>0, <1>2, <1>3
<1>5. /\ fn' = c /\ block' = 0 /\ parametros' = ps /\ program' = program
      /\ fp' = FpAt(n - 1) /\ sp' = fp - 1
      /\ stack' = SubSeq(stack, 1, n - 1)
  BY <1>0, <1>2, <1>4 DEF EndTo, Site
<1>6. /\ GlobalSize' = GlobalSize /\ Callees' = Callees /\ Functions' = Functions
      /\ Main' = Main /\ Words' = Words /\ Nested' = Nested
      /\ \A f : Size(f, Nested[f])' = Size(f, Nested[f])
      /\ \A f : Leaf(f)' <=> Leaf(f)
  BY <1>5, SameProgram DEF Size, Leaf
<1>7. /\ Len(stack') = n - 1 /\ stack' \in Seq([fn : Functions, fp : Nat])
      /\ \A d \in 1..n - 1 : stack'[d] = stack[d]
  <2> DEFINE Activation == [fn : Functions, fp : Nat]
  <2>1. stack \in Seq(Activation)
    BY <1>1 DEF Shaped, Typed
  <2> HIDE DEF Activation
  <2>2. Len(stack') = n - 1 /\ stack' \in Seq(Activation) /\ \A d \in 1..n - 1 : stack'[d] = stack[d]
    BY <1>0, <1>2, <1>5, <2>1
  <2> QED BY <2>2 DEF Activation
<1>8. \A d \in 1..n - 1 : /\ FnAt(d)' = FnAt(d) /\ FpAt(d)' = FpAt(d)
                          /\ Link(d)' = Link(d) /\ Back(d)' = Back(d) /\ Past(d)' = Past(d)
  <2> SUFFICES ASSUME NEW d \in 1..n - 1
               PROVE  /\ FnAt(d)' = FnAt(d) /\ FpAt(d)' = FpAt(d)
                      /\ Link(d)' = Link(d) /\ Back(d)' = Back(d) /\ Past(d)' = Past(d)
    OBVIOUS
  <2>1. FnAt(d)' = FnAt(d) /\ FpAt(d)' = FpAt(d)
    BY <1>7 DEF FnAt, FpAt
  <2> QED BY <1>5, <2>1, SameProgram DEF Link, Back, Past, Vinculo_Controle, Endereco_Retorno, Size
<1>9. \A d \in 2..n - 1 : d \in 2..n /\ d \in 1..n /\ d \in 1..n - 1 /\ d - 1 \in 1..n - 1 /\ d # n
  BY <1>2
<1>10. n - 1 \in 1..n - 1 /\ 1 \in 1..n - 1 /\ \A d \in 1..n - 1 : d \in 1..n
  BY <1>2
<1> HIDE DEF c
<1>11. Typed'
  <2>1. fp - 1 \in Nat
    <3> DEFINE link == Link(n - 1)
    <3>1. link + 6 <= fp /\ link \in Nat /\ fp \in Nat
      BY <1>0, <1>1, <1>2, ActivationFacts DEF Shaped, Typed
    <3> HIDE DEF link
    <3> QED BY <3>1
  <2> QED BY <1>1, <1>2, <1>3, <1>5, <1>6, <1>7, <2>1 DEF Shaped, Typed
<1>12. Opened'
  <2>1. FnAt(1)' = Main'
    BY <1>1, <1>6, <1>8, <1>10 DEF Shaped, Opened
  <2>2. fn' = FnAt(n - 1)' /\ fp' = FpAt(n - 1)'
    BY <1>5, <1>8, <1>10 DEF c
  <2>3. \A d \in 2..n - 1 : FnAt(d)' \in Callees'[FnAt(d - 1)']
    BY <1>0, <1>1, <1>6, <1>8, <1>9 DEF Shaped, Opened
  <2> QED BY <1>7, <2>1, <2>2, <2>3 DEF Opened
<1>13. Stacked'
  <2>1. \A d \in 1..n - 1 : GlobalSize' <= FpAt(d)'
    BY <1>0, <1>1, <1>6, <1>8, <1>10 DEF Shaped, Stacked
  <2>2. \A d, e \in 1..n - 1 : d < e => Past(d)' <= FpAt(e)'
    BY <1>0, <1>1, <1>8, <1>10 DEF Shaped, Stacked
  <2>3. \A d \in 2..n - 1 : Past(d - 1)' = FpAt(d)'
    BY <1>0, <1>1, <1>8, <1>9 DEF Shaped, Stacked
  <2> QED BY <1>7, <2>1, <2>2, <2>3 DEF Stacked
<1>14. Topped'
  <2>1. Past(Len(stack))' = Past(n - 1)
    BY <1>7, <1>8, <1>10
  <2>2. Size(fn, Nested[fn])' = Size(c, 0)
    BY <1>2, <1>5, <1>6
  <2>3. sp' = fp' + Size(c, 0) - 1 /\ Past(n - 1) - 1 = sp'
    BY <1>1, <1>2, <1>5 DEF Shaped, Typed
  <2>4. sp' < INIT_CONTEXT_SWITCH /\ Past(n - 1) - 1 <= sp'
    <3>1. Past(n - 1) - 1 <= sp /\ sp \in Nat /\ sp < INIT_CONTEXT_SWITCH /\ Past(n - 1) \in Nat
      BY <1>0, <1>1, <1>2, FramesBelowSp, ActivationFacts DEF Shaped, Typed, Topped
    <3> QED BY <2>3, <3>1, Regions
  <2>5. sp' = fp' + Size(fn, Nested[fn])' - 1
    BY <2>2, <2>3
  <2> QED BY <2>1, <2>4, <2>5 DEF Topped
<1>15. Linked'
  <2>1. ASSUME NEW d \in 2..n - 1
        PROVE  /\ memory'[Link(d)'] = Address(Link(d - 1)', 0)
               /\ \E p \in 0..MaxParams : memory'[Back(d)'] = Site(FnAt(d - 1)', 0, p)
    <3>1. /\ d \in 2..Len(stack) /\ Link(d)' = Link(d) /\ Back(d)' = Back(d)
          /\ Link(d - 1)' = Link(d - 1) /\ FnAt(d - 1)' = FnAt(d - 1)
      BY <1>0, <1>8, <1>9
    <3>2. memory'[Link(d)] = memory[Link(d)] /\ memory'[Back(d)] = memory[Back(d)]
      BY <3>1
    <3> QED BY <1>1, <3>1, <3>2 DEF Linked
  <2> QED BY <1>7, <2>1 DEF Linked
<1>16. Waiting'
  <2>1. ~ Leaf(fn)'
    BY <1>2, <1>5, SameProgram DEF Leaf
  <2>2. \A d \in 2..n - 1 : memory'[Back(d)'] = Site(FnAt(d - 1)', 0, 0)
    BY <1>0, <1>1, <1>8, <1>9 DEF Waiting
  <2> QED BY <1>7, <2>1, <2>2 DEF Waiting
<1> QED BY <1>11, <1>12, <1>13, <1>14, <1>15, <1>16 DEF FrameInv, Shaped

\* The value goes to a word of the caller's frame that links nothing.
LEMMA ReturnValueSpared ==
  ASSUME NestedInLeaves, FrameInv, fn # Main
  PROVE  LET a == memory[fp + Vinculo_Controle(fn)].address + 2
         IN  a \in Addresses /\ Spared(a) /\ a = FpAt(Len(stack) - 1) + Valor_Retorno(FnAt(Len(stack) - 1))
<1>0. PICK n : n = Len(stack)
  OBVIOUS
<1>1. Shaped /\ Linked
  BY DEF FrameInv
<1>2. n \in 2..n /\ n - 1 \in 1..n /\ fn = FnAt(n) /\ fp = FpAt(n) /\ FnAt(n - 1) \in Functions
  BY <1>0, <1>1, ReturnPlaces
<1> DEFINE link == Link(n - 1)
<1>3. memory[fp + Vinculo_Controle(fn)].address = link
  <2>1. fp + Vinculo_Controle(fn) = Link(n)
    BY <1>2 DEF Link
  <2>2. memory[Link(n)] = Address(link, 0)
    BY <1>0, <1>1, <1>2 DEF Linked
  <2> QED BY <2>1, <2>2 DEF Address
<1>4. /\ link \in Nat /\ FpAt(n - 1) \in Nat /\ Past(n - 1) \in Nat /\ FpAt(n - 1) <= link
      /\ Back(n - 1) = link + 1 /\ link + 6 <= Past(n - 1)
  BY <1>0, <1>1, <1>2, ActivationFacts DEF Shaped
<1>5. Past(n - 1) - 1 <= sp /\ sp \in Nat
  BY <1>0, <1>1, <1>2, FramesBelowSp DEF Shaped, Typed
<1>6. link + 2 = FpAt(n - 1) + Valor_Retorno(FnAt(n - 1))
  <2>1. /\ Valor_Retorno(FnAt(n - 1)) = Vinculo_Controle(FnAt(n - 1)) + 2
        /\ Vinculo_Controle(FnAt(n - 1)) \in Nat
    BY <1>1, <1>2, LayoutFacts DEF Shaped, Typed
  <2> QED BY <1>4, <2>1 DEF Link
<1> DEFINE base == FpAt(n - 1)  past == Past(n - 1)
<1>7. link + 2 \in 0..sp /\ link + 2 \in Nat /\ base <= link + 2 /\ link + 2 < past
      /\ link + 2 # link /\ link + 2 # Back(n - 1)
  <2>1. past - 1 <= sp /\ base <= link /\ link + 6 <= past /\ base \in Nat /\ past \in Nat /\ link \in Nat
    BY <1>4, <1>5
  <2> HIDE DEF base, past, link
  <2> QED BY <1>4, <1>5, <2>1
<1>8. \A e \in 2..n : link + 2 # Link(e) /\ link + 2 # Back(e)
  <2> SUFFICES ASSUME NEW e \in 2..n PROVE link + 2 # Link(e) /\ link + 2 # Back(e)
    OBVIOUS
  <2>1. e \in 1..Len(stack) /\ n - 1 \in 1..Len(stack)
    BY <1>0, <1>2
  <2> QED BY <1>1, <1>7, <2>1, FramesApart
<1>9. link + 2 \in Addresses
  BY <1>1, <1>7, FramesBelowSp
<1> QED BY <1>0, <1>3, <1>6, <1>8, <1>9 DEF Spared

\* What a return leaves of the linkage, with the value written or not.
LEMMA ReturnStep ==
  ASSUME NestedInLeaves, FrameInv, RET \/ END
  PROVE  FrameInv'
<1>0. PICK n : n = Len(stack)
  OBVIOUS
<1>1. /\ fn # Main /\ memory \in [Addresses -> Words] /\ reg \in Words /\ Shaped
      /\ program \in Programs
  BY DEF RET, END, FrameInv, Shaped, Typed
<1>2. /\ n \in 1..n /\ n >= 2 /\ n \in 2..n /\ n - 1 \in 1..n /\ fn = FnAt(n) /\ fp = FpAt(n)
      /\ FnAt(n - 1) \in Functions
  BY <1>0, <1>1, ReturnPlaces
<1>3. fp + Endereco_Retorno(fn) = Back(n)
  BY <1>2 DEF Back
<1>4. CASE RET
  <2> DEFINE a == memory[fp + Vinculo_Controle(fn)].address + 2
  <2>1. /\ memory' = [memory EXCEPT ![a] = reg] /\ EndTo(memory'[Back(n)])
        /\ reg' = IF fn \in Void THEN reg ELSE memory'[fp' + Valor_Retorno(fn')]
    BY <1>3, <1>4 DEF RET
  <2>2. a \in Addresses /\ Spared(a)
    BY <1>1, ReturnValueSpared
  <2> HIDE DEF a
  <2>3. memory' \in [Addresses -> Words]
    BY <1>1, <2>1, <2>2
  <2>4. \A d \in 2..n : memory'[Link(d)] = memory[Link(d)] /\ memory'[Back(d)] = memory[Back(d)]
    BY <1>0, <1>1, <2>1, <2>2 DEF Spared
  <2>5. reg' \in Words
    <3> SUFFICES fp' + Valor_Retorno(fn') \in Addresses
      BY <1>1, <2>1, <2>3
    <3>1. PICK ps \in 0..MaxParams : memory'[Back(n)] = Site(FnAt(n - 1), 0, ps)
      BY <1>0, <1>2, <2>4 DEF FrameInv, Linked
    <3>2. fn' = FnAt(n - 1) /\ fp' = FpAt(n - 1)
      BY <1>0, <1>1, <2>1, <3>1, ReturnPlaces DEF EndTo, Site
    <3> QED BY <1>0, <1>1, <2>2, <3>2, ReturnValueSpared DEF Valor_Retorno, a
  <2> QED BY <1>0, <1>1, <2>1, <2>3, <2>4, <2>5, EndStep
<1>5. CASE END
  <2>1. memory' = memory /\ reg' = reg /\ EndTo(memory'[Back(n)])
    BY <1>3, <1>5 DEF END
  <2> QED BY <1>0, <1>1, <2>1, EndStep
<1> QED BY <1>4, <1>5

-----------------------------------------------------------------------------
(* The theorems. *)

LEMMA FrameInit ==
  ASSUME NestedInLeaves, InitFrames
  PROVE  FrameInv
<1>1. /\ program \in Programs /\ fn = Main /\ block = 0 /\ parametros = 0 /\ fp = GlobalSize
      /\ sp = GlobalSize + 5 + Locals[Main] /\ memory = [a \in Addresses |-> Garbage] /\ reg \in Values
      /\ stack = <<[fn |-> Main, fp |-> GlobalSize]>>
  BY DEF InitFrames
<1>2. /\ Main \in Functions /\ Params[Main] = 0 /\ GlobalSize \in Nat
      /\ GlobalSize + Size(Main, 0) <= INIT_CONTEXT_SWITCH
  BY <1>1, ProgramFacts
<1>3. Size(Main, 0) = 6 + Locals[Main] /\ Locals[Main] \in Nat /\ Nested[Main] \in Nat
      /\ Size(Main, Nested[Main]) = Size(Main, 0) + Nested[Main]
  BY <1>1, <1>2, LayoutFacts
<1>4. /\ Len(stack) = 1 /\ stack \in Seq([fn : Functions, fp : Nat])
      /\ FnAt(1) = Main /\ FpAt(1) = GlobalSize
  BY <1>1, <1>2 DEF FnAt, FpAt
<1>5. Typed
  <2>1. sp \in Nat
    BY <1>1, <1>2, <1>3
  <2>2. Garbage \in Words /\ reg \in Words
    BY <1>1 DEF Words
  <2>3. 0 \in 0..MaxParams
    BY Regions
  <2> QED BY <1>1, <1>2, <1>4, <2>1, <2>2, <2>3 DEF Typed
<1>6. Opened
  BY <1>1, <1>4 DEF Opened
<1>7. Stacked
  BY <1>2, <1>4 DEF Stacked
<1>8. Linked
  BY <1>4 DEF Linked
<1>9. Waiting
  BY <1>1, <1>4 DEF Waiting
<1>10. Topped
  <2>1. Past(1) = GlobalSize + Size(Main, 0)
    BY <1>4 DEF Past
  <2>2. Past(1) - 1 = sp /\ sp < INIT_CONTEXT_SWITCH
    BY <1>1, <1>2, <1>3, <2>1, Regions
  <2>3. Leaf(Main) \/ Nested[Main] = 0
    BY <1>1, <1>2, CallersFlat
  <2>4. Past(1) - 1 <= sp
    BY <1>1, <1>2, <1>3, <2>2
  <2>5. fn # Main \/ ~ Leaf(fn) => sp = fp + Size(fn, Nested[fn]) - 1
    BY <1>1, <1>2, <1>3, <2>3
  <2> QED BY <1>4, <2>2, <2>4, <2>5 DEF Topped
<1> QED BY <1>5, <1>6, <1>7, <1>8, <1>9, <1>10 DEF FrameInv, Shaped

LEMMA FrameNext ==
  ASSUME NestedInLeaves, FrameInv, [NextFrames]_framevars
  PROVE  FrameInv'
<1>1. CASE Compute \/ LOAD \/ LOAD_Element
  BY <1>1, ReadStep
<1>2. CASE STORE \/ STORE_Element
  BY <1>2, WriteStep
<1>3. CASE Jump \/ ALLOC
  BY <1>3, MoveStep
<1>4. CASE PARAM(reg)
  <2>1. reg \in Words
    BY DEF FrameInv, Shaped, Typed
  <2> QED BY <1>4, <2>1, ParamStep
<1>5. CASE Locals[fn] > 0 /\ PARAM(LocalArray(fn, fp))
  <2>1. LocalArray(fn, fp) \in Words
    BY <1>5, ArrayIsWord DEF FrameInv
  <2> QED BY <1>5, <2>1, ParamStep
<1>6. CASE \E g \in Callees[fn] : CALL(g)
  BY <1>6, CallStep
<1>7. CASE RET \/ END
  BY <1>7, ReturnStep
<1>8. CASE UNCHANGED framevars
  <2>1. UNCHANGED <<control, memory>> /\ reg' = reg
    BY <1>8 DEF framevars
  <2>2. reg \in Words
    BY DEF FrameInv, Shaped, Typed
  <2> QED BY <2>1, <2>2, RegisterStep
<1> QED BY <1>1, <1>2, <1>3, <1>4, <1>5, <1>6, <1>7, <1>8 DEF NextFrames

\* In every reachable state the frames lie as described.
THEOREM FramesInvariant ==
  ASSUME NestedInLeaves
  PROVE  FramesSpec => []FrameInv
<1>1. InitFrames => FrameInv
  BY FrameInit
<1>2. FrameInv /\ [NextFrames]_framevars => FrameInv'
  BY FrameNext
<1> QED BY <1>1, <1>2, PTL DEF FramesSpec

\* Registers and memory hold words, and $fp and $sp are addresses of the partition.
THEOREM FramesTyped ==
  ASSUME NestedInLeaves
  PROVE  FramesSpec => []FramesTypeOK
<1>1. ASSUME FrameInv PROVE FramesTypeOK
  <2>1. Shaped /\ Typed /\ Opened /\ Topped
    BY <1>1 DEF FrameInv, Shaped
  <2>2. Len(stack) \in 1..Len(stack) /\ \A d \in 1..Len(stack) : FpAt(d) \in 0..sp
    <3> SUFFICES ASSUME NEW d \in 1..Len(stack) PROVE FpAt(d) \in 0..sp
      BY <2>1, ActivationFacts
    <3> DEFINE base == FpAt(d)  link == Link(d)
    <3>1. base \in Nat /\ base <= link /\ link \in 0..sp /\ sp \in Nat
      BY <2>1, ActivationFacts, LinksAddressed DEF Typed
    <3> HIDE DEF base, link
    <3>2. base \in 0..sp
      BY <3>1
    <3> QED BY <3>2 DEF base
  <2>3. \A d \in 1..Len(stack) : FpAt(d) \in Addresses
    BY <2>1, <2>2, FramesBelowSp
  <2>4. fp \in Addresses /\ sp \in Addresses
    <3>1. sp \in 0..sp
      BY <2>1 DEF Typed
    <3> QED BY <2>1, <2>2, <2>3, <3>1, FramesBelowSp DEF Opened
  <2>5. stack \in Seq([fn : Functions, fp : Addresses])
    <3> DEFINE Activation == [fn : Functions, fp : Addresses]
    <3>1. ASSUME NEW d \in 1..Len(stack) PROVE stack[d] \in Activation
      <4>1. /\ stack[d] = [fn |-> FnAt(d), fp |-> FpAt(d)]
            /\ FnAt(d) \in Functions /\ FpAt(d) \in Addresses
        BY <2>1, <2>3, ActivationFacts
      <4> QED BY <4>1
    <3>2. stack \in Seq([fn : Functions, fp : Nat])
      BY <2>1 DEF Typed
    <3>3. stack = [d \in 1..Len(stack) |-> stack[d]] /\ Len(stack) \in Nat
      BY <3>2
    <3> HIDE DEF Activation
    <3>4. stack \in Seq(Activation)
      BY <3>1, <3>3
    <3> QED BY <3>4 DEF Activation
  <2> QED BY <2>1, <2>4, <2>5 DEF FramesTypeOK, Typed
<1> QED BY <1>1, FramesInvariant, PTL

\* Wherever a function may call another one, $sp points to the last word of its
\* frame, so that the new frame starts behind it.
THEOREM StackPointerCorrect ==
  ASSUME NestedInLeaves
  PROVE  FramesSpec => []StackPointerAtLast
<1>1. ASSUME FrameInv, ~ Leaf(fn) PROVE sp = fp + get_sp(fn, block)
  <2>1. /\ program \in Programs /\ fn \in Functions /\ fp \in Nat
        /\ block \in {0, Nested[fn]} /\ Topped
    BY <1>1 DEF FrameInv, Shaped, Typed
  <2>2. block = 0 /\ Nested[fn] = 0
    BY <1>1, <2>1, CallersFlat
  <2>3. sp = fp + Size(fn, 0) - 1 /\ Size(fn, 0) \in Nat
    BY <1>1, <2>1, <2>2, LayoutFacts DEF Topped
  <2> QED BY <2>1, <2>2, <2>3 DEF get_sp
<1> QED BY <1>1, FramesInvariant, PTL DEF StackPointerAtLast

\* Every open activation finds its caller's frame and the point to return to,
\* whatever the activations above it have written.
THEOREM LinkageCorrect ==
  ASSUME NestedInLeaves
  PROVE  FramesSpec => []LinkageIntact
<1>1. ASSUME FrameInv, NEW d \in 2..Len(stack)
      PROVE  LET me     == stack[d]
                 caller == stack[d - 1]
             IN  /\ memory[me.fp + Vinculo_Controle(me.fn)]
                      = Address(caller.fp + Vinculo_Controle(caller.fn), 0)
                 /\ \E b \in {0, Nested[caller.fn]}, ps \in 0..MaxParams :
                      /\ memory[me.fp + Endereco_Retorno(me.fn)] = Site(caller.fn, b, ps)
                      /\ caller.fp + Size(caller.fn, b) = me.fp
  <2>1. /\ memory[Link(d)] = Address(Link(d - 1), 0)
        /\ \E ps \in 0..MaxParams : memory[Back(d)] = Site(FnAt(d - 1), 0, ps)
        /\ Past(d - 1) = FpAt(d)
    BY <1>1 DEF FrameInv, Shaped, Linked, Stacked
  <2> QED BY <2>1 DEF Link, Back, Past, FnAt, FpAt
<1>2. FrameInv => LinkageIntact
  BY <1>1 DEF LinkageIntact
<1> QED BY <1>2, FramesInvariant, PTL

-----------------------------------------------------------------------------
(***************************************************************************)
(* Frames implements Activations: what the code emitted for calls, returns *)
(* and variables does to the words of memory is what the language says it  *)
(* does to the activations.                                                *)
(***************************************************************************)

(* The activations in memory. *)

HomeAt(d)    == FpAt(d) + FirstLocal(FnAt(d))
VarsAt(d)    == [v \in Variables(FnAt(d)) |-> memory[FpAt(d) + v]]
PendingAt(d) == [p \in 1..PendingOf(d) |-> memory[INIT_STACK_PARAMS + p - 1]]

ReadOff ==
  /\ Len(stack) \in Nat \ {0} /\ Len(stack) \in 1..Len(stack)
  /\ DOMAIN activations = 1..Len(stack) /\ Len(activations) = Len(stack)
  /\ activations = [d \in 1..Len(stack) |-> activations[d]]
  /\ \A d \in 1..Len(stack) :
       activations[d] = [fn |-> FnAt(d), home |-> HomeAt(d),
                         vars |-> VarsAt(d), pending |-> PendingAt(d)]

LEMMA ActivationsRead == Shaped => ReadOff
<1> SUFFICES ASSUME Shaped PROVE ReadOff
  OBVIOUS
<1>1. Len(stack) \in Nat \ {0} /\ Len(stack) \in 1..Len(stack)
  BY ActivationFacts DEF Shaped
<1>2. DOMAIN activations = 1..Len(stack)
  BY DEF activations
<1>3. Len(activations) = Len(stack)
  BY <1>1, <1>2 DEF activations
<1>4. ASSUME NEW d \in 1..Len(stack)
      PROVE  activations[d] = [fn |-> FnAt(d), home |-> HomeAt(d),
                               vars |-> VarsAt(d), pending |-> PendingAt(d)]
  <2>1. activations[d] = ActivationAt(d, FnAt(d), FpAt(d))
    BY DEF activations, Shaped, Opened, FnAt, FpAt
  <2> QED BY <2>1 DEF ActivationAt, HomeAt, VarsAt, PendingAt
<1>5. activations = [d \in 1..Len(stack) |-> activations[d]]
  BY DEF activations
<1> QED BY <1>1, <1>2, <1>3, <1>4, <1>5 DEF ReadOff

\* Two sequences of activations are the same if they agree in every field.
LEMMA SameActivations ==
  ASSUME Shaped, Shaped', Len(stack') = Len(stack),
         \A d \in 1..Len(stack) : FnAt(d)' = FnAt(d) /\ HomeAt(d)' = HomeAt(d)
                                  /\ VarsAt(d)' = VarsAt(d) /\ PendingAt(d)' = PendingAt(d)
  PROVE  activations' = activations
<1>1. ReadOff /\ ReadOff'
  BY ActivationsRead, PTL
<1>2. ASSUME NEW d \in 1..Len(stack) PROVE activations'[d] = activations[d]
  BY <1>1 DEF ReadOff
<1>3. /\ activations' = [d \in 1..Len(stack) |-> activations'[d]]
      /\ activations = [d \in 1..Len(stack) |-> activations[d]]
  BY <1>1 DEF ReadOff
<1> HIDE DEF activations
<1> QED BY <1>2, <1>3
\* At every activation but the last, pending arguments are counted at the
\* return address into it; only a leaf is called with any left.
LEMMA PendingCounted ==
  ASSUME FrameInv, NEW d \in 1..Len(stack)
  PROVE  /\ PendingOf(d) \in 0..MaxParams
         /\ d = Len(stack) => PendingOf(d) = parametros
         /\ d # Len(stack) => /\ PendingOf(d) = memory[Back(d + 1)].parametros
                              /\ d + 1 \in 2..Len(stack)
                              /\ PendingOf(d) = 0 \/ (d + 1 = Len(stack) /\ Leaf(fn))
<1>1. CASE d = Len(stack)
  BY <1>1 DEF PendingOf, FrameInv, Shaped, Typed
<1>2. CASE d # Len(stack)
  <2>1. d + 1 \in 2..Len(stack) /\ (d + 1) - 1 = d
    BY <1>2, ActivationFacts DEF FrameInv, Shaped
  <2>2. PendingOf(d) = memory[Back(d + 1)].parametros
    BY <1>2 DEF PendingOf, Back, FnAt, FpAt
  <2>3. \E ps \in 0..MaxParams : memory[Back(d + 1)] = Site(FnAt(d), 0, ps)
    BY <2>1 DEF FrameInv, Linked
  <2>4. (d + 1 = Len(stack) /\ Leaf(fn)) \/ memory[Back(d + 1)] = Site(FnAt(d), 0, 0)
    BY <2>1 DEF FrameInv, Waiting
  <2> QED BY <1>2, <2>1, <2>2, <2>3, <2>4 DEF Site
<1> QED BY <1>1, <1>2

\* Variables of open activations are different words, and not those of globals.
LEMMA VariablesApart ==
  ASSUME Shaped, NEW d \in 1..Len(stack), NEW v \in Variables(FnAt(d)),
         NEW e \in 1..Len(stack), NEW u \in Variables(FnAt(e)),
         FpAt(d) + v = FpAt(e) + u
  PROVE  d = e /\ v = u
<1> DEFINE base == FpAt(d)  past == Past(d)  other == FpAt(e)  last == Past(e)
<1>1. /\ base \in Nat /\ other \in Nat /\ FnAt(d) \in Functions /\ FnAt(e) \in Functions
      /\ program \in Programs /\ past \in Nat /\ last \in Nat
  BY ActivationFacts DEF Shaped, Typed
<1>2. /\ v \in Nat /\ u \in Nat /\ v < Size(FnAt(d), 0) /\ u < Size(FnAt(e), 0)
      /\ Size(FnAt(d), 0) \in Nat /\ Size(FnAt(e), 0) \in Nat
  BY <1>1, VariableFacts, LayoutFacts
<1>3. base + v < past /\ other + u < last /\ base <= base + v /\ other <= other + u
  BY <1>1, <1>2 DEF Past
<1>4. (d = e /\ base = other) \/ past <= other \/ last <= base
  BY DEF Shaped, Stacked
<1>5. base + v = other + u
  OBVIOUS
<1> HIDE DEF base, past, other, last
<1> QED BY <1>1, <1>2, <1>3, <1>4, <1>5

LEMMA VariablesNotGlobal ==
  ASSUME Shaped, NEW d \in 1..Len(stack), NEW v \in Variables(FnAt(d))
  PROVE  FpAt(d) + v \notin Globals
<1> DEFINE base == FpAt(d)  size == GlobalSize
<1>1. base \in Nat /\ v \in Nat /\ size \in Nat /\ size <= base
  <2>1. base \in Nat /\ FnAt(d) \in Functions /\ program \in Programs
    BY ActivationFacts DEF Shaped, Typed
  <2>2. v \in Nat /\ size \in Nat
    BY <2>1, VariableFacts, ProgramFacts
  <2> QED BY <2>1, <2>2 DEF Shaped, Stacked
<1>2. \A a \in Globals : a < size
  BY <1>1 DEF Globals
<1> HIDE DEF base, size
<1>3. base + v >= size
  BY <1>1
<1> QED BY <1>1, <1>2, <1>3 DEF base

\* What an unchanged stack and layout leaves as it is.
LEMMA SameLayout ==
  ASSUME UNCHANGED <<program, stack>>
  PROVE  /\ \A d : FnAt(d)' = FnAt(d) /\ FpAt(d)' = FpAt(d) /\ HomeAt(d)' = HomeAt(d) /\ Back(d)' = Back(d)
         /\ \A f : Variables(f)' = Variables(f)
         /\ Globals' = Globals /\ VarsOf' = VarsOf /\ ArrayOf' = ArrayOf
<1>1. \A d : FnAt(d)' = FnAt(d) /\ FpAt(d)' = FpAt(d) /\ Back(d)' = Back(d)
  BY SameStack
<1>2. Params' = Params /\ Locals' = Locals /\ Nested' = Nested /\ GlobalSize' = GlobalSize
      /\ Functions' = Functions
  BY SameProgram
<1>3. \A f : FirstLocal(f)' = FirstLocal(f)
  BY <1>2 DEF FirstLocal
<1>4. \A f : Variables(f)' = Variables(f)
  BY <1>2, <1>3 DEF Variables
<1>5. VarsOf' = VarsOf
  BY <1>2, <1>4 DEF VarsOf
<1>6. ArrayOf' = ArrayOf
  BY <1>2, <1>3 DEF ArrayOf
<1> QED BY <1>1, <1>2, <1>3, <1>4, <1>5, <1>6 DEF Globals, HomeAt

LEMMA VarsKept ==
  ASSUME UNCHANGED <<program, stack>>, NEW d,
         \A v \in Variables(FnAt(d)) : memory'[FpAt(d) + v] = memory[FpAt(d) + v]
  PROVE  VarsAt(d)' = VarsAt(d)
<1>1. FnAt(d)' = FnAt(d) /\ FpAt(d)' = FpAt(d) /\ \A f : Variables(f)' = Variables(f)
  BY SameLayout
<1>2. VarsAt(d)' = [v \in Variables(FnAt(d)) |-> memory'[FpAt(d) + v]]
  BY <1>1 DEF VarsAt
<1> QED BY <1>2 DEF VarsAt

\* The words of the parameter stack and the counts of pending arguments.
PendingSame ==
  /\ \A d \in 2..Len(stack) : memory'[Back(d)] = memory[Back(d)]
  /\ \A p \in 0..MaxParams - 1 : memory'[INIT_STACK_PARAMS + p] = memory[INIT_STACK_PARAMS + p]

LEMMA PendingKept ==
  ASSUME FrameInv, UNCHANGED <<program, stack, parametros>>, PendingSame,
         NEW d \in 1..Len(stack)
  PROVE  PendingAt(d)' = PendingAt(d)
<1>1. PendingOf(d) \in 0..MaxParams
  BY PendingCounted
<1>2. PendingOf(d)' = PendingOf(d)
  <2>1. CASE d = Len(stack)
    BY <2>1 DEF PendingOf
  <2>2. CASE d # Len(stack)
    <3>1. PendingOf(d) = memory[Back(d + 1)].parametros /\ d + 1 \in 2..Len(stack)
      BY <2>2, PendingCounted
    <3>2. PendingOf(d)' = memory'[Back(d + 1)'].parametros
      BY <2>2 DEF PendingOf, Back, FnAt, FpAt
    <3>3. Back(d + 1)' = Back(d + 1)
      BY SameLayout
    <3> QED BY <3>1, <3>2, <3>3 DEF PendingSame
  <2> QED BY <2>1, <2>2
<1> DEFINE k == PendingOf(d)
<1>3. PendingAt(d) = [p \in 1..k |-> memory[INIT_STACK_PARAMS + p - 1]]
      /\ PendingAt(d)' = [p \in 1..k |-> memory'[INIT_STACK_PARAMS + p - 1]]
  BY <1>2 DEF PendingAt
<1> HIDE DEF k
<1>4. \A p \in 1..k : memory'[INIT_STACK_PARAMS + p - 1] = memory[INIT_STACK_PARAMS + p - 1]
  <2> SUFFICES ASSUME NEW p \in 1..k
               PROVE  memory'[INIT_STACK_PARAMS + p - 1] = memory[INIT_STACK_PARAMS + p - 1]
    OBVIOUS
  <2>1. p - 1 \in 0..MaxParams - 1 /\ INIT_STACK_PARAMS + (p - 1) = INIT_STACK_PARAMS + p - 1
    BY <1>1, Regions DEF k
  <2>2. memory'[INIT_STACK_PARAMS + (p - 1)] = memory[INIT_STACK_PARAMS + (p - 1)]
    BY <2>1 DEF PendingSame
  <2> QED BY <2>1, <2>2
<1> QED BY <1>3, <1>4

\* A write below the parameter stack to a word that links nothing.
LEMMA WriteKeepsPending ==
  ASSUME Shaped, NEW a \in 0..sp, Spared(a), NEW w, memory' = [memory EXCEPT ![a] = w]
  PROVE  PendingSame
<1>1. memory \in [Addresses -> Words] /\ sp \in Nat /\ sp < INIT_CONTEXT_SWITCH
  BY DEF Shaped, Typed, Topped
<1>2. ASSUME NEW d \in 2..Len(stack) PROVE memory'[Back(d)] = memory[Back(d)]
  <2>1. Back(d) \in Addresses /\ Back(d) # a
    BY LinksAddressed, ActivationFacts DEF Shaped, Spared
  <2> QED BY <1>1, <2>1
<1>3. ASSUME NEW p \in 0..MaxParams - 1
      PROVE  memory'[INIT_STACK_PARAMS + p] = memory[INIT_STACK_PARAMS + p]
  <2>1. INIT_STACK_PARAMS + p \in Addresses
    BY ParametersSpared
  <2>2. INIT_STACK_PARAMS + p # a
    BY <1>1, Regions
  <2> QED BY <1>1, <2>1, <2>2
<1> QED BY <1>2, <1>3 DEF PendingSame

-----------------------------------------------------------------------------
(* Steps in an activation. *)

\* Steps that write no memory leave activations and globals as they are.
LEMMA Untouched ==
  ASSUME FrameInv, FrameInv', UNCHANGED <<program, stack, parametros, memory>>
  PROVE  activations' = activations /\ global_words' = global_words
<1>1. PendingSame
  BY DEF PendingSame
<1>2. \A d \in 1..Len(stack) : /\ FnAt(d)' = FnAt(d) /\ HomeAt(d)' = HomeAt(d)
                               /\ VarsAt(d)' = VarsAt(d) /\ PendingAt(d)' = PendingAt(d)
  BY <1>1, SameLayout, VarsKept, PendingKept
<1>3. global_words' = global_words
  BY SameLayout DEF global_words
<1> QED BY <1>2, <1>3, SameActivations DEF FrameInv

LEMMA WriteGlobal ==
  ASSUME FrameInv, FrameInv', UNCHANGED <<program, stack, parametros>>,
         NEW g \in Globals, NEW w, memory' = [memory EXCEPT ![g] = w]
  PROVE  /\ activations' = activations
         /\ global_words' = [global_words EXCEPT ![g] = w]
<1>1. Shaped /\ memory \in [Addresses -> Words]
  BY DEF FrameInv, Shaped, Typed
<1>2. g \in 0..sp /\ g \in Addresses /\ Spared(g)
  BY <1>1, GlobalsSpared
<1>3. PendingSame
  BY <1>1, <1>2, WriteKeepsPending
<1>4. ASSUME NEW d \in 1..Len(stack) PROVE VarsAt(d)' = VarsAt(d)
  <2>1. ASSUME NEW v \in Variables(FnAt(d))
        PROVE  memory'[FpAt(d) + v] = memory[FpAt(d) + v]
    <3>1. FpAt(d) + v \in Addresses /\ FpAt(d) + v # g
      BY <1>1, VariablesSpared, VariablesNotGlobal
    <3> QED BY <1>1, <3>1
  <2> QED BY <2>1, VarsKept
<1>5. activations' = activations
  BY <1>3, <1>4, SameLayout, PendingKept, SameActivations DEF FrameInv
<1>6. global_words' = [global_words EXCEPT ![g] = w]
  <2>1. \A a \in Globals : a \in Addresses
    BY <1>1, GlobalsSpared
  <2>2. Globals' = Globals
    BY SameLayout
  <2>3. global_words' = [a \in Globals |-> memory'[a]]
    BY <2>2 DEF global_words
  <2>4. \A a \in Globals : memory'[a] = IF a = g THEN w ELSE memory[a]
    BY <1>1, <2>1
  <2> QED BY <2>3, <2>4 DEF global_words
<1> QED BY <1>5, <1>6

LEMMA WriteVariable ==
  ASSUME FrameInv, FrameInv', UNCHANGED <<program, stack, parametros>>,
         NEW d \in 1..Len(stack), NEW v \in Variables(FnAt(d)), NEW w,
         memory' = [memory EXCEPT ![FpAt(d) + v] = w]
  PROVE  /\ activations' = [activations EXCEPT ![d].vars[v] = w]
         /\ global_words' = global_words
<1> DEFINE a == FpAt(d) + v
<1>1. Shaped /\ memory \in [Addresses -> Words] /\ memory' = [memory EXCEPT ![a] = w]
  BY DEF FrameInv, Shaped, Typed
<1>2. a \in 0..sp /\ a \in Addresses /\ Spared(a)
  BY <1>1, VariablesSpared
<1> HIDE DEF a
<1>3. PendingSame
  BY <1>1, <1>2, WriteKeepsPending
<1>4. \A e \in 1..Len(stack) : PendingAt(e)' = PendingAt(e)
  BY <1>3, PendingKept
<1>5. ASSUME NEW e \in 1..Len(stack), NEW u \in Variables(FnAt(e))
      PROVE  memory'[FpAt(e) + u] = IF e = d /\ u = v THEN w ELSE memory[FpAt(e) + u]
  <2>1. FpAt(e) + u \in Addresses
    BY <1>1, VariablesSpared
  <2>2. FpAt(e) + u = a => e = d /\ u = v
    BY <1>1, VariablesApart DEF a
  <2>3. e = d /\ u = v => FpAt(e) + u = a
    BY DEF a
  <2> QED BY <1>1, <2>1, <2>2, <2>3
<1>6. ASSUME NEW e \in 1..Len(stack), e # d PROVE VarsAt(e)' = VarsAt(e)
  BY <1>5, <1>6, VarsKept
<1>7. VarsAt(d)' = [VarsAt(d) EXCEPT ![v] = w]
  <2>1. VarsAt(d)' = [u \in Variables(FnAt(d)) |-> memory'[FpAt(d) + u]]
    BY SameLayout DEF VarsAt
  <2>2. \A u \in Variables(FnAt(d)) : memory'[FpAt(d) + u] = IF u = v THEN w ELSE memory[FpAt(d) + u]
    BY <1>5
  <2> QED BY <2>1, <2>2 DEF VarsAt
<1>8. ReadOff /\ ReadOff'
  <2>1. Shaped /\ Shaped'
    BY DEF FrameInv
  <2> QED BY <2>1, ActivationsRead, PTL
<1>9. ASSUME NEW e \in 1..Len(stack)
      PROVE  activations'[e] = [activations EXCEPT ![d].vars[v] = w][e]
  <2>1. /\ activations[e] = [fn |-> FnAt(e), home |-> HomeAt(e),
                             vars |-> VarsAt(e), pending |-> PendingAt(e)]
        /\ activations'[e] = [fn |-> FnAt(e), home |-> HomeAt(e),
                              vars |-> VarsAt(e)', pending |-> PendingAt(e)]
    BY <1>4, <1>8, SameLayout DEF ReadOff
  <2>2. e \in DOMAIN activations
    BY <1>8 DEF ReadOff
  <2>3. CASE e # d
    BY <1>6, <2>1, <2>2, <2>3
  <2>4. CASE e = d
    BY <1>7, <2>1, <2>2, <2>4
  <2> QED BY <2>3, <2>4
<1>10. activations' = [activations EXCEPT ![d].vars[v] = w]
  <2>1. /\ activations' = [e \in 1..Len(stack) |-> activations'[e]]
        /\ DOMAIN activations = 1..Len(stack)
    BY <1>8 DEF ReadOff
  <2> QED BY <1>9, <2>1
<1>11. global_words' = global_words
  <2>1. \A b \in Globals : b \in Addresses /\ b # a
    BY <1>1, GlobalsSpared, VariablesNotGlobal DEF a
  <2>2. global_words' = [b \in Globals |-> memory'[b]]
    BY SameLayout DEF global_words
  <2> QED BY <1>1, <2>1, <2>2 DEF global_words
<1> QED BY <1>10, <1>11

\* The running activation in Activations' terms.
LEMMA RunningRead ==
  ASSUME FrameInv
  PROVE  /\ Act!Depth = Len(stack) /\ Len(stack) \in 1..Len(stack)
         /\ Act!Running = activations[Len(stack)]
         /\ activations[Len(stack)] =
              [fn |-> fn, home |-> fp + FirstLocal(fn),
               vars |-> VarsAt(Len(stack)), pending |-> PendingAt(Len(stack))]
         /\ fn = FnAt(Len(stack)) /\ fp = FpAt(Len(stack)) /\ fn \in Functions
<1>1. ReadOff /\ fn = FnAt(Len(stack)) /\ fp = FpAt(Len(stack)) /\ fn \in Functions
  BY ActivationsRead DEF FrameInv, Shaped, Opened, Typed
<1>2. HomeAt(Len(stack)) = fp + FirstLocal(fn)
  BY <1>1 DEF HomeAt
<1> QED BY <1>1, <1>2 DEF ReadOff, Act!Depth, Act!Running

LEMMA ComputeMaps ==
  ASSUME FrameInv, FrameInv', Compute
  PROVE  Act!Compute
<1>1. UNCHANGED <<program, stack, parametros, memory>> /\ reg' \in Values
  BY DEF Compute, control
<1>2. activations' = activations /\ global_words' = global_words
  BY <1>1, Untouched
<1> QED BY <1>1, <1>2 DEF Act!Compute

LEMMA LoadMaps ==
  ASSUME FrameInv, FrameInv', LOAD
  PROVE  Act!Read
<1>1. UNCHANGED <<program, stack, parametros, memory>>
  BY DEF LOAD, control
<1>2. activations' = activations /\ global_words' = global_words
  BY <1>1, Untouched
<1>3. PICK a \in Visible : reg' = memory[a]
  BY DEF LOAD
<1>4. CASE a \in Globals
  BY <1>2, <1>3, <1>4 DEF Act!Read, global_words
<1>5. CASE \E v \in Variables(fn) : a = fp + v
  <2>1. PICK v \in Variables(fn) : a = fp + v
    BY <1>5
  <2>2. Act!Running.vars = VarsAt(Len(stack)) /\ Act!Running.fn = fn /\ fn \in Functions
        /\ fn = FnAt(Len(stack)) /\ fp = FpAt(Len(stack))
    BY RunningRead
  <2>3. Act!Running.vars[v] = memory[a]
    BY <2>1, <2>2 DEF VarsAt
  <2>4. v \in VarsOf[Act!Running.fn]
    BY <2>1, <2>2 DEF VarsOf
  <2> QED BY <1>2, <1>3, <2>3, <2>4 DEF Act!Read
<1> QED BY <1>4, <1>5 DEF Visible

LEMMA StoreMaps ==
  ASSUME FrameInv, FrameInv', STORE
  PROVE  Act!Write
<1>1. UNCHANGED <<program, stack, parametros>> /\ reg' = reg
  BY DEF STORE, control
<1>2. PICK a \in Visible : memory' = [memory EXCEPT ![a] = reg]
  BY DEF STORE
<1>3. CASE a \in Globals
  <2>1. activations' = activations /\ global_words' = [global_words EXCEPT ![a] = reg]
    BY <1>1, <1>2, <1>3, WriteGlobal
  <2> QED BY <1>1, <1>3, <2>1 DEF Act!Write
<1>4. CASE \E v \in Variables(fn) : a = fp + v
  <2>1. PICK v \in Variables(fn) : a = fp + v
    BY <1>4
  <2>2. /\ Act!Running.fn = fn /\ fn \in Functions /\ Act!Depth = Len(stack)
        /\ fn = FnAt(Len(stack)) /\ fp = FpAt(Len(stack)) /\ Len(stack) \in 1..Len(stack)
    BY RunningRead
  <2>3. /\ activations' = [activations EXCEPT ![Len(stack)].vars[v] = reg]
        /\ global_words' = global_words
    BY <1>1, <1>2, <2>1, <2>2, WriteVariable
  <2>4. v \in VarsOf[Act!Running.fn]
    BY <2>1, <2>2 DEF VarsOf
  <2>5. activations' = Act!Set(Act!Depth, v, reg)
    BY <2>2, <2>3 DEF Act!Set
  <2> QED BY <1>1, <2>3, <2>4, <2>5 DEF Act!Write
<1> QED BY <1>3, <1>4 DEF Visible

\* The arrays that live in frames are those of the activations.
LEMMA ArraysRead ==
  ASSUME FrameInv
  PROVE  /\ Act!LiveArrays = LiveArrays
         /\ \A d \in 1..Len(stack) : LocalArray(FnAt(d), FpAt(d))
              = [address |-> activations[d].home, len |-> Len(ArrayOf[activations[d].fn])]
<1>1. ReadOff /\ Shaped /\ program \in Programs
  BY ActivationsRead DEF FrameInv, Shaped, Typed
<1>2. ASSUME NEW d \in 1..Len(stack)
      PROVE  LocalArray(FnAt(d), FpAt(d))
               = [address |-> activations[d].home, len |-> Len(ArrayOf[activations[d].fn])]
  <2>1. activations[d].fn = FnAt(d) /\ activations[d].home = HomeAt(d) /\ FnAt(d) \in Functions
    BY <1>1, ActivationFacts DEF ReadOff, Shaped
  <2>2. Locals[FnAt(d)] \in Nat
    BY <1>1, <2>1, LayoutFacts
  <2>3. ArrayOf[FnAt(d)] = [e \in 1..Locals[FnAt(d)] |-> FirstLocal(FnAt(d)) + e - 1]
    BY <2>1 DEF ArrayOf
  <2>4. Len(ArrayOf[FnAt(d)]) = Locals[FnAt(d)]
    <3> DEFINE k == Locals[FnAt(d)]  first == FirstLocal(FnAt(d))
    <3>1. k \in Nat /\ ArrayOf[FnAt(d)] = [e \in 1..k |-> first + e - 1]
      BY <2>2, <2>3
    <3> HIDE DEF k, first
    <3>2. Len(ArrayOf[FnAt(d)]) = k
      BY <3>1
    <3> QED BY <3>2 DEF k
  <2> QED BY <2>1, <2>4 DEF LocalArray, Address, HomeAt
<1>3. Act!LiveArrays = {LocalArray(FnAt(d), FpAt(d)) : d \in 1..Len(stack)}
  BY <1>1, <1>2 DEF Act!LiveArrays, Act!Depth, ReadOff
<1> QED BY <1>2, <1>3 DEF LiveArrays, FnAt, FpAt

LEMMA ElementRead ==
  ASSUME FrameInv, NEW a \in Elements
  PROVE  \E p \in 0..(Params[Act!Running.fn] - 1), d \in 1..Act!Depth :
           /\ Act!Running.vars[p] \in Act!LiveArrays
           /\ activations[d].home = Act!Running.vars[p].address
           /\ \E e \in DOMAIN ArrayOf[activations[d].fn] :
                /\ ArrayOf[activations[d].fn][e] \in Variables(FnAt(d))
                /\ a = FpAt(d) + ArrayOf[activations[d].fn][e]
<1>1. ReadOff /\ Shaped /\ program \in Programs
  BY ActivationsRead DEF FrameInv, Shaped, Typed
<1>2. PICK p \in 0..(Params[fn] - 1) :
        /\ memory[fp + p] \in LiveArrays
        /\ \E e \in 0..(memory[fp + p].len - 1) : a = memory[fp + p].address + e
  BY DEF Elements
<1>3. PICK d \in 1..Len(stack) : memory[fp + p] = LocalArray(FnAt(d), FpAt(d))
  BY <1>2 DEF LiveArrays, FnAt, FpAt
<1>4. /\ Act!Running.fn = fn /\ Act!Running.vars = VarsAt(Len(stack)) /\ Act!Depth = Len(stack)
      /\ fn = FnAt(Len(stack)) /\ fp = FpAt(Len(stack)) /\ fn \in Functions
  BY RunningRead
<1>5. Act!Running.vars[p] = memory[fp + p]
  <2>1. p \in Variables(fn)
    BY DEF Variables
  <2> QED BY <1>4, <2>1 DEF VarsAt
<1> DEFINE f == FnAt(d)  base == FpAt(d)
<1>6. /\ activations[d].fn = f /\ activations[d].home = base + FirstLocal(f) /\ f \in Functions
      /\ base \in Nat
  BY <1>1, ActivationFacts DEF ReadOff, HomeAt, Shaped
<1>7. memory[fp + p].len = Locals[f] /\ memory[fp + p].address = base + FirstLocal(f)
  BY <1>3 DEF LocalArray, Address
<1>8. PICK e \in 0..(Locals[f] - 1) : a = base + FirstLocal(f) + e
  BY <1>2, <1>7
<1> DEFINE first == FirstLocal(f)  locals == Locals[f]
<1>9. first \in Nat /\ locals \in Nat
  BY <1>1, <1>6, LayoutFacts
<1>10. /\ e + 1 \in 1..locals /\ first + (e + 1) - 1 = first + e
       /\ first + e \in first..(first + locals - 1) /\ a = base + (first + e)
  <2>1. e \in 0..(locals - 1) /\ a = base + first + e /\ base \in Nat
    BY <1>6, <1>8
  <2> HIDE DEF first, locals, base
  <2> QED BY <1>9, <2>1
<1>11. /\ e + 1 \in DOMAIN ArrayOf[f] /\ ArrayOf[f][e + 1] = first + e
  BY <1>6, <1>10 DEF ArrayOf
<1>12. first + e \in Variables(f)
  BY <1>10 DEF Variables
<1>13. /\ Act!Running.vars[p] \in Act!LiveArrays
       /\ activations[d].home = Act!Running.vars[p].address
  BY <1>2, <1>5, <1>6, <1>7, ArraysRead
<1>14. \E i \in DOMAIN ArrayOf[activations[d].fn] :
         /\ ArrayOf[activations[d].fn][i] \in Variables(FnAt(d))
         /\ a = FpAt(d) + ArrayOf[activations[d].fn][i]
  BY <1>6, <1>10, <1>11, <1>12
<1> HIDE DEF f, base, first, locals
<1> QED BY <1>4, <1>13, <1>14

LEMMA LoadElementMaps ==
  ASSUME FrameInv, FrameInv', LOAD_Element
  PROVE  Act!ReadElement
<1>1. UNCHANGED <<program, stack, parametros, memory>>
  BY DEF LOAD_Element, control
<1>2. activations' = activations /\ global_words' = global_words
  BY <1>1, Untouched
<1>3. PICK a \in Elements : reg' = memory[a]
  BY DEF LOAD_Element
<1>4. PICK p \in 0..(Params[Act!Running.fn] - 1), d \in 1..Act!Depth :
        /\ Act!Running.vars[p] \in Act!LiveArrays
        /\ activations[d].home = Act!Running.vars[p].address
        /\ \E e \in DOMAIN ArrayOf[activations[d].fn] :
             /\ ArrayOf[activations[d].fn][e] \in Variables(FnAt(d))
             /\ a = FpAt(d) + ArrayOf[activations[d].fn][e]
  BY ElementRead
<1>5. PICK e \in DOMAIN ArrayOf[activations[d].fn] :
        /\ ArrayOf[activations[d].fn][e] \in Variables(FnAt(d))
        /\ a = FpAt(d) + ArrayOf[activations[d].fn][e]
  BY <1>4
<1>6. d \in 1..Len(stack) /\ activations[d].vars = VarsAt(d)
  BY RunningRead, ActivationsRead DEF ReadOff, FrameInv
<1>7. reg' = activations[d].vars[ArrayOf[activations[d].fn][e]]
  BY <1>3, <1>5, <1>6 DEF VarsAt
<1> QED BY <1>2, <1>4, <1>7 DEF Act!ReadElement

LEMMA StoreElementMaps ==
  ASSUME FrameInv, FrameInv', STORE_Element
  PROVE  Act!WriteElement
<1>1. UNCHANGED <<program, stack, parametros>> /\ reg' = reg
  BY DEF STORE_Element, control
<1>2. PICK a \in Elements : memory' = [memory EXCEPT ![a] = reg]
  BY DEF STORE_Element
<1>3. PICK p \in 0..(Params[Act!Running.fn] - 1), d \in 1..Act!Depth :
        /\ Act!Running.vars[p] \in Act!LiveArrays
        /\ activations[d].home = Act!Running.vars[p].address
        /\ \E e \in DOMAIN ArrayOf[activations[d].fn] :
             /\ ArrayOf[activations[d].fn][e] \in Variables(FnAt(d))
             /\ a = FpAt(d) + ArrayOf[activations[d].fn][e]
  BY ElementRead
<1>4. PICK e \in DOMAIN ArrayOf[activations[d].fn] :
        /\ ArrayOf[activations[d].fn][e] \in Variables(FnAt(d))
        /\ a = FpAt(d) + ArrayOf[activations[d].fn][e]
  BY <1>3
<1> DEFINE v == ArrayOf[activations[d].fn][e]
<1>5. d \in 1..Len(stack) /\ v \in Variables(FnAt(d)) /\ memory' = [memory EXCEPT ![FpAt(d) + v] = reg]
  BY <1>2, <1>4, RunningRead
<1> HIDE DEF v
<1>6. /\ activations' = [activations EXCEPT ![d].vars[v] = reg]
      /\ global_words' = global_words
  BY <1>1, <1>5, WriteVariable
<1>7. activations' = Act!Set(d, v, reg)
  BY <1>6 DEF Act!Set
<1> QED BY <1>1, <1>3, <1>6, <1>7 DEF Act!WriteElement, v

\* Sequences given element by element.
LEMMA SequenceOf ==
  ASSUME NEW k \in Nat, NEW f, f = [p \in 1..k |-> f[p]]
  PROVE  f \in Seq({f[p] : p \in 1..k}) /\ Len(f) = k
<1> DEFINE S == {f[p] : p \in 1..k}
<1>1. f \in [1..k -> S]
  <2>1. \A p \in 1..k : f[p] \in S
    OBVIOUS
  <2> HIDE DEF S
  <2> QED BY <2>1
<1> HIDE DEF S
<1>2. f \in Seq(S) /\ Len(f) = k
  BY <1>1
<1> QED BY <1>2 DEF S

LEMMA AppendTo ==
  ASSUME NEW k \in Nat, NEW f, f = [p \in 1..k |-> f[p]], NEW w
  PROVE  Append(f, w) = [p \in 1..k + 1 |-> IF p = k + 1 THEN w ELSE f[p]]
<1>1. f \in Seq({f[p] : p \in 1..k}) /\ Len(f) = k
  BY SequenceOf
<1> QED BY <1>1

\* An argument joins those pending of the running activation; a function that
\* calls is not a leaf, so no other activation has any.
LEMMA ParamMaps ==
  ASSUME FrameInv, FrameInv', NEW w, PARAM(w),
         \/ w = reg
         \/ w = LocalArray(fn, fp)
  PROVE  Act!Pass
<1>1. /\ ~ Leaf(fn) /\ parametros < MaxParams /\ parametros' = parametros + 1 /\ reg' = w
      /\ memory' = [memory EXCEPT ![INIT_STACK_PARAMS + parametros] = w]
      /\ program' = program /\ stack' = stack
  BY DEF PARAM
<1>2. /\ Shaped /\ memory \in [Addresses -> Words] /\ parametros \in 0..MaxParams - 1
      /\ sp \in Nat /\ sp < INIT_CONTEXT_SWITCH /\ parametros \in Nat
  BY <1>1, Regions DEF FrameInv, Shaped, Typed, Topped
<1> DEFINE a == INIT_STACK_PARAMS + parametros
<1>3. a \in Addresses /\ a > sp /\ a \notin 0..sp
  BY <1>2, Regions, ParametersSpared
<1>4. \A b \in 0..sp : b \in Addresses /\ memory'[b] = memory[b]
  BY <1>1, <1>2, <1>3, FramesBelowSp
<1>5. \A b \in 0..MaxParams - 1 :
        memory'[INIT_STACK_PARAMS + b] = IF b = parametros THEN w ELSE memory[INIT_STACK_PARAMS + b]
  <2> SUFFICES ASSUME NEW b \in 0..MaxParams - 1
               PROVE  memory'[INIT_STACK_PARAMS + b] = IF b = parametros THEN w ELSE memory[INIT_STACK_PARAMS + b]
    OBVIOUS
  <2>1. INIT_STACK_PARAMS + b \in Addresses
    BY <1>2, ParametersSpared
  <2>2. INIT_STACK_PARAMS + b = a <=> b = parametros
    BY <1>2, Regions
  <2> QED BY <1>1, <1>2, <2>1, <2>2
<1>6. ASSUME NEW d \in 1..Len(stack) PROVE VarsAt(d)' = VarsAt(d)
  <2>1. \A v \in Variables(FnAt(d)) : memory'[FpAt(d) + v] = memory[FpAt(d) + v]
    BY <1>2, <1>4, VariablesSpared
  <2> QED BY <1>1, <2>1, VarsKept
<1>7. ASSUME NEW d \in 1..Len(stack), d # Len(stack) PROVE PendingAt(d)' = PendingAt(d)
  <2>1. PendingOf(d) = 0 /\ PendingOf(d) = memory[Back(d + 1)].parametros /\ d + 1 \in 2..Len(stack)
    BY <1>1, <1>7, PendingCounted
  <2>2. PendingOf(d)' = memory'[Back(d + 1)'].parametros
    BY <1>1, <1>7 DEF PendingOf, Back, FnAt, FpAt
  <2>3. Back(d + 1)' = Back(d + 1) /\ Back(d + 1) \in 0..sp
    <3>1. d + 1 \in 1..Len(stack)
      BY <2>1
    <3> QED BY <1>1, <1>2, <3>1, SameLayout, LinksAddressed
  <2>4. PendingOf(d)' = 0
    BY <1>4, <2>1, <2>2, <2>3
  <2> QED BY <2>1, <2>4 DEF PendingAt
<1>0. PICK n : n = Len(stack) /\ n \in 1..n
  BY <1>2, ActivationFacts DEF Shaped
<1>8. PendingAt(n)' = Append(PendingAt(n), w)
  <2>1. PendingOf(n) = parametros /\ PendingOf(n)' = parametros'
    BY <1>0, <1>1 DEF PendingOf
  <2>2. /\ PendingAt(n) = [p \in 1..parametros |-> memory[INIT_STACK_PARAMS + p - 1]]
        /\ PendingAt(n)' = [p \in 1..parametros + 1 |-> memory'[INIT_STACK_PARAMS + p - 1]]
    BY <1>1, <2>1 DEF PendingAt
  <2>3. \A p \in 1..parametros + 1 :
          memory'[INIT_STACK_PARAMS + p - 1]
            = IF p = parametros + 1 THEN w ELSE memory[INIT_STACK_PARAMS + p - 1]
    <3> SUFFICES ASSUME NEW p \in 1..parametros + 1
                 PROVE  memory'[INIT_STACK_PARAMS + p - 1]
                          = IF p = parametros + 1 THEN w ELSE memory[INIT_STACK_PARAMS + p - 1]
      OBVIOUS
    <3>1. /\ p - 1 \in 0..MaxParams - 1 /\ INIT_STACK_PARAMS + (p - 1) = INIT_STACK_PARAMS + p - 1
          /\ p - 1 = parametros <=> p = parametros + 1
      BY <1>2, Regions
    <3>2. memory'[INIT_STACK_PARAMS + (p - 1)]
            = IF p - 1 = parametros THEN w ELSE memory[INIT_STACK_PARAMS + (p - 1)]
      BY <1>5, <3>1
    <3> QED BY <3>1, <3>2
  <2> DEFINE old == PendingAt(n)
  <2>4. old = [p \in 1..parametros |-> old[p]]
    BY <2>2
  <2>5. Append(old, w) = [p \in 1..parametros + 1 |-> IF p = parametros + 1 THEN w ELSE old[p]]
    <3> HIDE DEF old
    <3> QED BY <1>2, <2>4, AppendTo
  <2>6. \A p \in 1..parametros + 1 : p # parametros + 1 => old[p] = memory[INIT_STACK_PARAMS + p - 1]
    BY <1>2, <2>2
  <2> HIDE DEF old
  <2>7. PendingAt(n)' = [p \in 1..parametros + 1 |-> IF p = parametros + 1 THEN w ELSE old[p]]
    BY <2>2, <2>3, <2>6
  <2> QED BY <2>5, <2>7 DEF old
<1>9. ReadOff /\ ReadOff'
  <2>1. Shaped /\ Shaped'
    BY DEF FrameInv
  <2> QED BY <2>1, ActivationsRead, PTL
<1>10. activations' = [activations EXCEPT ![n].pending = Append(@, w)]
  <2>1. \A e \in 1..n :
          /\ activations[e] = [fn |-> FnAt(e), home |-> HomeAt(e),
                               vars |-> VarsAt(e), pending |-> PendingAt(e)]
          /\ activations'[e] = [fn |-> FnAt(e), home |-> HomeAt(e),
                                vars |-> VarsAt(e), pending |-> PendingAt(e)']
    BY <1>0, <1>1, <1>6, <1>9, SameLayout DEF ReadOff
  <2>2. ASSUME NEW e \in 1..n
        PROVE  activations'[e] = [activations EXCEPT ![n].pending = Append(@, w)][e]
    <3>1. e \in DOMAIN activations
      BY <1>0, <1>9 DEF ReadOff
    <3>2. CASE e # n
      BY <1>0, <1>7, <2>1, <3>1, <3>2
    <3>3. CASE e = n
      <4> DEFINE q == Append(activations[n].pending, w)
      <4>1. [activations EXCEPT ![n].pending = q][n] = [activations[n] EXCEPT !.pending = q]
        <5> HIDE DEF q
        <5> QED BY <3>1, <3>3
      <4>4. activations[n] = [fn |-> FnAt(n), home |-> HomeAt(n),
                              vars |-> VarsAt(n), pending |-> PendingAt(n)]
        BY <2>1, <3>3
      <4>5. q = Append(PendingAt(n), w)
        BY <4>4
      <4>3. [activations[n] EXCEPT !.pending = q]
              = [fn |-> FnAt(n), home |-> HomeAt(n), vars |-> VarsAt(n), pending |-> q]
        <5> HIDE DEF q
        <5> QED BY <4>4
      <4>2. activations'[n] = [fn |-> FnAt(n), home |-> HomeAt(n),
                               vars |-> VarsAt(n), pending |-> Append(PendingAt(n), w)]
        BY <1>8, <2>1, <3>3
      <4> QED BY <3>3, <4>1, <4>2, <4>3, <4>5
    <3> QED BY <3>2, <3>3
  <2>3. /\ activations' = [e \in 1..n |-> activations'[e]]
        /\ DOMAIN activations = 1..n
    BY <1>0, <1>1, <1>9 DEF ReadOff
  <2> QED BY <2>2, <2>3
<1>11. global_words' = global_words
  <2>1. \A b \in Globals : memory'[b] = memory[b]
    BY <1>2, <1>4, GlobalsSpared
  <2>2. Globals' = Globals
    BY <1>1, SameLayout
  <2> QED BY <2>1, <2>2 DEF global_words
<1>12. reg' = reg \/ reg' = [address |-> Act!Running.home, len |-> Len(ArrayOf[Act!Running.fn])]
  <2>1. LocalArray(fn, fp) = [address |-> Act!Running.home, len |-> Len(ArrayOf[Act!Running.fn])]
    BY RunningRead, ArraysRead
  <2> QED BY <1>1, <2>1
<1>13. Act!Depth = n
  BY <1>0, RunningRead
<1> QED BY <1>1, <1>10, <1>11, <1>12, <1>13 DEF Act!Pass

LEMMA PrefixOf ==
  ASSUME NEW k \in Nat, NEW j \in 0..k, NEW f, f = [p \in 1..k |-> f[p]]
  PROVE  SubSeq(f, 1, j) = [p \in 1..j |-> f[p]]
<1>1. f \in Seq({f[p] : p \in 1..k}) /\ Len(f) = k
  BY SequenceOf
<1> QED BY <1>1

LEMMA EmptyOf == \A f : [p \in 1..0 |-> f[p]] = <<>>
OBVIOUS

\* An activation whose frame has not moved nor been written has the same variables.
LEMMA VarsWhere ==
  ASSUME program' = program, NEW d, FnAt(d)' = FnAt(d), FpAt(d)' = FpAt(d),
         \A v \in Variables(FnAt(d)) : memory'[FpAt(d) + v] = memory[FpAt(d) + v]
  PROVE  VarsAt(d)' = VarsAt(d) /\ HomeAt(d)' = HomeAt(d)
<1>1. Params' = Params /\ Locals' = Locals
  BY SameProgram
<1>2. \A f : Variables(f)' = Variables(f) /\ FirstLocal(f)' = FirstLocal(f)
  BY <1>1 DEF Variables, FirstLocal
<1>3. VarsAt(d)' = [v \in Variables(FnAt(d)) |-> memory'[FpAt(d) + v]]
  BY <1>2 DEF VarsAt
<1> QED BY <1>2, <1>3 DEF VarsAt, HomeAt

\* A call opens an activation whose parameters are the arguments pushed last and
\* leaves the caller those pushed before them.
LEMMA CallMaps ==
  ASSUME NestedInLeaves, FrameInv, FrameInv', NEW g \in Callees[fn], CALL(g)
  PROVE  Act!Invoke
<1>0. PICK n : n = Len(stack)
  OBVIOUS
<1>1. /\ Shaped /\ program \in Programs /\ parametros \in 0..MaxParams /\ sp \in Nat
      /\ memory \in [Addresses -> Words] /\ program' = program /\ reg' = reg /\ fn' = g
      /\ n \in 1..n /\ n \in Nat
  BY <1>0, ActivationFacts DEF CALL, FrameInv, Shaped, Typed
<1> DEFINE base == Past(n)  left == parametros - Params[g]
<1>2. /\ g \in Functions /\ ~ Leaf(fn) /\ base = sp + 1 /\ base \in Nat /\ left \in 0..MaxParams
      /\ parametros' = 0
  BY <1>0, <1>1, CallPlaces DEF CALL
<1>3. /\ Len(stack') = n + 1
      /\ \A d \in 1..n : FnAt(d)' = FnAt(d) /\ FpAt(d)' = FpAt(d) /\ Back(d)' = Back(d)
      /\ FnAt(n + 1)' = g /\ FpAt(n + 1)' = base /\ Back(n + 1)' = base + Endereco_Retorno(g)
  BY <1>0, <1>1, CallStack
<1>4. /\ \A a \in 0..sp : memory'[a] = memory[a]
      /\ \A p \in 0..(Params[g] - 1) : memory'[base + p] = memory[INIT_STACK_PARAMS + left + p]
      /\ memory'[base + Endereco_Retorno(g)] = Site(fn, 0, left)
      /\ \A a \in Addresses : a >= INIT_STACK_PARAMS => memory'[a] = memory[a]
  BY <1>0, <1>1, CallWrites
<1>5. Params[g] \in Nat /\ left = parametros - Params[g] /\ left <= parametros
  BY <1>1, <1>2, LayoutFacts
<1>6. \A p \in 0..MaxParams - 1 : memory'[INIT_STACK_PARAMS + p] = memory[INIT_STACK_PARAMS + p]
  <2> SUFFICES ASSUME NEW p \in 0..MaxParams - 1
               PROVE  memory'[INIT_STACK_PARAMS + p] = memory[INIT_STACK_PARAMS + p]
    OBVIOUS
  <2>1. INIT_STACK_PARAMS + p \in Addresses /\ INIT_STACK_PARAMS + p >= INIT_STACK_PARAMS
    BY <1>1, Regions, ParametersSpared
  <2> QED BY <1>4, <2>1
<1>7. /\ \A f : Variables(f)' = Variables(f) /\ FirstLocal(f)' = FirstLocal(f)
      /\ Globals' = Globals /\ VarsOf' = VarsOf
  <2>1. /\ Params' = Params /\ Locals' = Locals /\ GlobalSize' = GlobalSize
        /\ Functions' = Functions
    BY <1>1, SameProgram
  <2>2. \A f : Variables(f)' = Variables(f) /\ FirstLocal(f)' = FirstLocal(f)
    BY <2>1 DEF Variables, FirstLocal
  <2> QED BY <2>1, <2>2 DEF Globals, VarsOf
<1>8. ASSUME NEW d \in 1..n
      PROVE  VarsAt(d)' = VarsAt(d) /\ HomeAt(d)' = HomeAt(d)
  <2>1. \A v \in Variables(FnAt(d)) : memory'[FpAt(d) + v] = memory[FpAt(d) + v]
    BY <1>0, <1>1, <1>4, VariablesSpared
  <2> QED BY <1>1, <1>3, <2>1, VarsWhere
<1>9. ASSUME NEW d \in 1..(n - 1) PROVE PendingAt(d)' = PendingAt(d)
  <2>1. d \in 1..n /\ d # n /\ d # n + 1 /\ d + 1 \in 1..n /\ d + 1 \in 2..n
    BY <1>1
  <2>2. PendingOf(d) = 0 /\ PendingOf(d) = memory[Back(d + 1)].parametros
    BY <1>0, <1>2, <2>1, PendingCounted
  <2>3. PendingOf(d)' = memory'[Back(d + 1)'].parametros
    BY <1>1, <1>3, <2>1 DEF PendingOf, Back, FnAt, FpAt
  <2>4. Back(d + 1)' = Back(d + 1) /\ Back(d + 1) \in 0..sp
    BY <1>0, <1>1, <1>3, <2>1, LinksAddressed
  <2>5. PendingOf(d)' = 0
    BY <1>4, <2>2, <2>3, <2>4
  <2> QED BY <2>2, <2>5 DEF PendingAt
<1>10. PendingAt(n) = [p \in 1..parametros |-> memory[INIT_STACK_PARAMS + p - 1]]
  BY <1>0 DEF PendingAt, PendingOf
<1>11. Len(PendingAt(n)) = parametros
  BY <1>1, <1>10
<1>12. PendingAt(n)' = SubSeq(PendingAt(n), 1, left)
  <2>1. PendingOf(n)' = memory'[Back(n + 1)'].parametros
    BY <1>1, <1>3 DEF PendingOf, Back, FnAt, FpAt
  <2>2. PendingOf(n)' = left
    BY <1>3, <1>4, <2>1 DEF Site
  <2>3. PendingAt(n)' = [p \in 1..left |-> memory'[INIT_STACK_PARAMS + p - 1]]
    BY <2>2 DEF PendingAt
  <2>4. ASSUME NEW p \in 1..left
        PROVE  memory'[INIT_STACK_PARAMS + p - 1] = PendingAt(n)[p]
    <3>1. /\ p - 1 \in 0..MaxParams - 1 /\ INIT_STACK_PARAMS + (p - 1) = INIT_STACK_PARAMS + p - 1
          /\ p \in 1..parametros
      BY <1>1, <1>2, <1>5, Regions
    <3>2. memory'[INIT_STACK_PARAMS + (p - 1)] = memory[INIT_STACK_PARAMS + (p - 1)]
      BY <1>6, <3>1
    <3> QED BY <1>10, <3>1, <3>2
  <2>5. SubSeq(PendingAt(n), 1, left) = [p \in 1..left |-> PendingAt(n)[p]]
    <3>1. left \in 0..parametros /\ parametros \in Nat
      BY <1>1, <1>2, <1>5
    <3>2. PendingAt(n) = [p \in 1..parametros |-> PendingAt(n)[p]]
      BY <1>10
    <3> QED BY <3>1, <3>2, PrefixOf
  <2> HIDE DEF left
  <2> QED BY <2>3, <2>4, <2>5
<1>13. PendingAt(n + 1)' = <<>>
  <2>1. PendingOf(n + 1)' = 0
    BY <1>2, <1>3 DEF PendingOf
  <2> QED BY <2>1 DEF PendingAt
<1>14. /\ VarsAt(n + 1)' = [v \in Variables(g) |-> memory'[base + v]]
       /\ HomeAt(n + 1)' = base + FirstLocal(g)
  BY <1>3, <1>7 DEF VarsAt, HomeAt
<1>15. ASSUME NEW p \in 0..(Params[g] - 1)
       PROVE  VarsAt(n + 1)'[p] = PendingAt(n)[left + p + 1]
  <2>1. p \in Variables(g)
    BY DEF Variables
  <2>2. VarsAt(n + 1)'[p] = memory[INIT_STACK_PARAMS + left + p]
    BY <1>4, <1>14, <2>1
  <2>3. /\ left + p + 1 \in 1..parametros
        /\ INIT_STACK_PARAMS + (left + p + 1) - 1 = INIT_STACK_PARAMS + left + p
    BY <1>1, <1>2, <1>5, Regions
  <2> QED BY <1>10, <2>2, <2>3
<1>16. ASSUME NEW d \in 1..n PROVE HomeAt(d) # HomeAt(n + 1)'
  <2> DEFINE first == FirstLocal(FnAt(d))  new == FirstLocal(g)  start == FpAt(d)  past == Past(d)
  <2>1. /\ first \in Nat /\ start \in Nat /\ past \in Nat /\ new \in Nat /\ new >= 6 /\ start + first <= past
    <3>1. start \in Nat /\ FnAt(d) \in Functions
      BY <1>0, <1>1, ActivationFacts DEF Shaped
    <3>2. /\ first \in Nat /\ Locals[FnAt(d)] \in Nat /\ Size(FnAt(d), 0) = first + Locals[FnAt(d)]
          /\ new = Vinculo_Controle(g) + 6 /\ Vinculo_Controle(g) \in Nat
      BY <1>1, <1>2, <3>1, LayoutFacts
    <3> DEFINE locals == Locals[FnAt(d)]  link == Vinculo_Controle(g)
    <3>3. past = start + (first + locals)
      BY <3>2 DEF Past
    <3>4. locals \in Nat /\ link \in Nat /\ new = link + 6
      BY <3>2
    <3> HIDE DEF first, new, start, past, locals, link
    <3> QED BY <3>1, <3>2, <3>3, <3>4
  <2>2. past - 1 <= sp
    BY <1>0, <1>1, FramesBelowSp
  <2>3. HomeAt(d) = start + first /\ HomeAt(n + 1)' = base + new
    BY <1>14 DEF HomeAt
  <2> HIDE DEF first, new, start, past, base
  <2> QED BY <1>1, <1>2, <2>1, <2>2, <2>3
<1>17. ReadOff /\ ReadOff'
  <2>1. Shaped /\ Shaped'
    BY DEF FrameInv
  <2> QED BY <2>1, ActivationsRead, PTL
<1>18. /\ Act!Depth = n /\ Act!Running = activations[n] /\ Len(activations') = n + 1
       /\ activations[n] = [fn |-> fn, home |-> HomeAt(n), vars |-> VarsAt(n), pending |-> PendingAt(n)]
  BY <1>0, <1>1, <1>3, <1>17, RunningRead DEF ReadOff
<1>19. \A d \in 1..n + 1 :
         activations'[d] = [fn |-> FnAt(d)', home |-> HomeAt(d)',
                            vars |-> VarsAt(d)', pending |-> PendingAt(d)']
  BY <1>3, <1>17 DEF ReadOff
<1>20. \A d \in 1..(n - 1) : activations'[d] = activations[d]
  <2> SUFFICES ASSUME NEW d \in 1..(n - 1) PROVE activations'[d] = activations[d]
    OBVIOUS
  <2>1. d \in 1..n + 1 /\ d \in 1..n
    BY <1>1
  <2>2. activations[d] = [fn |-> FnAt(d), home |-> HomeAt(d),
                          vars |-> VarsAt(d), pending |-> PendingAt(d)]
    BY <1>0, <1>17, <2>1 DEF ReadOff
  <2>3. activations'[d] = [fn |-> FnAt(d)', home |-> HomeAt(d)',
                           vars |-> VarsAt(d)', pending |-> PendingAt(d)']
    BY <1>19, <2>1
  <2>4. FnAt(d)' = FnAt(d) /\ HomeAt(d)' = HomeAt(d) /\ VarsAt(d)' = VarsAt(d) /\ PendingAt(d)' = PendingAt(d)
    BY <1>3, <1>8, <1>9, <2>1
  <2> QED BY <2>2, <2>3, <2>4
<1>21. activations'[n] = [activations[n] EXCEPT !.pending = SubSeq(@, 1, left)]
  <2>1. n \in 1..n + 1 /\ fn = FnAt(n)
    BY <1>0, <1>1, RunningRead
  <2>2. activations'[n] = [fn |-> fn, home |-> HomeAt(n), vars |-> VarsAt(n),
                           pending |-> SubSeq(PendingAt(n), 1, left)]
    BY <1>1, <1>3, <1>8, <1>12, <1>19, <2>1
  <2> DEFINE q == SubSeq(activations[n].pending, 1, left)
  <2>3. q = SubSeq(PendingAt(n), 1, left)
    <3>1. activations[n].pending = PendingAt(n)
      BY <1>18
    <3> HIDE DEF left
    <3> QED BY <3>1
  <2>4. [activations[n] EXCEPT !.pending = q]
          = [fn |-> fn, home |-> HomeAt(n), vars |-> VarsAt(n), pending |-> q]
    <3> HIDE DEF q
    <3> QED BY <1>18
  <2> HIDE DEF left
  <2> QED BY <2>2, <2>3, <2>4
<1>22. activations'[n + 1] = [fn |-> g, home |-> HomeAt(n + 1)', vars |-> VarsAt(n + 1)', pending |-> <<>>]
  <2>1. n + 1 \in 1..n + 1
    BY <1>1
  <2> QED BY <1>3, <1>13, <1>19, <2>1
<1>23. HomeAt(n + 1)' \notin {activations[d].home : d \in 1..n}
  <2>1. \A d \in 1..n : activations[d].home = HomeAt(d)
    BY <1>0, <1>17 DEF ReadOff
  <2> QED BY <1>16, <2>1
<1>24. DOMAIN VarsAt(n + 1)' = VarsOf[g]
  BY <1>2, <1>14 DEF VarsOf
<1>25. global_words' = global_words
  <2>1. \A b \in Globals : memory'[b] = memory[b]
    BY <1>1, <1>4, GlobalsSpared
  <2> QED BY <1>7, <2>1 DEF global_words
<1> HIDE DEF base, left
<1>26. Len(activations[n].pending) - Params[g] = left /\ left >= 0
  BY <1>1, <1>2, <1>5, <1>11, <1>18
<1>27. \A p \in 0..(Params[g] - 1) :
         activations'[n + 1].vars[p] = activations[n].pending[left + p + 1]
  BY <1>15, <1>18, <1>22
<1> QED
  <2>1. activations[n].fn = fn
    BY <1>18
  <2>2. /\ activations'[n + 1].fn = g /\ activations'[n + 1].pending = <<>>
        /\ activations'[n + 1].home = HomeAt(n + 1)' /\ activations'[n + 1].vars = VarsAt(n + 1)'
    BY <1>22
  <2> DEFINE was == activations[n]  now == activations'[n]  callee == activations'[n + 1]
             kept == [was EXCEPT !.pending = SubSeq(@, 1, left)]
  <2>3. /\ Act!Running = was /\ Act!Depth = n /\ was.fn = fn /\ Len(activations') = n + 1
        /\ Len(was.pending) - Params[g] = left /\ left >= 0
        /\ now = kept
    BY <1>18, <1>21, <1>26, <2>1
  <2>4. /\ \A d \in 1..(n - 1) : activations'[d] = activations[d]
        /\ callee.fn = g
        /\ callee.home \notin {activations[d].home : d \in 1..n}
        /\ callee.pending = <<>>
        /\ DOMAIN callee.vars = VarsOf[g]
        /\ \A p \in 0..(Params[g] - 1) : callee.vars[p] = was.pending[left + p + 1]
    BY <1>20, <1>23, <1>24, <1>27, <2>2
  <2>5. now = [was EXCEPT !.pending = SubSeq(@, 1, Len(was.pending) - Params[g])]
    BY <2>3
  <2>6. /\ global_words' = global_words /\ reg' = reg
    BY <1>1, <1>25
  <2> HIDE DEF was, now, callee, kept
  <2>7. \E h \in Callees[was.fn] :
          /\ Len(was.pending) - Params[h] >= 0
          /\ Len(activations') = n + 1
          /\ \A d \in 1..(n - 1) : activations'[d] = activations[d]
          /\ now = [was EXCEPT !.pending = SubSeq(@, 1, Len(was.pending) - Params[h])]
          /\ callee.fn = h
          /\ callee.home \notin {activations[d].home : d \in 1..n}
          /\ callee.pending = <<>>
          /\ DOMAIN callee.vars = VarsOf[h]
          /\ \A p \in 0..(Params[h] - 1) :
               callee.vars[p] = was.pending[(Len(was.pending) - Params[h]) + p + 1]
    <3>1. g \in Callees[was.fn]
      BY <2>3
    <3> WITNESS g \in Callees[was.fn]
    <3> QED BY <2>3, <2>4, <2>5
  <2> QED BY <2>3, <2>6, <2>7 DEF Act!Invoke, was, now, callee

\* The code after a call finds the caller's activation as the call left it.
LEMMA EndMaps ==
  ASSUME NestedInLeaves, FrameInv, FrameInv', fn # Main,
         EndTo(memory'[Back(Len(stack))]), PendingSame,
         \A d \in 1..Len(stack) : \A v \in Variables(FnAt(d)) :
           memory'[FpAt(d) + v] = memory[FpAt(d) + v],
         \A a \in Globals : memory'[a] = memory[a]
  PROVE  /\ Act!Depth > 1
         /\ activations' = SubSeq(activations, 1, Act!Depth - 1)
         /\ global_words' = global_words
<1>0. PICK n : n = Len(stack)
  OBVIOUS
<1>1. Shaped /\ Linked /\ Waiting /\ program \in Programs
  BY DEF FrameInv, Shaped, Typed
<1> DEFINE c == FnAt(n - 1)
<1>2. /\ n \in Nat /\ n >= 2 /\ n \in 2..n /\ n - 1 \in 1..n /\ n \in 1..n /\ n - 1 \in Nat
  BY <1>0, <1>1, ReturnPlaces
<1>3. PICK ps \in 0..MaxParams : memory[Back(n)] = Site(c, 0, ps)
  BY <1>0, <1>1, <1>2 DEF Linked
<1>4. memory'[Back(n)] = memory[Back(n)]
  BY <1>0, <1>2 DEF PendingSame
<1>5. parametros' = ps /\ program' = program /\ stack' = SubSeq(stack, 1, n - 1)
  BY <1>0, <1>3, <1>4 DEF EndTo, Site
<1>6. Len(stack') = n - 1 /\ \A d \in 1..n - 1 : stack'[d] = stack[d]
  <2> DEFINE Activation == [fn : Functions, fp : Nat]
  <2>1. stack \in Seq(Activation)
    BY <1>1 DEF Shaped, Typed
  <2> HIDE DEF Activation
  <2> QED BY <1>0, <1>2, <1>5, <2>1
<1>7. \A d \in 1..n - 1 : FnAt(d)' = FnAt(d) /\ FpAt(d)' = FpAt(d) /\ Back(d)' = Back(d)
  <2> SUFFICES ASSUME NEW d \in 1..n - 1
               PROVE  FnAt(d)' = FnAt(d) /\ FpAt(d)' = FpAt(d) /\ Back(d)' = Back(d)
    OBVIOUS
  <2>1. FnAt(d)' = FnAt(d) /\ FpAt(d)' = FpAt(d)
    BY <1>6 DEF FnAt, FpAt
  <2> QED BY <1>5, <2>1, SameProgram DEF Back, Endereco_Retorno
<1>8. ASSUME NEW d \in 1..n - 1
      PROVE  d \in 1..n /\ d # n /\ d + 1 \in 2..n /\ d + 1 \in 1..n
  BY <1>2
<1>9. ASSUME NEW d \in 1..n - 1 PROVE VarsAt(d)' = VarsAt(d) /\ HomeAt(d)' = HomeAt(d)
  BY <1>0, <1>5, <1>7, <1>8, VarsWhere
<1>10. ASSUME NEW d \in 1..n - 1
       PROVE  PendingOf(d)' = PendingOf(d) /\ PendingOf(d) \in 0..MaxParams
  <2>1. PendingOf(d) = memory[Back(d + 1)].parametros /\ PendingOf(d) \in 0..MaxParams
    BY <1>0, <1>8, PendingCounted
  <2>2. CASE d = n - 1
    <3>1. d + 1 = n
      BY <1>2, <2>2
    <3>2. PendingOf(d) = ps
      BY <1>3, <2>1, <3>1 DEF Site
    <3>3. PendingOf(d)' = parametros'
      BY <1>6, <2>2 DEF PendingOf
    <3> QED BY <1>5, <2>1, <3>2, <3>3
  <2>3. CASE d # n - 1
    <3>1. d + 1 \in 1..n - 1
      BY <1>2, <2>3
    <3>2. PendingOf(d)' = memory'[Back(d + 1)'].parametros
      BY <1>6, <2>3 DEF PendingOf, Back, FnAt, FpAt
    <3>3. Back(d + 1)' = Back(d + 1) /\ memory'[Back(d + 1)] = memory[Back(d + 1)]
      BY <1>0, <1>7, <1>8, <3>1 DEF PendingSame
    <3> QED BY <2>1, <3>2, <3>3
  <2> QED BY <2>2, <2>3
<1>11. ASSUME NEW d \in 1..n - 1 PROVE PendingAt(d)' = PendingAt(d)
  <2> DEFINE k == PendingOf(d)
  <2>1. /\ PendingAt(d) = [p \in 1..k |-> memory[INIT_STACK_PARAMS + p - 1]]
        /\ PendingAt(d)' = [p \in 1..k |-> memory'[INIT_STACK_PARAMS + p - 1]]
        /\ k \in 0..MaxParams
    BY <1>10 DEF PendingAt
  <2> HIDE DEF k
  <2>2. \A p \in 1..k : memory'[INIT_STACK_PARAMS + p - 1] = memory[INIT_STACK_PARAMS + p - 1]
    <3> SUFFICES ASSUME NEW p \in 1..k
                 PROVE  memory'[INIT_STACK_PARAMS + p - 1] = memory[INIT_STACK_PARAMS + p - 1]
      OBVIOUS
    <3>1. p - 1 \in 0..MaxParams - 1 /\ INIT_STACK_PARAMS + (p - 1) = INIT_STACK_PARAMS + p - 1
      BY <2>1, Regions
    <3>2. memory'[INIT_STACK_PARAMS + (p - 1)] = memory[INIT_STACK_PARAMS + (p - 1)]
      BY <3>1 DEF PendingSame
    <3> QED BY <3>1, <3>2
  <2> QED BY <2>1, <2>2
<1>12. ReadOff /\ ReadOff'
  <2>1. Shaped /\ Shaped'
    BY DEF FrameInv
  <2> QED BY <2>1, ActivationsRead, PTL
<1>13. \A d \in 1..n - 1 : activations'[d] = activations[d]
  <2> SUFFICES ASSUME NEW d \in 1..n - 1 PROVE activations'[d] = activations[d]
    OBVIOUS
  <2>1. activations[d] = [fn |-> FnAt(d), home |-> HomeAt(d),
                          vars |-> VarsAt(d), pending |-> PendingAt(d)]
    BY <1>0, <1>8, <1>12 DEF ReadOff
  <2>2. activations'[d] = [fn |-> FnAt(d)', home |-> HomeAt(d)',
                           vars |-> VarsAt(d)', pending |-> PendingAt(d)']
    BY <1>6, <1>12 DEF ReadOff
  <2> QED BY <1>7, <1>9, <1>11, <2>1, <2>2
<1>14. activations' = SubSeq(activations, 1, n - 1)
  <2>1. /\ activations = [d \in 1..n |-> activations[d]]
        /\ activations' = [d \in 1..n - 1 |-> activations'[d]]
    BY <1>0, <1>6, <1>12 DEF ReadOff
  <2> DEFINE before == activations
  <2>2. n - 1 \in 0..n
    BY <1>2
  <2>3. SubSeq(before, 1, n - 1) = [d \in 1..n - 1 |-> before[d]]
    <3> HIDE DEF before
    <3> QED BY <1>2, <2>1, <2>2, PrefixOf
  <2> QED BY <1>13, <2>1, <2>3
<1>15. Act!Depth = n /\ n > 1
  BY <1>0, <1>2, RunningRead
<1>16. global_words' = global_words
  <2>1. Globals' = Globals
    BY <1>5, SameProgram DEF Globals
  <2> QED BY <2>1 DEF global_words
<1> QED BY <1>14, <1>15, <1>16

\* The word RET writes is no variable of an open activation and no argument.
LEMMA ReturnMaps ==
  ASSUME NestedInLeaves, FrameInv, FrameInv', RET \/ END
  PROVE  Act!GiveBack
<1>0. PICK n : n = Len(stack)
  OBVIOUS
<1>1. /\ fn # Main /\ memory \in [Addresses -> Words] /\ Shaped /\ program \in Programs
      /\ sp \in Nat
  BY DEF RET, END, FrameInv, Shaped, Typed
<1>2. /\ n \in 1..n /\ n >= 2 /\ n \in 2..n /\ n - 1 \in 1..n /\ fn = FnAt(n) /\ fp = FpAt(n)
      /\ FnAt(n - 1) \in Functions /\ FpAt(n - 1) \in Nat
  BY <1>0, <1>1, ReturnPlaces
<1>3. fp + Endereco_Retorno(fn) = Back(n)
  BY <1>2 DEF Back
<1>4. CASE END
  <2>1. memory' = memory /\ reg' = reg /\ EndTo(memory'[Back(n)])
    BY <1>3, <1>4 DEF END
  <2>2. PendingSame
    BY <2>1 DEF PendingSame
  <2> QED BY <1>0, <1>1, <2>1, <2>2, EndMaps DEF Act!GiveBack
<1>5. CASE RET
  <2> DEFINE a == memory[fp + Vinculo_Controle(fn)].address + 2
  <2>1. /\ memory' = [memory EXCEPT ![a] = reg] /\ EndTo(memory'[Back(n)])
        /\ reg' = IF fn \in Void THEN reg ELSE memory'[fp' + Valor_Retorno(fn')]
    BY <1>3, <1>5 DEF RET
  <2>2. a \in Addresses /\ Spared(a) /\ a = FpAt(n - 1) + Valor_Retorno(FnAt(n - 1))
    BY <1>0, <1>1, ReturnValueSpared
  <2> DEFINE base == FpAt(n - 1)  val == Valor_Retorno(FnAt(n - 1))
             link == Vinculo_Controle(FnAt(n - 1))  past == Past(n - 1)
  <2>3. /\ val \in Nat /\ base \in Nat /\ val = link + 2 /\ link \in Nat
        /\ FirstLocal(FnAt(n - 1)) = link + 6 /\ val < Size(FnAt(n - 1), 0)
        /\ Size(FnAt(n - 1), 0) \in Nat
    BY <1>1, <1>2, LayoutFacts
  <2>4. a \in 0..sp /\ a < past /\ base <= a /\ a \in Nat
    <3>1. past - 1 <= sp /\ past = base + Size(FnAt(n - 1), 0)
      BY <1>0, <1>1, <1>2, FramesBelowSp DEF Past
    <3>2. a = base + val
      BY <2>2
    <3> DEFINE size == Size(FnAt(n - 1), 0)
    <3>3. past - 1 <= sp /\ past = base + size /\ val < size /\ size \in Nat /\ val \in Nat /\ base \in Nat
      BY <2>3, <3>1
    <3> HIDE DEF a, base, val, past, size
    <3> QED BY <1>1, <3>2, <3>3
  <2>5. PendingSame
    <3> HIDE DEF a
    <3> QED BY <1>1, <2>1, <2>2, <2>4, WriteKeepsPending
  <2>6. ASSUME NEW d \in 1..n, NEW v \in Variables(FnAt(d))
        PROVE  memory'[FpAt(d) + v] = memory[FpAt(d) + v]
    <3>1. FpAt(d) + v \in Addresses
      BY <1>0, <1>1, VariablesSpared
    <3>2. FpAt(d) + v # a
      <4> DEFINE start == FpAt(d)  end == Past(d)
      <4>1. /\ start \in Nat /\ end \in Nat /\ FnAt(d) \in Functions
        BY <1>0, <1>1, ActivationFacts DEF Shaped
      <4>2. v \in Nat /\ v < Size(FnAt(d), 0) /\ Size(FnAt(d), 0) \in Nat
        BY <1>1, <4>1, VariableFacts, LayoutFacts
      <4>3. start + v < end /\ start <= start + v
        <5> DEFINE size == Size(FnAt(d), 0)
        <5>1. end = start + size /\ v < size /\ size \in Nat /\ v \in Nat /\ start \in Nat
          BY <4>1, <4>2 DEF Past
        <5> HIDE DEF start, end, size
        <5> QED BY <5>1
      <4>4. CASE d = n - 1
        <5>1. v < link \/ v >= link + 6
          BY <1>1, <2>3, <4>1, <4>4, VariableFacts
        <5>2. a = base + val /\ start = base
          BY <2>2, <4>4
        <5>3. val = link + 2 /\ link \in Nat /\ base \in Nat /\ v \in Nat
          BY <2>3, <4>2
        <5> HIDE DEF a, base, val, link, start
        <5>4. start + v # a
          BY <5>1, <5>2, <5>3
        <5> QED BY <5>4 DEF start
      <4>5. CASE d # n - 1
        <5>1. end <= base \/ past <= start
          <6>1. d < n - 1 \/ n - 1 < d
            BY <1>2, <4>5
          <6> QED BY <1>0, <1>1, <1>2, <6>1 DEF Shaped, Stacked
        <5>2. a < past /\ base <= a /\ a \in Nat /\ base \in Nat /\ past \in Nat /\ v \in Nat
              /\ start \in Nat /\ end \in Nat
          <6>1. past \in Nat
            BY <1>0, <1>1, <1>2, ActivationFacts DEF Shaped
          <6> QED BY <2>3, <2>4, <4>1, <4>2, <6>1
        <5> HIDE DEF a, base, past, start, end
        <5>3. start + v # a
          BY <4>3, <5>1, <5>2
        <5> QED BY <5>3 DEF start
      <4> QED BY <4>4, <4>5
    <3> HIDE DEF a
    <3> QED BY <1>1, <2>1, <2>2, <3>1, <3>2
  <2>7. ASSUME NEW b \in Globals PROVE memory'[b] = memory[b]
    <3>1. b \in Addresses
      BY <1>1, GlobalsSpared
    <3>2. b # a
      <4> DEFINE size == GlobalSize
      <4>1. size <= base /\ size \in Nat
        BY <1>0, <1>1, <1>2, ProgramFacts DEF Shaped, Stacked
      <4>2. b \in Nat /\ b < size
        BY <4>1 DEF Globals
      <4>3. base <= a /\ base \in Nat /\ a \in Nat
        BY <2>3, <2>4
      <4> HIDE DEF a, base, size
      <4> QED BY <4>1, <4>2, <4>3
    <3> HIDE DEF a
    <3> QED BY <1>1, <2>1, <2>2, <3>1, <3>2
  <2>8. reg' = reg
    <3>1. fn' = FnAt(n - 1) /\ fp' = base
      <4>1. /\ Len(stack') = n - 1 /\ stack'[n - 1] = stack[n - 1]
        <5> DEFINE Activation == [fn : Functions, fp : Nat]
        <5>1. stack \in Seq(Activation)
          BY <1>1 DEF Shaped, Typed
        <5>2. stack' = SubSeq(stack, 1, n - 1)
          BY <1>0, <2>1 DEF EndTo
        <5> HIDE DEF Activation
        <5> QED BY <1>0, <1>2, <5>1, <5>2
      <4> QED BY <4>1 DEF FrameInv, Shaped, Opened, FnAt, FpAt
    <3>2. fp' + Valor_Retorno(fn') = a
      BY <2>2, <3>1
    <3>3. memory'[a] = reg
      <4> HIDE DEF a
      <4> QED BY <1>1, <2>1, <2>2
    <3>4. reg' = IF fn \in Void THEN reg ELSE memory'[fp' + Valor_Retorno(fn')]
      BY <2>1
    <3> HIDE DEF a
    <3> QED BY <3>2, <3>3, <3>4
  <2>9. EndTo(memory'[Back(n)])
    BY <2>1
  <2> QED BY <1>0, <1>1, <2>5, <2>6, <2>7, <2>8, <2>9, EndMaps DEF Act!GiveBack
<1> QED BY <1>4, <1>5

-----------------------------------------------------------------------------
(* Every step of the frames is a step of the activations or changes none.  *)

LEMMA SameText ==
  ASSUME program' = program
  PROVE  UNCHANGED Act!program
<1>1. VarsOf' = VarsOf
  BY SameProgram DEF VarsOf, Variables, FirstLocal
<1>2. ArrayOf' = ArrayOf
  BY SameProgram DEF ArrayOf, FirstLocal
<1>3. Main' = Main /\ Callees' = Callees /\ Params' = Params /\ Globals' = Globals
  BY SameProgram DEF Globals
<1> QED BY <1>1, <1>2, <1>3 DEF Act!program

LEMMA InitMaps ==
  ASSUME NestedInLeaves, InitFrames
  PROVE  Act!AInit
<1>1. FrameInv
  BY FrameInit
<1>2. Len(stack) = 1 /\ fn = Main /\ parametros = 0
  BY DEF InitFrames
<1>3. PendingOf(1) = 0
  BY <1>2 DEF PendingOf
<1>4. PendingAt(1) = <<>>
  BY <1>3 DEF PendingAt
<1>5. /\ Act!Depth = 1
      /\ Act!Running = [fn |-> Main, home |-> fp + FirstLocal(fn),
                        vars |-> VarsAt(1), pending |-> <<>>]
  BY <1>1, <1>2, <1>4, RunningRead
<1>6. DOMAIN VarsAt(1) = VarsOf[Main]
  <2>1. FnAt(1) = Main /\ Main \in Functions
    BY <1>1, <1>2, RunningRead
  <2> QED BY <2>1 DEF VarsAt, VarsOf
<1> QED BY <1>5, <1>6 DEF Act!AInit

LEMMA StepMaps ==
  ASSUME NestedInLeaves, FrameInv, FrameInv', [NextFrames]_framevars
  PROVE  [Act!ANext]_Act!avars
<1>1. CASE Compute
  BY <1>1, ComputeMaps, SameText DEF Act!ANext, Compute, control
<1>2. CASE LOAD
  BY <1>2, LoadMaps, SameText DEF Act!ANext, LOAD, control
<1>3. CASE STORE
  BY <1>3, StoreMaps, SameText DEF Act!ANext, STORE, control
<1>4. CASE LOAD_Element
  BY <1>4, LoadElementMaps, SameText DEF Act!ANext, LOAD_Element, control
<1>5. CASE STORE_Element
  BY <1>5, StoreElementMaps, SameText DEF Act!ANext, STORE_Element, control
<1>6. CASE PARAM(reg)
  BY <1>6, ParamMaps, SameText DEF Act!ANext, PARAM
<1>7. CASE Locals[fn] > 0 /\ PARAM(LocalArray(fn, fp))
  BY <1>7, ParamMaps, SameText DEF Act!ANext, PARAM
<1>8. CASE \E g \in Callees[fn] : CALL(g)
  BY <1>8, CallMaps, SameText DEF Act!ANext, CALL
<1>9. CASE RET \/ END
  BY <1>9, ReturnMaps, SameText DEF Act!ANext, RET, END, EndTo
<1>10. CASE Jump \/ ALLOC \/ UNCHANGED framevars
  <2>1. UNCHANGED <<program, stack, parametros, memory, reg>>
    BY <1>10 DEF Jump, ALLOC, framevars, control
  <2>2. activations' = activations /\ global_words' = global_words
    BY <2>1, Untouched
  <2>3. UNCHANGED Act!program
    BY <2>1, SameText
  <2> QED BY <2>1, <2>2, <2>3 DEF Act!avars
<1> QED
  BY <1>1, <1>2, <1>3, <1>4, <1>5, <1>6, <1>7, <1>8, <1>9, <1>10 DEF NextFrames

\* The code emitted for calls, returns, arguments and variables implements the
\* calls of the language, at any depth and for any frames: an activation's
\* variables, the arguments it has computed and the globals are what it left,
\* an argument is its parameter in order, and a result reaches the caller
\* (memory.c insert_frame and get_fp_relation, assembler.c CALL, RET and END).
THEOREM FramesImplementActivations ==
  ASSUME NestedInLeaves
  PROVE  FramesSpec => CallsAndReturns
<1>1. InitFrames => Act!AInit
  BY InitMaps
<1>2. FrameInv /\ [NextFrames]_framevars => FrameInv'
  BY FrameNext
<1>3. FrameInv /\ FrameInv' /\ [NextFrames]_framevars => [Act!ANext]_Act!avars
  BY StepMaps
<1> QED BY <1>1, <1>2, <1>3, FramesInvariant, PTL DEF FramesSpec, CallsAndReturns, Act!ASpec

====
