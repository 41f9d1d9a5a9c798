----------------------------- MODULE ExprProofs -----------------------------
(***************************************************************************)
(* Proofs about ExprCode for any number of registers: the allocator is a   *)
(* ring, and what is pending on the ring is not overwritten.               *)
(***************************************************************************)
EXTENDS ExprCode, FiniteSetTheorems, TLAPS

-----------------------------------------------------------------------------
(* The allocator. *)

Taken(n) == [var_name |-> "Temporario", last_use |-> n]

\* While there are free registers they are handed out in order.
Filling ==
  /\ total_reg \in 1..MAX_REG
  /\ total_reg_in_use = total_reg - 1
  /\ \A r \in Registers :
       register_list[r] = IF r < total_reg - 1 THEN Taken(r + 1) ELSE FreeRegister

\* Then the oldest one is at some k, and their ages follow it round the ring.
Turning ==
  /\ total_reg \in Nat /\ total_reg > MAX_REG
  /\ total_reg_in_use = MAX_REG
  /\ \E k \in Registers : \A r \in Registers :
       register_list[r] = IF r >= k THEN Taken((total_reg - MAX_REG) + (r - k))
                          ELSE Taken((total_reg - k) + r)

Ring == DOMAIN register_list = Registers /\ (Filling \/ Turning)

LEMMA RingInit == initialize_registers => Ring
BY MaxRegAssumption DEF initialize_registers, Ring, Filling, Registers

\* What a request for a register does to the ring.
LEMMA HandedOut ==
  ASSUME Ring, NEW r \in Registers, check_registers(r)
  PROVE  /\ Ring'
         /\ total_reg \in Nat \ {0} /\ total_reg' = total_reg + 1
         /\ register_list[r] \in {FreeRegister, Taken(total_reg - MAX_REG)}
         /\ register_list'[r] = Taken(total_reg)
         /\ \A q \in Registers \ {r} : register_list'[q] = register_list[q]
<1> USE MaxRegAssumption DEF Registers, Ring
<1>1. CASE Filling
  <2>1. total_reg_in_use # MAX_REG
    BY <1>1 DEF Filling
  <2>2. add_temp_register(register_list, r) /\ total_reg_in_use' = total_reg_in_use + 1
    BY <2>1 DEF check_registers
  <2>3. \A q \in Registers : register_list[q].var_name = "NULL" <=> q >= total_reg - 1
    BY <1>1 DEF Filling, Taken, FreeRegister
  <2>4. r = total_reg - 1
    <3>1. /\ register_list[r].var_name = "NULL"
          /\ \A q \in Registers : register_list[q].var_name = "NULL" => r <= q
      BY <2>2 DEF add_temp_register
    <3>2. total_reg - 1 \in Registers /\ r \in Int /\ total_reg \in Int
      BY <1>1 DEF Filling
    <3>3. r >= total_reg - 1
      BY <2>3, <3>1
    <3>4. r <= total_reg - 1
      <4>1. register_list[total_reg - 1].var_name = "NULL"
        BY <2>3, <3>2
      <4> QED BY <3>1, <3>2, <4>1
    <3> QED BY <3>2, <3>3, <3>4
  <2>5. /\ register_list' = [register_list EXCEPT ![r] = Taken(total_reg)]
        /\ total_reg' = total_reg + 1
    BY <2>2 DEF add_temp_register, Taken
  <2>6. /\ register_list[r] = FreeRegister
        /\ register_list'[r] = Taken(total_reg)
        /\ \A q \in Registers \ {r} : register_list'[q] = register_list[q]
    BY <1>1, <2>4, <2>5 DEF Filling
  <2>7. CASE total_reg < MAX_REG
    <3>1. Filling'
      BY <1>1, <2>2, <2>4, <2>5, <2>6, <2>7 DEF Filling
    <3> QED BY <1>1, <2>5, <2>6, <3>1 DEF Filling
  <2>8. CASE total_reg = MAX_REG
    <3>1. \A q \in Registers : register_list'[q] = Taken(q + 1)
      BY <1>1, <2>4, <2>6, <2>8 DEF Filling
    <3>2. 0 \in Registers
      OBVIOUS
    <3>3. \A q \in Registers :
            register_list'[q] = IF q >= 0 THEN Taken((total_reg' - MAX_REG) + (q - 0))
                                ELSE Taken((total_reg' - 0) + q)
      BY <1>1, <2>5, <2>8, <3>1 DEF Filling
    <3>4. \E m \in Registers : \A q \in Registers :
            register_list'[q] = IF q >= m THEN Taken((total_reg' - MAX_REG) + (q - m))
                                ELSE Taken((total_reg' - m) + q)
      BY <3>2, <3>3
    <3>5. total_reg' \in Nat /\ total_reg' > MAX_REG /\ total_reg_in_use' = MAX_REG
      BY <1>1, <2>2, <2>5, <2>8 DEF Filling
    <3>6. Turning'
      BY ONLY <3>4, <3>5, Zenon DEF Turning
    <3> QED BY <1>1, <2>5, <2>6, <3>6 DEF Filling
  <2> QED BY <1>1, <2>7, <2>8 DEF Filling
<1>2. ASSUME Turning
      PROVE  /\ Ring'
             /\ total_reg \in Nat \ {0} /\ total_reg' = total_reg + 1
             /\ register_list[r] = Taken(total_reg - MAX_REG)
             /\ register_list'[r] = Taken(total_reg)
             /\ \A q \in Registers \ {r} : register_list'[q] = register_list[q]
  <2>1. total_reg_in_use = MAX_REG /\ total_reg \in Nat /\ total_reg > MAX_REG
    BY <1>2 DEF Turning
  <2>0. PICK k \in Registers : \A q \in Registers :
          register_list[q] = IF q >= k THEN Taken((total_reg - MAX_REG) + (q - k))
                             ELSE Taken((total_reg - k) + q)
    BY <1>2 DEF Turning
  <2>2. PICK old \in Registers :
          /\ discard_register(old)
          /\ add_temp_register([register_list EXCEPT ![old] = FreeRegister], r)
          /\ total_reg_in_use' = (total_reg_in_use - 1) + 1
    BY <2>1 DEF check_registers
  <2>3. \A q \in Registers : /\ register_list[q].var_name = "Temporario"
                             /\ register_list[q].last_use =
                                  IF q >= k THEN (total_reg - MAX_REG) + (q - k)
                                  ELSE (total_reg - k) + q
    BY <2>0 DEF Taken
  <2>4. old = k
    <3>1. register_list[old].last_use <= register_list[k].last_use
      BY <2>1, <2>2, <2>3 DEF discard_register
    <3>2. register_list[k].last_use = total_reg - MAX_REG
      BY <2>1, <2>3
    <3> QED BY <2>1, <2>3, <3>1, <3>2
  <2> DEFINE list == [register_list EXCEPT ![old] = FreeRegister]
  <2>5. \A q \in Registers : list[q].var_name = "NULL" <=> q = k
    BY <2>3, <2>4 DEF FreeRegister
  <2>6. r = k
    BY <2>2, <2>5 DEF add_temp_register
  <2>7. /\ register_list' = [list EXCEPT ![r] = Taken(total_reg)]
        /\ total_reg' = total_reg + 1
    BY <2>2 DEF add_temp_register, Taken
  <2>8. \A q \in Registers :
          register_list'[q] = IF q = r THEN Taken(total_reg) ELSE register_list[q]
    BY <2>4, <2>6, <2>7
  <2>9. register_list[r] = Taken(total_reg - MAX_REG)
    BY <2>0, <2>1, <2>6
  <2>10. PICK n \in Registers : n = IF k + 1 = MAX_REG THEN 0 ELSE k + 1
    OBVIOUS
  <2>11. ASSUME NEW q \in Registers
         PROVE  register_list'[q] = IF q >= n THEN Taken((total_reg' - MAX_REG) + (q - n))
                                    ELSE Taken((total_reg' - n) + q)
    <3>1. CASE q = k
      <4>1. register_list'[q] = Taken(total_reg)
        BY <2>6, <2>8, <3>1
      <4>2. CASE k + 1 = MAX_REG
        BY <2>1, <2>7, <2>10, <3>1, <4>1, <4>2
      <4>3. CASE k + 1 # MAX_REG
        BY <2>1, <2>7, <2>10, <3>1, <4>1, <4>3
      <4> QED BY <4>2, <4>3
    <3>2. CASE q # k
      <4>1. register_list'[q] = IF q >= k THEN Taken((total_reg - MAX_REG) + (q - k))
                                ELSE Taken((total_reg - k) + q)
        BY <2>0, <2>6, <2>8, <3>2
      <4>2. CASE k + 1 = MAX_REG
        BY <2>1, <2>7, <2>10, <3>2, <4>1, <4>2
      <4>3. CASE k + 1 # MAX_REG
        BY <2>1, <2>7, <2>10, <3>2, <4>1, <4>3
      <4> QED BY <4>2, <4>3
    <3> QED BY <3>1, <3>2
  <2>12. Turning'
    <3>1. \E m \in Registers : \A q \in Registers :
            register_list'[q] = IF q >= m THEN Taken((total_reg' - MAX_REG) + (q - m))
                                ELSE Taken((total_reg' - m) + q)
      BY <2>11
    <3>2. total_reg' \in Nat /\ total_reg' > MAX_REG /\ total_reg_in_use' = MAX_REG
      BY <2>1, <2>2, <2>7
    <3> QED BY ONLY <3>1, <3>2, Zenon DEF Turning
  <2>13. DOMAIN register_list' = Registers
    BY <2>7
  <2> QED BY <2>1, <2>7, <2>8, <2>9, <2>12, <2>13
<1> QED BY <1>1, <1>2

\* The count is right whatever the state of the ring.
LEMMA RingCounted == Ring => InUseCounted
<1> SUFFICES ASSUME Ring PROVE InUseCounted
  OBVIOUS
<1> USE MaxRegAssumption
<1> DEFINE S == {r \in Registers : register_list[r].var_name # "NULL"}
<1>1. CASE Filling
  <2>0. total_reg \in Int /\ total_reg >= 1 /\ total_reg <= MAX_REG
    BY <1>1 DEF Filling
  <2>4. ASSUME NEW r \in Registers
        PROVE  register_list[r].var_name = IF r < total_reg - 1 THEN "Temporario" ELSE "NULL"
    <3>1. register_list[r] = IF r < total_reg - 1 THEN Taken(r + 1) ELSE FreeRegister
      BY <1>1 DEF Filling
    <3>2. CASE r < total_reg - 1
      BY <3>1, <3>2 DEF Taken
    <3>3. CASE ~ (r < total_reg - 1)
      BY <3>1, <3>3 DEF FreeRegister
    <3> QED BY <3>2, <3>3
  <2>1. \A r \in Registers : register_list[r].var_name # "NULL" <=> r < total_reg - 1
    BY <2>4
  <2>3. S = 0..(total_reg - 2)
    BY <2>0, <2>1 DEF Registers
  <2>2. Cardinality(S) = total_reg - 1
    <3>1. Cardinality(0..(total_reg - 2)) = total_reg - 1
      <4>1. CASE total_reg = 1
        BY <2>0, <4>1, FS_Interval
      <4>2. CASE total_reg > 1
        BY <2>0, <4>2, FS_Interval
      <4> QED BY <2>0, <4>1, <4>2
    <3> QED BY <2>3, <3>1
  <2> QED BY <1>1, <2>2 DEF Filling, InUseCounted
<1>2. CASE Turning
  <2>3. ASSUME NEW r \in Registers PROVE register_list[r].var_name = "Temporario"
    <3>1. \E n : register_list[r] = Taken(n)
      BY <1>2, Zenon DEF Turning
    <3> QED BY <3>1 DEF Taken
  <2>0. \A r \in Registers : register_list[r].var_name # "NULL"
    BY <2>3
  <2>1. S = 0..(MAX_REG - 1)
    BY <2>0 DEF Registers
  <2>2. Cardinality(S) = MAX_REG
    <3>1. Cardinality(0..(MAX_REG - 1)) = MAX_REG
      BY FS_Interval
    <3> QED BY <2>1, <3>1
  <2> QED BY <1>2, <2>2 DEF Turning, InUseCounted
<1> QED BY <1>1, <1>2 DEF Ring

\* Every step of the code generator takes one register or none.
LEMMA RegisterStep ==
  ASSUME Ring, [NextExpr]_exprvars
  PROVE  UNCHANGED regvars \/ \E r \in Registers : check_registers(r)
BY DEF NextExpr, exprvars, Leaf, ZeroConstant, Element, Operation, Target, TargetElement,
       Assign, Argument, ArrayArgument, Call, EndStatement, Produce

LEMMA RingNext == Ring /\ [NextExpr]_exprvars => Ring'
<1> SUFFICES ASSUME Ring, [NextExpr]_exprvars PROVE Ring'
  OBVIOUS
<1>1. CASE UNCHANGED regvars
  BY <1>1 DEF regvars, Ring, Filling, Turning
<1>2. ASSUME NEW r \in Registers, check_registers(r) PROVE Ring'
  BY <1>2, HandedOut
<1> QED BY <1>1, <1>2, RegisterStep

\* The allocator's count is exact (reg.c 95-192).
THEOREM CountExact == ExprSpec => []InUseCounted
<1>1. InitExpr => Ring
  BY RingInit DEF InitExpr
<1>2. ExprSpec => []Ring
  BY <1>1, RingNext, PTL DEF ExprSpec
<1> QED BY <1>2, RingCounted, PTL

\* A register handed out comes back only after all the others (reg.c 95-148).
THEOREM ReuseIsOldest == ExprSpec => OldestReused
<1> DEFINE Step == \A r \in Registers :
                     register_list'[r] # register_list[r] =>
                       \/ register_list[r].var_name = "NULL"
                       \/ register_list[r].last_use = total_reg - MAX_REG
<1>1. InitExpr => Ring
  BY RingInit DEF InitExpr
<1>2. ASSUME Ring, [NextExpr]_exprvars PROVE Step
  <2>1. CASE UNCHANGED regvars
    BY <2>1 DEF regvars
  <2>2. ASSUME NEW r \in Registers, check_registers(r) PROVE Step
    <3>1. /\ register_list[r] \in {FreeRegister, Taken(total_reg - MAX_REG)}
          /\ \A q \in Registers \ {r} : register_list'[q] = register_list[q]
      BY <1>2, <2>2, HandedOut
    <3> QED BY <3>1 DEF FreeRegister, Taken
  <2> QED BY <1>2, <2>1, <2>2, RegisterStep
<1>3. Ring /\ [NextExpr]_exprvars => [Step]_exprvars
  BY <1>2
<1> QED BY <1>1, <1>3, RingNext, PTL DEF ExprSpec, OldestReused

-----------------------------------------------------------------------------
(* The pending operands. *)

Operand == [reg : Registers \cup {Zero}, stamp : Nat, kind : Kinds, called : BOOLEAN]

\* An operand recent enough is still the latest owner of its register.
Owned(o) ==
  /\ o.reg # Zero => /\ o.stamp \in 1..(total_reg - 1)
                     /\ Recent(o) => register_list[o.reg] = Taken(o.stamp)
  /\ o.reg = Zero => o.stamp = 0 /\ o.kind # "target"
  /\ Recent(o) /\ ~ o.called => contents[o.reg] = o.stamp

Stack ==
  /\ operands \in Seq(Operand)
  /\ \A n \in 1..Len(operands) : Owned(operands[n])
  /\ \A m, n \in 1..Len(operands) :
       m < n /\ operands[m].reg # Zero /\ operands[n].reg # Zero
         => operands[m].stamp < operands[n].stamp

Cells ==
  /\ DOMAIN contents = Registers \cup {Zero}
  /\ contents[Zero] = 0

ExprInv == Ring /\ Stack /\ Cells

LEMMA TotalTyped == Ring => total_reg \in Nat /\ total_reg >= 1
BY MaxRegAssumption DEF Ring, Filling, Turning

LEMMA BelowTyped ==
  ASSUME NEW s \in Seq(Operand), NEW n \in 0..Len(s)
  PROVE  /\ SubSeq(s, 1, Len(s) - n) \in Seq(Operand)
         /\ Len(SubSeq(s, 1, Len(s) - n)) = Len(s) - n
         /\ \A m \in 1..(Len(s) - n) : SubSeq(s, 1, Len(s) - n)[m] = s[m]
OBVIOUS

\* What a register handed out to somebody else leaves as it was.
LEMMA OwnedKept ==
  ASSUME Ring, NEW o \in Operand, Owned(o), NEW r \in Registers, check_registers(r),
         contents'[Zero] = 0,
         o.reg # r /\ o.reg # Zero /\ ~ o.called => contents'[o.reg] = contents[o.reg]
  PROVE  Owned(o)'
<1>1. /\ total_reg \in Nat /\ total_reg' = total_reg + 1
      /\ register_list[r] \in {FreeRegister, Taken(total_reg - MAX_REG)}
      /\ \A q \in Registers \ {r} : register_list'[q] = register_list[q]
  BY HandedOut
<1>2. CASE o.reg = Zero
  BY <1>2 DEF Owned
<1>3. CASE o.reg # Zero
  <2>1. /\ o.reg \in Registers /\ o.stamp \in Nat
        /\ o.stamp \in 1..(total_reg - 1) /\ o.stamp \in 1..(total_reg' - 1)
    BY <1>1, <1>3 DEF Owned, Operand
  <2>2. ASSUME Recent(o)'
        PROVE  /\ register_list'[o.reg] = Taken(o.stamp)
               /\ ~ o.called => contents'[o.reg] = o.stamp
    <3>1. (total_reg + 1) - o.stamp <= MAX_REG
      BY <1>1, <1>3, <2>2 DEF Recent
    <3>2. Recent(o)
      BY <1>1, <2>1, <3>1, MaxRegAssumption DEF Recent
    <3>3. register_list[o.reg] = Taken(o.stamp)
      BY <1>3, <3>2 DEF Owned
    <3>4. o.reg # r
      <4>1. Taken(o.stamp) # FreeRegister
        BY DEF Taken, FreeRegister
      <4>2. Taken(o.stamp) # Taken(total_reg - MAX_REG)
        <5>1. o.stamp # total_reg - MAX_REG
          BY <1>1, <2>1, <3>1, MaxRegAssumption
        <5> QED BY <5>1 DEF Taken
      <4> QED BY <1>1, <3>3, <4>1, <4>2
    <3> QED BY <1>1, <1>3, <2>1, <3>2, <3>3, <3>4 DEF Owned
  <2> QED BY <1>3, <2>1, <2>2 DEF Owned
<1> QED BY <1>2, <1>3

\* A new operand on top of what remains of the stack.
LEMMA Pushed ==
  ASSUME Ring, Stack, Cells', NEW rest \in Seq(Operand), Len(rest) <= Len(operands),
         NEW r \in Registers, check_registers(r), NEW k \in Kinds,
         \A n \in 1..Len(rest) :
           /\ rest[n].reg = operands[n].reg /\ rest[n].stamp = operands[n].stamp
           /\ rest[n].kind # "target" \/ rest[n].kind = operands[n].kind
           /\ ~ rest[n].called => /\ ~ operands[n].called
                                  /\ rest[n].reg # r => contents'[rest[n].reg] = contents[rest[n].reg],
         operands' = Append(rest, Pending(r, total_reg, k)),
         contents'[r] = total_reg
  PROVE  Stack'
<1>1. /\ total_reg \in Nat /\ total_reg >= 1 /\ total_reg' = total_reg + 1
      /\ register_list'[r] = Taken(total_reg)
  BY HandedOut, TotalTyped
<1> DEFINE new == Pending(r, total_reg, k)
<1>2. new \in Operand /\ r # Zero
  BY <1>1, ZeroAssumption DEF Operand, Pending
<1>3. /\ operands' \in Seq(Operand) /\ Len(operands') = Len(rest) + 1
      /\ \A n \in 1..Len(rest) : operands'[n] = rest[n]
      /\ operands'[Len(rest) + 1] = new
  BY <1>2
<1>4. ASSUME NEW n \in 1..Len(rest) PROVE Owned(rest[n])'
  <2>1. PICK o \in Operand : o = rest[n]
    OBVIOUS
  <2>2. n \in 1..Len(operands) /\ Owned(operands[n])
    BY DEF Stack
  <2>3. Owned(o)
    BY <2>1, <2>2 DEF Owned, Recent
  <2>4. Owned(o)'
    BY <2>1, <2>3, OwnedKept DEF Cells
  <2>5. rest[n] = o /\ UNCHANGED rest[n]
    BY <2>1
  <2> QED BY <2>4, <2>5
<1>5. /\ new.reg = r /\ new.stamp = total_reg /\ new.kind = k /\ new.called = FALSE
  BY DEF Pending
<1>6. Owned(operands[Len(rest) + 1])'
  BY <1>1, <1>2, <1>3, <1>5 DEF Owned
<1>7. \A n \in 1..Len(operands') : Owned(operands[n])'
  BY <1>3, <1>4, <1>6
<1>8. ASSUME NEW m \in 1..Len(operands'), NEW n \in 1..Len(operands'), m < n,
             operands'[m].reg # Zero, operands'[n].reg # Zero
      PROVE  operands'[m].stamp < operands'[n].stamp
  <2>1. m \in 1..Len(rest) /\ m \in 1..Len(operands) /\ operands'[m] = rest[m]
        /\ operands[m].reg # Zero /\ operands[m].stamp = rest[m].stamp
    BY <1>3, <1>8
  <2>2. CASE n = Len(rest) + 1
    <3>1. operands[m].stamp \in 1..(total_reg - 1)
      BY <2>1 DEF Stack, Owned
    <3> QED BY <1>1, <1>3, <1>5, <2>1, <2>2, <3>1
  <2>3. CASE n \in 1..Len(rest)
    <3>1. /\ n \in 1..Len(operands) /\ operands'[n] = rest[n]
          /\ operands[n].reg # Zero /\ operands[n].stamp = rest[n].stamp
      BY <1>3, <1>8, <2>3
    <3> QED BY <1>8, <2>1, <3>1 DEF Stack
  <2> QED BY <1>3, <2>2, <2>3
<1> QED BY <1>3, <1>7, <1>8 DEF Stack

LEMMA ProduceKeeps ==
  ASSUME ExprInv, NEW rest \in Seq(Operand), Len(rest) <= Len(operands), NEW k \in Kinds,
         \A n \in 1..Len(rest) :
           /\ rest[n].reg = operands[n].reg /\ rest[n].stamp = operands[n].stamp
           /\ rest[n].kind # "target" \/ rest[n].kind = operands[n].kind
           /\ rest[n].called = operands[n].called,
         Produce(rest, k)
  PROVE  ExprInv'
<1>1. PICK r \in Registers :
        /\ check_registers(r)
        /\ operands' = Append(rest, Pending(r, total_reg, k))
        /\ contents' = [contents EXCEPT ![r] = total_reg]
  BY DEF Produce
<1>2. Ring'
  BY <1>1, HandedOut DEF ExprInv
<1>3. Cells'
  BY <1>1, ZeroAssumption DEF ExprInv, Cells
<1>4. contents'[r] = total_reg /\ \A q \in Registers : q # r => contents'[q] = contents[q]
  BY <1>1 DEF ExprInv, Cells
<1>5. ASSUME NEW n \in 1..Len(rest), ~ rest[n].called
      PROVE  /\ ~ operands[n].called
             /\ rest[n].reg # r => contents'[rest[n].reg] = contents[rest[n].reg]
  <2>1. rest[n].reg \in Registers \cup {Zero}
    <3>1. rest[n] \in Operand
      OBVIOUS
    <3> QED BY <3>1 DEF Operand
  <2> QED BY <1>3, <1>4, <1>5, <2>1 DEF ExprInv, Cells
<1>6. Stack'
  BY <1>1, <1>3, <1>4, <1>5, Pushed DEF ExprInv
<1> QED BY <1>2, <1>3, <1>6 DEF ExprInv

\* What is left on the stack when operands are used is still in order.
LEMMA StackBelow ==
  ASSUME Stack, NEW n \in 0..Len(operands), operands' = Below(n),
         UNCHANGED <<regvars, contents>>
  PROVE  Stack'
<1>1. /\ operands' \in Seq(Operand) /\ Len(operands') = Len(operands) - n
      /\ \A m \in 1..Len(operands') : operands'[m] = operands[m] /\ m \in 1..Len(operands)
  BY BelowTyped DEF Stack, Below
<1>2. \A m \in 1..Len(operands') : Owned(operands[m])'
  BY <1>1 DEF Stack, Owned, Recent, regvars
<1> QED BY <1>1, <1>2 DEF Stack

LEMMA ExprInit == InitExpr => ExprInv
<1> SUFFICES ASSUME InitExpr PROVE ExprInv
  OBVIOUS
<1>1. Ring
  BY RingInit DEF InitExpr
<1>2. operands = <<>> /\ Len(operands) = 0 /\ operands \in Seq(Operand)
  BY DEF InitExpr
<1>3. Stack
  BY <1>2 DEF Stack
<1>4. Cells
  BY DEF InitExpr, Cells
<1> QED BY <1>1, <1>3, <1>4 DEF ExprInv

LEMMA AssignKeeps == ExprInv /\ Assign => ExprInv'
<1> SUFFICES ASSUME ExprInv, Assign PROVE ExprInv'
  OBVIOUS
<1>0. PICK len \in Nat : len = Len(operands)
  BY DEF ExprInv, Stack
<1> DEFINE t == operands[len - 1]
           v == operands[len]
<1>1. PICK left \in {2, 3} :
        /\ left <= len
        /\ operands' = Append(Below(left), v)
        /\ t.kind = "target" /\ len = Len(operands) /\ len >= 2
        /\ contents' = [contents EXCEPT ![t.reg] = contents[v.reg]]
        /\ UNCHANGED regvars
  BY <1>0 DEF Assign, Holds, Top
<1>2. /\ Below(left) \in Seq(Operand) /\ Len(Below(left)) = len - left
      /\ \A n \in 1..(len - left) : Below(left)[n] = operands[n]
  BY <1>1, BelowTyped DEF ExprInv, Stack, Below
<1>3. t \in Operand /\ v \in Operand /\ Owned(t) /\ Owned(v)
  BY <1>1 DEF ExprInv, Stack
<1>4. t.reg # Zero /\ t.reg \in Registers
  BY <1>1, <1>3 DEF Owned, Operand
<1>5. /\ operands' \in Seq(Operand) /\ Len(operands') = (len - left) + 1
      /\ operands'[(len - left) + 1] = v
      /\ \A n \in 1..(len - left) : operands'[n] = operands[n]
  BY <1>1, <1>2, <1>3
<1>6. Ring'
  BY <1>1 DEF ExprInv, regvars, Ring, Filling, Turning
<1>7. Cells'
  BY <1>1, <1>4 DEF ExprInv, Cells
<1>8. ASSUME NEW n \in 1..(len - left) PROVE Owned(operands[n])'
  <2>1. PICK o \in Operand : o = operands[n]
    BY <1>1 DEF ExprInv, Stack
  <2>2. Owned(o) /\ operands'[n] = o
    BY <1>1, <1>5, <2>1 DEF ExprInv, Stack
  <2>3. Recent(o)' <=> Recent(o)
    BY <1>1 DEF Recent, regvars
  <2>4. ASSUME Recent(o), ~ o.called, o.reg # Zero PROVE contents'[o.reg] = o.stamp
    <3>1. o.stamp < t.stamp
      BY <1>1, <1>4, <2>1, <2>4 DEF ExprInv, Stack
    <3>2. Recent(t)
      BY <1>3, <2>4, <3>1, TotalTyped, MaxRegAssumption DEF Recent, ExprInv, Operand
    <3>3. register_list[o.reg] = Taken(o.stamp) /\ register_list[t.reg] = Taken(t.stamp)
      BY <1>3, <1>4, <2>2, <2>4, <3>2 DEF Owned
    <3>4. Taken(o.stamp).last_use = o.stamp /\ Taken(t.stamp).last_use = t.stamp
      BY DEF Taken
    <3>5. o.reg # t.reg
      BY <1>3, <3>1, <3>3, <3>4 DEF Operand
    <3>6. contents[o.reg] = o.stamp
      BY <2>2, <2>4 DEF Owned
    <3> QED BY <1>1, <3>5, <3>6, <2>1 DEF ExprInv, Cells, Operand
  <2>5. Owned(o)'
    BY <1>1, <1>7, <2>2, <2>3, <2>4 DEF Owned, regvars, Cells
  <2> QED BY <2>2, <2>5
<1>9. Owned(operands[(len - left) + 1])'
  <2>1. PICK o \in Operand : o = v
    BY <1>3
  <2>2. Recent(o)' <=> Recent(o)
    BY <1>1 DEF Recent, regvars
  <2>3. Recent(o) /\ ~ o.called => contents'[o.reg] = o.stamp
    BY <1>1, <1>3, <2>1 DEF Owned, ExprInv, Cells, Operand
  <2>4. Owned(o)'
    BY <1>1, <1>3, <2>1, <2>2, <2>3 DEF Owned, regvars
  <2> QED BY <1>5, <2>1, <2>4
<1>10. ASSUME NEW m \in 1..Len(operands'), NEW n \in 1..Len(operands'), m < n,
              operands'[m].reg # Zero, operands'[n].reg # Zero
       PROVE  operands'[m].stamp < operands'[n].stamp
  <2>0. \A a, b \in 1..len : a < b /\ operands[a].reg # Zero /\ operands[b].reg # Zero
           => operands[a].stamp < operands[b].stamp
    BY <1>0 DEF ExprInv, Stack
  <2>1. m \in 1..len /\ operands'[m] = operands[m] /\ m < len /\ operands[m].reg # Zero
    <3>1. m \in 1..(len - left)
      BY <1>0, <1>1, <1>5, <1>10
    <3> QED BY <1>0, <1>1, <1>5, <1>10, <3>1
  <2>2. CASE n = (len - left) + 1
    <3>1. operands'[n] = operands[len] /\ len \in 1..len /\ operands[len].reg # Zero
      BY <1>1, <1>5, <1>10, <2>2
    <3> QED BY <2>0, <2>1, <3>1
  <2>3. CASE n # (len - left) + 1
    <3>1. n \in 1..(len - left)
      BY <1>1, <1>5, <2>3
    <3>2. n \in 1..len /\ operands'[n] = operands[n] /\ operands[n].reg # Zero
      BY <1>1, <1>5, <1>10, <3>1
    <3> QED BY <1>10, <2>0, <2>1, <3>2
  <2> QED BY <2>2, <2>3
<1>11. Stack'
  <2>1. \A n \in 1..Len(operands') : Owned(operands[n])'
    BY <1>1, <1>5, <1>8, <1>9
  <2> QED BY <1>5, <1>10, <2>1 DEF Stack
<1> QED BY <1>6, <1>7, <1>11 DEF ExprInv

LEMMA FunctionIsSequence ==
  ASSUME NEW S, NEW len \in Nat, NEW f \in [1..len -> S]
  PROVE  f \in Seq(S) /\ Len(f) = len
OBVIOUS

\* A call leaves what it did not clobber, and marks what was pending.
LEMMA CallKeeps ==
  ASSUME ExprInv, NEW clobbered \in SUBSET Registers, Call(clobbered)
  PROVE  ExprInv'
<1> DEFINE rest == [n \in DOMAIN operands |-> [operands[n] EXCEPT !.called = TRUE]]
<1>1. PICK r \in Registers :
        /\ check_registers(r)
        /\ operands' = Append(rest, Pending(r, total_reg, "value"))
        /\ contents' = [q \in Registers \cup {Zero} |->
                          IF q = r THEN total_reg
                          ELSE IF q \in clobbered THEN -1 ELSE contents[q]]
  BY DEF Call
<1>2. PICK len \in Nat : len = Len(operands) /\ DOMAIN operands = 1..len
  BY DEF ExprInv, Stack
<1>3. \A n \in 1..len : operands[n] \in Operand
  BY <1>2 DEF ExprInv, Stack
<1>4. \A n \in 1..len : /\ rest[n] \in Operand
                        /\ rest[n].reg = operands[n].reg /\ rest[n].stamp = operands[n].stamp
                        /\ rest[n].kind = operands[n].kind /\ rest[n].called
  BY <1>2, <1>3 DEF Operand
<1>5. rest = [n \in 1..len |-> rest[n]]
  BY <1>2
<1>6. rest \in Seq(Operand) /\ Len(rest) = len
  <2>1. rest \in [1..len -> Operand]
    BY <1>2, <1>4
  <2> HIDE DEF rest
  <2> QED BY <2>1, FunctionIsSequence
<1>7. Ring'
  BY <1>1, HandedOut DEF ExprInv
<1>8. Cells' /\ contents'[r] = total_reg
  BY <1>1, ZeroAssumption DEF ExprInv, Cells
<1> HIDE DEF rest
<1>9. Stack'
  BY <1>1, <1>2, <1>4, <1>6, <1>8, Pushed DEF ExprInv, Kinds
<1> QED BY <1>7, <1>8, <1>9 DEF ExprInv

\* $zero is never handed out, and its value never changes.
LEMMA ZeroKeeps == ExprInv /\ ZeroConstant => ExprInv'
<1> SUFFICES ASSUME ExprInv, ZeroConstant PROVE ExprInv'
  OBVIOUS
<1>1. PICK len \in Nat : len = Len(operands)
  BY DEF ExprInv, Stack
<1> DEFINE new == Pending(Zero, 0, "value")
<1>2. new \in Operand /\ new.reg = Zero /\ new.stamp = 0 /\ new.kind = "value"
  BY DEF Pending, Operand, Kinds
<1>3. /\ operands' \in Seq(Operand) /\ Len(operands') = len + 1
      /\ operands'[len + 1] = new
      /\ \A n \in 1..len : operands'[n] = operands[n]
  BY <1>1, <1>2 DEF ZeroConstant, ExprInv, Stack
<1>4. UNCHANGED regvars /\ UNCHANGED contents
  BY DEF ZeroConstant
<1>5. Ring'
  BY <1>4 DEF ExprInv, regvars, Ring, Filling, Turning
<1>6. Cells'
  BY <1>4 DEF ExprInv, Cells
<1>7. ASSUME NEW n \in 1..(len + 1) PROVE Owned(operands[n])'
  <2>1. CASE n \in 1..len
    <3>1. Owned(operands[n]) /\ operands'[n] = operands[n]
      BY <1>1, <1>3, <2>1 DEF ExprInv, Stack
    <3> QED BY <1>4, <3>1 DEF Owned, Recent, regvars
  <2>2. CASE n = len + 1
    <3>1. operands'[n] = new
      BY <1>3, <2>2
    <3> QED BY <1>2, <1>6, <3>1 DEF Owned, Cells
  <2> QED BY <2>1, <2>2
<1>8. ASSUME NEW m \in 1..(len + 1), NEW n \in 1..(len + 1), m < n,
             operands'[m].reg # Zero, operands'[n].reg # Zero
      PROVE  operands'[m].stamp < operands'[n].stamp
  <2>1. m \in 1..len /\ n \in 1..len
    BY <1>2, <1>3, <1>8
  <2> QED BY <1>1, <1>3, <1>8, <2>1 DEF ExprInv, Stack
<1>9. Stack'
  BY <1>3, <1>7, <1>8 DEF Stack
<1> QED BY <1>5, <1>6, <1>9 DEF ExprInv

\* The address of an array argument takes a register and nobody waits for it.
LEMMA ArrayArgumentKeeps == ExprInv /\ ArrayArgument => ExprInv'
<1> SUFFICES ASSUME ExprInv, ArrayArgument PROVE ExprInv'
  OBVIOUS
<1>1. PICK r \in Registers :
        /\ check_registers(r)
        /\ contents' = [contents EXCEPT ![r] = total_reg]
        /\ operands' = operands
  BY DEF ArrayArgument
<1>2. Ring'
  BY <1>1, HandedOut DEF ExprInv
<1>3. Cells'
  BY <1>1, ZeroAssumption DEF ExprInv, Cells
<1>4. ASSUME NEW n \in 1..Len(operands) PROVE Owned(operands[n])'
  <2>1. PICK o \in Operand : o = operands[n]
    BY DEF ExprInv, Stack
  <2>2. Owned(o)
    BY <2>1 DEF ExprInv, Stack
  <2>3. o.reg # r /\ o.reg # Zero => contents'[o.reg] = contents[o.reg]
    BY <1>1 DEF ExprInv, Cells, Operand
  <2>4. Owned(o)'
    BY <1>1, <1>3, <2>2, <2>3, OwnedKept DEF Cells, ExprInv
  <2>5. operands'[n] = o
    BY <1>1, <2>1
  <2> QED BY <2>4, <2>5
<1>5. Stack'
  BY <1>1, <1>4 DEF ExprInv, Stack
<1> QED BY <1>2, <1>3, <1>5 DEF ExprInv

-----------------------------------------------------------------------------
LEMMA SameOperands ==
  ASSUME ExprInv, NEW n \in 0..Len(operands), NEW k \in Kinds, Produce(Below(n), k)
  PROVE  ExprInv'
<1>1. /\ Below(n) \in Seq(Operand) /\ Len(Below(n)) <= Len(operands)
      /\ \A m \in 1..Len(Below(n)) : Below(n)[m] = operands[m]
  BY BelowTyped DEF ExprInv, Stack, Below
<1> QED BY <1>1, ProduceKeeps

LEMMA TargetElementKeeps == ExprInv /\ TargetElement => ExprInv'
<1> SUFFICES ASSUME ExprInv, TargetElement PROVE ExprInv'
  OBVIOUS
<1>1. PICK len \in Nat : len = Len(operands) /\ len >= 1
  BY DEF ExprInv, Stack, TargetElement, Holds
<1> DEFINE new == [operands[len] EXCEPT !.kind = "index"]
           rest == Append(Below(1), new)
<1>2. operands[len] \in Operand
  BY <1>1 DEF ExprInv, Stack
<1>3. /\ new \in Operand /\ new.kind = "index" /\ new.reg = operands[len].reg
      /\ new.stamp = operands[len].stamp /\ new.called = operands[len].called
  BY <1>2 DEF Operand, Kinds
<1>4. /\ Below(1) \in Seq(Operand) /\ Len(Below(1)) = len - 1
      /\ \A m \in 1..(len - 1) : Below(1)[m] = operands[m]
  BY <1>1, BelowTyped DEF ExprInv, Stack, Below
<1>5. /\ rest \in Seq(Operand) /\ Len(rest) = len /\ rest[len] = new
      /\ \A m \in 1..(len - 1) : rest[m] = operands[m]
  BY <1>1, <1>3, <1>4
<1>6. Produce(rest, "target")
  BY <1>1 DEF TargetElement, Top
<1> HIDE DEF rest, new
<1>7. \A m \in 1..Len(rest) :
        /\ rest[m].reg = operands[m].reg /\ rest[m].stamp = operands[m].stamp
        /\ rest[m].kind # "target" \/ rest[m].kind = operands[m].kind
        /\ rest[m].called = operands[m].called
  <2> SUFFICES ASSUME NEW m \in 1..Len(rest)
               PROVE  /\ rest[m].reg = operands[m].reg /\ rest[m].stamp = operands[m].stamp
                      /\ rest[m].kind # "target" \/ rest[m].kind = operands[m].kind
                      /\ rest[m].called = operands[m].called
    OBVIOUS
  <2>1. CASE m = len
    BY <1>3, <1>5, <2>1
  <2>2. CASE m \in 1..(len - 1)
    BY <1>5, <2>2
  <2> QED BY <1>1, <1>5, <2>1, <2>2
<1> QED BY <1>1, <1>5, <1>6, <1>7, ProduceKeeps DEF Kinds

LEMMA ExprNext == ExprInv /\ [NextExpr]_exprvars => ExprInv'
<1> SUFFICES ASSUME ExprInv, [NextExpr]_exprvars PROVE ExprInv'
  OBVIOUS
<1>1. PICK len \in Nat : len = Len(operands) /\ operands \in Seq(Operand)
  BY DEF ExprInv, Stack
<1>2. ASSUME NEW n \in {1, 2}, len >= n, Produce(Below(n), "value") PROVE ExprInv'
  BY <1>1, <1>2, SameOperands DEF Kinds
<1>3. CASE Leaf \/ Target
  <2>1. \A k \in Kinds : Produce(operands, k) => ExprInv'
    BY <1>1, ProduceKeeps
  <2> QED BY <1>3, <2>1 DEF Leaf, Target, Kinds
<1>4. CASE ZeroConstant
  BY <1>4, ZeroKeeps
<1>5. CASE Element
  <2>1. len >= 1 /\ Produce(Below(1), "value")
    BY <1>1, <1>5 DEF Element, Holds
  <2> QED BY <1>2, <2>1
<1>6. CASE Operation
  <2>1. len >= 2 /\ Produce(Below(2), "value")
    BY <1>1, <1>6 DEF Operation, Holds
  <2> QED BY <1>2, <2>1
<1>7. CASE TargetElement
  BY <1>7, TargetElementKeeps
<1>8. CASE Assign
  BY <1>8, AssignKeeps
<1>9. CASE Argument
  <2>1. /\ len >= 1 /\ operands' = Below(1)
        /\ UNCHANGED regvars /\ UNCHANGED contents
    BY <1>1, <1>9 DEF Argument, Holds
  <2>2. Stack'
    BY <1>1, <2>1, StackBelow DEF ExprInv
  <2>3. Ring' /\ Cells'
    BY <2>1 DEF ExprInv, regvars, Ring, Filling, Turning, Cells
  <2> QED BY <2>2, <2>3 DEF ExprInv
<1>10. CASE ArrayArgument
  BY <1>10, ArrayArgumentKeeps
<1>11. ASSUME NEW clobbered \in SUBSET Registers, Call(clobbered) PROVE ExprInv'
  BY <1>11, CallKeeps
<1>12. CASE EndStatement
  <2>1. operands' = <<>> /\ UNCHANGED regvars /\ UNCHANGED contents
    BY <1>12 DEF EndStatement
  <2>2. operands' \in Seq(Operand) /\ Len(operands') = 0
    BY <2>1
  <2>3. Stack'
    BY <2>2 DEF Stack
  <2>4. Ring' /\ Cells'
    BY <2>1 DEF ExprInv, regvars, Ring, Filling, Turning, Cells
  <2> QED BY <2>3, <2>4 DEF ExprInv
<1>13. CASE UNCHANGED exprvars
  <2>1. operands' = operands /\ UNCHANGED regvars /\ UNCHANGED contents
    BY <1>13 DEF exprvars
  <2>2. Stack'
    BY <2>1 DEF ExprInv, Stack, Owned, Recent, regvars
  <2>3. Ring' /\ Cells'
    BY <2>1 DEF ExprInv, regvars, Ring, Filling, Turning, Cells
  <2> QED BY <2>2, <2>3 DEF ExprInv
<1> QED
  BY <1>3, <1>4, <1>5, <1>6, <1>7, <1>8, <1>9, <1>10, <1>11, <1>12, <1>13 DEF NextExpr

\* An operand waiting for the rest of its expression is not harmed by nested
\* operations, array accesses and assignments (codeGen.c 522-635, 843-873), if
\* these take fewer than MAX_REG registers and call no function.
THEOREM OperandsKept == ExprSpec => []OperandsIntact
<1>1. ExprInv => OperandsIntact
  BY DEF ExprInv, Stack, Owned, OperandsIntact
<1> QED BY <1>1, ExprInit, ExprNext, PTL DEF ExprSpec

-----------------------------------------------------------------------------
(* The bounds of the model. *)

Values == -1..MaxUses

InBounds ==
  /\ register_list = [q \in Registers |-> register_list[q]]
  /\ contents = [q \in Registers \cup {Zero} |-> contents[q]]
  /\ total_reg <= MaxUses + 1
  /\ \A q \in Registers \cup {Zero} : contents[q] \in Values

\* A register is written with the time stamp of its allocation, which the
\* guards bound.
LEMMA WrittenInBounds ==
  ASSUME ExprInv, InBounds, total_reg < MaxUses, NEW r \in Registers, check_registers(r),
         contents' = [q \in Registers \cup {Zero} |-> contents'[q]],
         \A q \in Registers \cup {Zero} :
           contents'[q] \in {total_reg, -1, contents[q]}
  PROVE  InBounds'
<1>1. total_reg \in Nat /\ total_reg' = total_reg + 1 /\ total_reg \in Values /\ -1 \in Values
  BY HandedOut, TotalTyped, MaxUsesAssumption DEF ExprInv, Values
<1>2. ASSUME NEW q \in Registers \cup {Zero} PROVE contents'[q] \in Values
  <2>1. contents'[q] \in {total_reg, -1, contents[q]} /\ contents[q] \in Values
    BY DEF InBounds
  <2> QED BY <1>1, <2>1
<1>3. total_reg' <= MaxUses + 1
  BY <1>1, MaxUsesAssumption
<1>4. PICK list : /\ DOMAIN list = Registers
                  /\ register_list' = [list EXCEPT ![r] = Taken(total_reg)]
  <2>1. DOMAIN register_list = Registers
    BY DEF ExprInv, Ring
  <2>2. \A old : DOMAIN [register_list EXCEPT ![old] = FreeRegister] = Registers
    BY <2>1
  <2> QED BY <2>1, <2>2 DEF check_registers, add_temp_register, Taken
<1>5. register_list' = [q \in Registers |-> register_list'[q]]
  BY <1>4
<1> QED BY <1>2, <1>3, <1>5 DEF InBounds, Values

LEMMA BoundsNext == ExprInv /\ InBounds /\ [NextExpr]_exprvars => InBounds'
<1> SUFFICES ASSUME ExprInv, InBounds, [NextExpr]_exprvars PROVE InBounds'
  OBVIOUS
<1>1. ASSUME NEW rest, NEW k, Produce(rest, k) PROVE InBounds'
  <2>1. PICK r \in Registers : check_registers(r) /\ contents' = [contents EXCEPT ![r] = total_reg]
    BY <1>1 DEF Produce
  <2>2. \A q \in Registers \cup {Zero} : contents'[q] \in {total_reg, -1, contents[q]}
    BY <2>1 DEF ExprInv, Cells
  <2>3. contents' = [q \in Registers \cup {Zero} |-> contents'[q]]
    BY <2>1 DEF InBounds
  <2> QED BY <2>3, <1>1, <2>1, <2>2, WrittenInBounds DEF Produce
<1>2. CASE ArrayArgument
  <2>1. PICK r \in Registers : check_registers(r) /\ contents' = [contents EXCEPT ![r] = total_reg]
    BY <1>2 DEF ArrayArgument
  <2>2. \A q \in Registers \cup {Zero} : contents'[q] \in {total_reg, -1, contents[q]}
    BY <2>1 DEF ExprInv, Cells
  <2>3. contents' = [q \in Registers \cup {Zero} |-> contents'[q]]
    BY <2>1 DEF InBounds
  <2> QED BY <2>3, <1>2, <2>1, <2>2, WrittenInBounds DEF ArrayArgument
<1>3. ASSUME NEW clobbered \in SUBSET Registers, Call(clobbered) PROVE InBounds'
  <2>1. PICK r \in Registers :
          /\ check_registers(r)
          /\ contents' = [q \in Registers \cup {Zero} |->
                            IF q = r THEN total_reg
                            ELSE IF q \in clobbered THEN -1 ELSE contents[q]]
    BY <1>3 DEF Call
  <2>2. \A q \in Registers \cup {Zero} : contents'[q] \in {total_reg, -1, contents[q]}
    BY <2>1
  <2>3. contents' = [q \in Registers \cup {Zero} |-> contents'[q]]
    BY <2>1
  <2> QED BY <2>3, <1>3, <2>1, <2>2, WrittenInBounds DEF Call
<1>4. CASE Assign
  <2>0. PICK len \in Nat : len = Len(operands) /\ \A n \in 1..len : operands[n] \in Operand
    BY DEF ExprInv, Stack
  <2> DEFINE t == operands[len - 1]
             v == operands[len]
  <2>1. /\ len >= 2 /\ contents' = [contents EXCEPT ![t.reg] = contents[v.reg]]
        /\ UNCHANGED regvars
    BY <1>4, <2>0 DEF Assign, Holds, Top
  <2>2. v.reg \in Registers \cup {Zero}
    BY <2>0, <2>1 DEF Operand
  <2>3. \A q \in Registers \cup {Zero} : contents'[q] \in {contents[v.reg], contents[q]}
    BY <2>1 DEF ExprInv, Cells
  <2>4. contents' = [q \in Registers \cup {Zero} |-> contents'[q]]
    BY <2>1 DEF InBounds
  <2> QED BY <2>1, <2>2, <2>3, <2>4 DEF InBounds, regvars, Values
<1>5. CASE UNCHANGED <<regvars, contents>>
  BY <1>5 DEF InBounds, regvars, Values
<1> QED
  BY <1>1, <1>2, <1>3, <1>4, <1>5 DEF NextExpr, exprvars, Leaf, ZeroConstant, Element, Operation,
     Target, TargetElement, Argument, EndStatement

LEMMA RingTyped ==
  ASSUME Ring, total_reg <= MaxUses + 1,
         register_list = [r \in Registers |-> register_list[r]]
  PROVE  /\ register_list \in
              [Registers -> [var_name : {"NULL", "Temporario"}, last_use : 0..MaxUses]]
         /\ total_reg \in 1..(MaxUses + 1) /\ total_reg_in_use \in 0..MAX_REG
<1> USE MaxRegAssumption, MaxUsesAssumption
<1> DEFINE Items == [var_name : {"NULL", "Temporario"}, last_use : 0..MaxUses]
<1>0. FreeRegister \in Items /\ \A n \in 0..MaxUses : Taken(n) \in Items
  BY DEF FreeRegister, Taken
<1>1. CASE Filling
  <2>1. ASSUME NEW r \in Registers PROVE register_list[r] \in Items
    <3>1. r < total_reg - 1 => r + 1 \in 0..MaxUses
      BY <1>1 DEF Filling, Registers
    <3> QED BY <1>0, <1>1, <3>1 DEF Filling
  <2>2. register_list \in [Registers -> Items]
    <3> HIDE DEF Items
    <3> QED BY <2>1
  <2> QED BY <1>1, <2>2 DEF Filling
<1>2. CASE Turning
  <2>0. PICK k \in Registers : \A r \in Registers :
          register_list[r] = IF r >= k THEN Taken((total_reg - MAX_REG) + (r - k))
                             ELSE Taken((total_reg - k) + r)
    BY <1>2 DEF Turning
  <2>1. ASSUME NEW r \in Registers PROVE register_list[r] \in Items
    <3>1. IF r >= k THEN (total_reg - MAX_REG) + (r - k) \in 0..MaxUses
          ELSE (total_reg - k) + r \in 0..MaxUses
      BY <1>2 DEF Turning, Registers
    <3> QED BY <1>0, <2>0, <3>1
  <2>2. register_list \in [Registers -> Items]
    <3> HIDE DEF Items
    <3> QED BY <2>1
  <2> QED BY <1>2, <2>2 DEF Turning
<1> QED BY <1>1, <1>2 DEF Ring

\* The allocator's table, the operands and the registers are what the code
\* generator takes them for: an operand's register is one of the list or $zero,
\* never the -1 of a search that fails (reg.c 115-148).
THEOREM ExprTyped == ExprSpec => []ExprTypeOK
<1>1. InitExpr => InBounds
  BY MaxUsesAssumption DEF InitExpr, initialize_registers, InBounds, Values
<1>2. ASSUME ExprInv, InBounds PROVE ExprTypeOK
  <2>1. /\ register_list \in
             [Registers -> [var_name : {"NULL", "Temporario"}, last_use : 0..MaxUses]]
        /\ total_reg \in 1..(MaxUses + 1) /\ total_reg_in_use \in 0..MAX_REG
    BY <1>2, RingTyped DEF ExprInv, InBounds
  <2> DEFINE Bounded == [reg : Registers \cup {Zero}, stamp : 0..MaxUses,
                         kind : Kinds, called : BOOLEAN]
  <2>2. ASSUME NEW n \in 1..Len(operands) PROVE operands[n] \in Bounded
    <3>1. operands[n] \in Operand /\ Owned(operands[n])
      BY <1>2 DEF ExprInv, Stack
    <3>2. operands[n].stamp \in 0..MaxUses
      BY <1>2, <2>1, <3>1, MaxUsesAssumption DEF Owned, InBounds
    <3> QED BY <3>1, <3>2 DEF Operand
  <2>3. operands \in Seq(Bounded)
    <3> HIDE DEF Bounded
    <3>1. PICK len \in Nat : len = Len(operands) /\ operands = [n \in 1..len |-> operands[n]]
      BY <1>2 DEF ExprInv, Stack
    <3>2. operands \in [1..len -> Bounded]
      BY <2>2, <3>1
    <3> QED BY <3>2, FunctionIsSequence
  <2>4. contents \in [Registers \cup {Zero} -> Values]
    BY <1>2 DEF InBounds
  <2> QED BY <2>1, <2>3, <2>4 DEF ExprTypeOK, Values
<1> QED BY <1>1, <1>2, ExprInit, ExprNext, BoundsNext, PTL DEF ExprSpec

=============================================================================
