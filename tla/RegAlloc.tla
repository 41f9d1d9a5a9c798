------------------------------ MODULE RegAlloc ------------------------------
(***************************************************************************)
(* The register allocator of src/reg.c.  The code generator asks for every *)
(* register with check_registers(.., .., 1): a free register while there   *)
(* is one, else the least recently allocated one.  Nothing is ever given   *)
(* back, so the allocator is a ring over the MAX_REG registers; the        *)
(* variable cache (is_temp = 0, search_var_register, add_var_register) has *)
(* no caller.                                                              *)
(***************************************************************************)
EXTENDS Integers, FiniteSets

CONSTANTS
  MAX_REG,   \* registers t0..; 22 in the source
  MaxUses    \* bound on total_reg

ASSUME MaxRegAssumption == MAX_REG \in Nat \ {0}
ASSUME MaxUsesAssumption == MaxUses \in Nat

VARIABLES
  register_list,      \* var_name and last_use of every register
  total_reg,          \* time stamp of the next allocation
  total_reg_in_use

regvars == <<register_list, total_reg, total_reg_in_use>>

Registers == 0..(MAX_REG - 1)

FreeRegister == [var_name |-> "NULL", last_use |-> 0]

initialize_registers ==
  /\ register_list = [r \in Registers |-> FreeRegister]
  /\ total_reg = 1
  /\ total_reg_in_use = 0

\* Variant: the register used last is discarded.
discard_register_Newest(r) ==
  /\ register_list[r].var_name # "NULL"
  /\ \A q \in Registers : register_list[q].last_use <= register_list[r].last_use

\* The temporary with the lowest last_use, the first of them in the list.
discard_register(r) ==
  /\ register_list[r].var_name # "NULL"
  /\ \A q \in Registers :
       register_list[q].var_name # "NULL" =>
         \/ register_list[r].last_use < register_list[q].last_use
         \/ register_list[r].last_use = register_list[q].last_use /\ r <= q

\* Variant: a new temporary keeps the time stamp of the one before.
add_temp_register_Stale(list, r) ==
  /\ list[r].var_name = "NULL"
  /\ \A q \in Registers : list[q].var_name = "NULL" => r <= q
  /\ register_list' = [list EXCEPT ![r] = [var_name |-> "Temporario", last_use |-> 1]]
  /\ total_reg' = total_reg + 1

\* The first free register of the list, stamped.
add_temp_register(list, r) ==
  /\ list[r].var_name = "NULL"
  /\ \A q \in Registers : list[q].var_name = "NULL" => r <= q
  /\ register_list' = [list EXCEPT ![r] = [var_name |-> "Temporario", last_use |-> total_reg]]
  /\ total_reg' = total_reg + 1

\* Variant: discarding a register is not counted.
check_registers_Uncounted(r) ==
  \/ /\ total_reg_in_use < MAX_REG
     /\ add_temp_register(register_list, r)
     /\ total_reg_in_use' = total_reg_in_use + 1
  \/ /\ total_reg_in_use >= MAX_REG
     /\ \E old \in Registers :
          /\ discard_register(old)
          /\ add_temp_register([register_list EXCEPT ![old] = FreeRegister], r)
     /\ total_reg_in_use' = total_reg_in_use + 1

\* Register r is handed out.
check_registers(r) ==
  \/ /\ total_reg_in_use # MAX_REG
     /\ add_temp_register(register_list, r)
     /\ total_reg_in_use' = total_reg_in_use + 1
  \/ /\ total_reg_in_use = MAX_REG
     /\ \E old \in Registers :
          /\ discard_register(old)
          /\ add_temp_register([register_list EXCEPT ![old] = FreeRegister], r)
     /\ total_reg_in_use' = (total_reg_in_use - 1) + 1

=============================================================================
