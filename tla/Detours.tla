------------------------------ MODULE Detours ------------------------------
(***************************************************************************)
(* Detours of one function in machine code (the 32 bit build).  Memory is  *)
(* bytes in base R, an address or an operand is a word of two bytes, so a  *)
(* jump takes three.  The program that owns the detours makes and deletes  *)
(* them in any order, as modules that detour one function do; every detour *)
(* function calls GetOriginalFunction.                                     *)
(***************************************************************************)
EXTENDS Integers, Sequences

CONSTANTS
  R,            \* the values of a byte
  Functions,    \* the functions to detour, as their instructions
  FunctionAt,   \* the address of the function
  Objects,      \* the detours
  DetourAt,     \* the addresses of their detour functions
  BackupAt, TrampolineAt   \* the memory their allocations return

VARIABLES
  mem,          \* the bytes, Free where nothing is allocated
  original,     \* the function as it was
  object,       \* what is known of every detour
  chain,        \* the live detours of the function, newest first
  stuck         \* a constructor threw after it had redirected the function

dtVars == <<mem, original, object, chain, stuck>>

Free == -1

DETOUR_SIZE == 3

Word == R * R

(* Instructions: name, size, where the relative operand is (0: nowhere).   *)
(* SHORT has a relative operand of one byte.                               *)
Opcodes ==
  [jmp   |-> [op |-> 9,  size |-> 3, rel |-> 1],
   call  |-> [op |-> 8,  size |-> 3, rel |-> 1],
   jcc   |-> [op |-> 15, size |-> 4, rel |-> 2],
   short |-> [op |-> 7,  size |-> 2, rel |-> 0],
   mov   |-> [op |-> 2,  size |-> 3, rel |-> 0],
   inc   |-> [op |-> 1,  size |-> 1, rel |-> 0],
   ret   |-> [op |-> 3,  size |-> 1, rel |-> 0]]

JMP == Opcodes.jmp.op

(* hde32_disasm: the instruction an opcode starts.                         *)
Decoded(op) == {x \in DOMAIN Opcodes : Opcodes[x].op = op}

Instruction(op) == CHOOSE x \in DOMAIN Opcodes : Opcodes[x].op = op

GetInstructionSize(op) ==
  IF Decoded(op) = {} THEN 0 ELSE Opcodes[Instruction(op)].size

LittleEndian(w) == <<w % R, w \div R>>

ReadWord(m, a) == m[a] + R * m[a + 1]

(* The memory m with the bytes of s at address a.                          *)
Written(m, a, s) ==
  [x \in DOMAIN m |-> IF x \in a..(a + Len(s) - 1) THEN s[x - a + 1] ELSE m[x]]

Copied(m, to, from, n) ==
  [x \in DOMAIN m |-> IF x \in to..(to + n - 1) THEN m[from + (x - to)] ELSE m[x]]

Released(m, a, n) == [x \in DOMAIN m |-> IF x \in a..(a + n - 1) THEN Free ELSE m[x]]

Jump(at, to) == <<JMP>> \o LittleEndian((to - at - DETOUR_SIZE) % Word)

(* The size of the first instructions that make room for a jump, 0 where   *)
(* the constructor throws: a function that returns too soon, an opcode the *)
(* disassembler does not know.                                             *)
InstructionCount(m, source) ==
  LET count[n \in 0..(2 * DETOUR_SIZE)] ==
        LET op == m[source + n] IN
        IF n >= DETOUR_SIZE THEN n
        ELSE IF op = Opcodes.ret.op \/ GetInstructionSize(op) = 0 THEN 0
        ELSE count[n + GetInstructionSize(op)]
  IN count[0]

(* RelocateCode: m after it has moved the relative operands of the size    *)
(* bytes at baseNew, which were copied from baseOld.                       *)
RelocateCode(m, baseOld, baseNew, size) ==
  LET delta == baseOld - baseNew
      rel(op) == Opcodes[Instruction(op)].rel
      moved[n \in 0..(3 * DETOUR_SIZE)] ==
        \* the memory once the instructions from n on have been moved
        LET op == m[baseNew + n]
            rest == moved[n + GetInstructionSize(op)]
            at == baseNew + n + rel(op)
        IN IF n >= size \/ GetInstructionSize(op) = 0 THEN m
           ELSE IF rel(op) = 0 THEN rest
           ELSE Written(rest, at, LittleEndian((ReadWord(m, at) + delta) % Word))
  IN moved[0]

(* Whether it throws: a relative operand of one byte cannot be moved.      *)
CannotRelocate(m, at, size) ==
  LET found[n \in 0..(3 * DETOUR_SIZE)] ==
        LET op == m[at + n] IN
        IF n >= size \/ GetInstructionSize(op) = 0 THEN FALSE
        ELSE op = Opcodes.short.op \/ found[n + GetInstructionSize(op)]
  IN found[0]

DtInit ==
  /\ original \in Functions
  /\ mem = Written([a \in 0..(Word - 1) |-> Free], FunctionAt, original)
  /\ object = [d \in Objects |-> [state |-> "none"]]
  /\ chain = <<>>
  /\ stuck = FALSE

Fails(d) == object' = [object EXCEPT ![d] = [state |-> "gone"]]

(* The memory after the constructor, before it reprotects the function.    *)
Redirected(d, n) ==
  LET backup == BackupAt[d]
      m1 == Copied(mem, backup, FunctionAt, n)
      m2 == RelocateCode(m1, FunctionAt, backup, n)
      m3 == Written(m2, backup + n, Jump(backup + n, FunctionAt + n))
      m4 == Written(m3, TrampolineAt[d], Jump(TrampolineAt[d], DetourAt[d]))
  IN Written(m4, FunctionAt, Jump(FunctionAt, TrampolineAt[d]))

(* new Detour.  Up to the redirection an exception leaves the function as  *)
(* it was; when the function cannot be reprotected, it stays redirected    *)
(* to a detour function whose object was never assigned.                   *)
CreateDetour(d) ==
  /\ object[d].state = "none"
  /\ LET n == InstructionCount(mem, FunctionAt)
         saved == Jump(FunctionAt, TrampolineAt[d])
         refused == n = 0 \/ CannotRelocate(mem, FunctionAt, n)
     IN
     \/ Fails(d) /\ UNCHANGED <<mem, chain, stuck>>
     \/ /\ ~refused
        /\ mem' = Redirected(d, n)
        /\ \/ /\ object' = [object EXCEPT ![d] =
                   [state |-> "live", instructionCount |-> n, backupDetour |-> saved]]
              /\ chain' = <<d>> \o chain
              /\ UNCHANGED stuck
           \/ Fails(d) /\ stuck' = TRUE /\ UNCHANGED chain
  /\ UNCHANGED original

Modified(d) ==
  SubSeq([i \in 1..DETOUR_SIZE |-> mem[FunctionAt + i - 1]], 1, DETOUR_SIZE) # object[d].backupDetour

(* A bug: only the bytes are put back. *)
Restored_NotRelocated(d) == Copied(mem, FunctionAt, BackupAt[d], DETOUR_SIZE)

(* The function as Revert puts it back.                                    *)
Restored(d) ==
  RelocateCode(Copied(mem, FunctionAt, BackupAt[d], DETOUR_SIZE),
               BackupAt[d], FunctionAt, object[d].instructionCount)

WithoutBlocks(m, d) ==
  Released(Released(m, TrampolineAt[d], DETOUR_SIZE),
           BackupAt[d], object[d].instructionCount + DETOUR_SIZE)

(* The trampoline leads to the backup from now on.                         *)
Bypassed(m, d) == Written(m, TrampolineAt[d], Jump(TrampolineAt[d], BackupAt[d]))

(* delete: Revert, and when it throws the trampoline is bypassed: the      *)
(* function was modified or could not be unprotected, or it was restored   *)
(* and could not be reprotected.                                           *)
DeleteDetour(d) ==
  /\ object[d].state = "live"
  /\ IF Modified(d)
     THEN mem' = Bypassed(mem, d)
     ELSE mem' \in {Bypassed(mem, d), WithoutBlocks(Restored(d), d), Bypassed(Restored(d), d)}
  /\ Fails(d)
  /\ chain' = SelectSeq(chain, LAMBDA x : x # d)
  /\ UNCHANGED <<original, stuck>>

DtNext == \E d \in Objects : CreateDetour(d) \/ DeleteDetour(d)

DtSpec == DtInit /\ [][DtNext]_dtVars

GetOriginalFunction(d) == BackupAt[d]

(* What a call of the function does, instruction by instruction, detour    *)
(* functions included: the operands of jumps and calls are the addresses   *)
(* they lead to.                                                           *)
Inside(a) == a \in DOMAIN mem /\ mem[a] # Free

Ran ==
  LET run[fuel \in 0..40, pc \in 0..(Word - 1)] ==
        LET name == Instruction(mem[pc])
            size == Opcodes[name].size
            target == (pc + size + ReadWord(mem, pc + Opcodes[name].rel)) % Word
            detour == {d \in Objects : DetourAt[d] = pc}
        IN
        IF fuel = 0 THEN <<"loop">>
        ELSE IF detour # {}
        THEN LET d == CHOOSE x \in detour : TRUE
             IN <<d>> \o (IF object[d].state = "live" THEN run[fuel - 1, GetOriginalFunction(d)] ELSE <<"gone">>)
        ELSE IF ~Inside(pc) THEN <<pc>>
        ELSE IF Decoded(mem[pc]) = {} THEN <<"illegal">>
        ELSE CASE name = "ret" -> <<"ret">>
               [] name = "jmp" -> run[fuel - 1, target]
               [] name = "call" -> <<"call", target>> \o run[fuel - 1, pc + size]
               [] name = "jcc" -> <<"jcc", target>> \o run[fuel - 1, pc + size]
               [] name = "mov" -> <<"mov", ReadWord(mem, pc + 1)>> \o run[fuel - 1, pc + size]
               [] OTHER -> <<name>> \o run[fuel - 1, pc + size]
  IN run[40, FunctionAt]

(* What a call did before the first detour.                                *)
RanAtFirst ==
  LET run[at \in 1..(Len(original) + 1)] ==
        LET name == Instruction(original[at])
            size == Opcodes[name].size
            operand == at + (IF Opcodes[name].rel = 0 THEN 1 ELSE Opcodes[name].rel)
            value == original[operand] + R * original[operand + 1]
            target == (FunctionAt + at - 1 + size + value) % Word
        IN CASE name = "ret" -> <<"ret">>
             [] name = "jmp" -> <<target>>
             [] name = "call" -> <<"call", target>> \o run[at + size]
             [] name = "jcc" -> <<"jcc", target>> \o run[at + size]
             [] name = "mov" -> <<"mov", value>> \o run[at + size]
             [] OTHER -> <<name>> \o run[at + size]
  IN run[1]

(* A call goes through the live detours, newest first, and then does what  *)
(* the function did at first, in whatever order detours came and went,     *)
(* unless the constructor left the function redirected to nothing.         *)
CallsRunTheChain == ~stuck => Ran = chain \o RanAtFirst
=============================================================================
