------------------------------ MODULE Bytecode ------------------------------
(***************************************************************************)
(* The byte buffer of a generated context (gen/data/scope.h), the builders *)
(* that append an instruction to it field by field (gen/gen/ir.py), and    *)
(* the reads of the generated interpreters.                                *)
(*                                                                         *)
(* An instruction is [op, args], op its number in the enum of opcodes.  A  *)
(* byte says which value of which type it is a part of, and which part.    *)
(***************************************************************************)
EXTENDS Integers, SequencesExt

CONSTANTS
    Opcodes,    \* the scope's op declarations in order: [base, args], args types
    Size,       \* sizeof every type, "op" being the opcode's
    MayFail,    \* whether realloc may return NULL
    NULL, UNINIT

ASSUME SizeAssumption ==
    /\ "op" \in DOMAIN Size
    /\ \A t \in DOMAIN Size : Size[t] \in Nat \ {0}

ASSUME OpcodesAssumption ==
    Opcodes \in Seq([base : STRING, args : Seq(DOMAIN Size)])

VARIABLES
    ctx,        \* the context's buffer: len, alloc and the alloc bytes at mem
    pending,    \* the fields that the running builder still has to push
    program,    \* history: the instructions whose builder was called
    failed      \* history: whether a realloc has failed

bufferVars == <<ctx, pending, program, failed>>

Empty == [len |-> 0, alloc |-> 0, mem |-> NULL]

BufferInit == /\ ctx = Empty
              /\ pending = <<>>
              /\ program = <<>>
              /\ failed = FALSE

Bytes(field) ==
    [i \in 1..Size[field.type] |-> [type |-> field.type, val |-> field.val, part |-> i]]

Fields(instr) ==
    <<[type |-> "op", val |-> instr.op]>> \o
        [i \in 1..Len(instr.args) |->
            [type |-> Opcodes[instr.op].args[i], val |-> instr.args[i]]]

-----------------------------------------------------------------------------
\* Calling a builder.  Its pushes follow one by one.
Call(instr) == /\ pending = <<>>
               /\ pending' = Fields(instr)
               /\ program' = Append(program, instr)
               /\ UNCHANGED <<ctx, failed>>

TooSmall_Exact(n) == ctx.len + n > ctx.alloc + 1 \/ ctx.mem = NULL

TooSmall(n) == ctx.len + n >= ctx.alloc \/ ctx.mem = NULL

Grown(size) ==
    [i \in 1..size |-> IF i <= ctx.len THEN ctx.mem[i] ELSE UNINIT]

\* Only the bytes that fit in mem are written: what lies beyond is not ours.
Copied(mem, bytes) ==
    [i \in DOMAIN mem |->
        IF i \in ctx.len + 1 .. ctx.len + Len(bytes) THEN bytes[i - ctx.len] ELSE mem[i]]

Push(bytes) ==
    LET end == ctx.len + Len(bytes)
    IN \/ /\ ~TooSmall(Len(bytes))
          /\ ctx' = [ctx EXCEPT !.len = end, !.mem = Copied(@, bytes)]
          /\ UNCHANGED failed
       \/ /\ TooSmall(Len(bytes))
          /\ ctx' = [len |-> end, alloc |-> 2 * end, mem |-> Copied(Grown(2 * end), bytes)]
          /\ UNCHANGED failed
       \/ /\ TooSmall(Len(bytes)) /\ MayFail
          /\ ctx' = Empty
          /\ failed' = TRUE

PushField == /\ pending # <<>>
             /\ Push(Bytes(Head(pending)))
             /\ pending' = Tail(pending)
             /\ UNCHANGED program

-----------------------------------------------------------------------------
\* The value that next(type) reads at an index, or NULL if the bytes there
\* are not such a value.
Read(type, index) ==
    LET bytes == SubSeq(ctx.mem, index + 1, index + Size[type])
    IN IF /\ index + Size[type] <= ctx.len
          /\ bytes = Bytes([type |-> type, val |-> bytes[1].val])
       THEN bytes[1].val ELSE NULL

After(types, index, n) ==
    LET end[i \in 0..n] == IF i = 0 THEN index + Size["op"] ELSE end[i - 1] + Size[types[i]]
    IN end[n]

\* The instruction an interpreter decodes at an index and the index it leaves,
\* or NULL if it reads anything else than an instruction there.
Fetch(index) ==
    LET op    == Read("op", index)
        types == Opcodes[op].args
        args  == [i \in DOMAIN types |-> Read(types[i], After(types, index, i - 1))]
    IN IF op = NULL \/ NULL \in ToSet(args) THEN NULL
       ELSE [op |-> op, args |-> args, next |-> After(types, index, Len(types))]

-----------------------------------------------------------------------------
\* The type invariant: mem has alloc bytes and len does not exceed them.
BufferOK ==
    /\ DOMAIN ctx = {"len", "alloc", "mem"}
    /\ ctx.len \in Nat /\ ctx.alloc \in Nat
    /\ ctx = Empty \/ (ctx.len <= ctx.alloc /\ DOMAIN ctx.mem = 1..ctx.alloc)
    /\ failed \in BOOLEAN

=============================================================================
