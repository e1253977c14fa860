------------------------------ MODULE Misalign ------------------------------
(***************************************************************************)
(* A load, store or atomic whose address is not a multiple of its size.    *)
(* dcache_access (dbt.rs) sends it to helper_misalign (helper.s), which    *)
(* makes pc and instret exact and calls handle_misalign (interp.rs).       *)
(* That fetches the instruction once more and copies the data a byte at a  *)
(* time, with one address translation for each cache line it enters.       *)
(* Every fetch and every translation may fail; an atomic is refused.       *)
(* Between two bytes another hart may write to memory.                     *)
(*                                                                         *)
(* A byte is where it comes from: <<"mem", a>> was in memory at a from the *)
(* start, <<"reg", k>> was the k-th byte of x1, <<"other", n>> is the n-th *)
(* write of the other hart.  What extends a value is <<"zero">> or         *)
(* <<"sign", b>>, the sign of byte b.                                      *)
(*                                                                         *)
(* virt_line starts as !addr in the code, which is not the line of addr    *)
(* (but for one address, 0xfc0fc0fc0fc0fc0f, with lines of 64 bytes): it   *)
(* is None here.                                                           *)
(***************************************************************************)
EXTENDS Naturals, Sequences

CONSTANTS CacheLine,    \* bytes in a line; no access is longer
          MaxOther      \* how many times the other hart writes

VARIABLES access,       \* the instruction, its address, and what may be accessed
          at,           \* how far the hart has got
          ctx,          \* its Context
          slice,        \* the bytes copied so far
          virt_line,    \* the line whose translation is at hand
          bytes,        \* memory
          held,         \* every byte that memory has held at an address
          others        \* number of writes of the other hart

mis_vars == <<access, at, ctx, slice, virt_line, bytes, held, others>>

None == CacheLine
Addresses == 0..(2 * CacheLine - 1)
LineOf(a) == a \div CacheLine
Zero == [k \in 0..7 |-> <<"zero">>]

\* What x0 and x1, the registers that instructions name, hold before.
Registers == [r \in {0, 1} |-> IF r = 0 THEN Zero ELSE [k \in 0..7 |-> <<"reg", k>>]]

LoadSize == [Lh |-> 2, Lw |-> 4, Ld |-> 8, Lhu |-> 2, Lwu |-> 4]
StoreSize == [Sh |-> 2, Sw |-> 4, Sd |-> 8]
AtomicSize == [AmoW |-> 4, AmoD |-> 8]

IsLoad == access.op \in DOMAIN LoadSize
IsStore == access.op \in DOMAIN StoreSize

Size(op) == CASE op \in DOMAIN LoadSize   -> LoadSize[op]
              [] op \in DOMAIN StoreSize  -> StoreSize[op]
              [] op \in DOMAIN AtomicSize -> AtomicSize[op]

Span == access.addr..(access.addr + Size(access.op) - 1)

\* C.LW, C.LD, C.SW and C.SD are two bytes long.
Lengths(op) == IF op \in {"Lw", "Ld", "Sw", "Sd"} THEN {2, 4} ELSE {4}

(***************************************************************************)
(* The block has run to its second instruction, at offset 4.  fetch is the *)
(* half of it that cannot be fetched any more, if any; perm says what the  *)
(* page tables allow on each line.                                         *)
(***************************************************************************)
MisInit ==
    /\ \E op \in DOMAIN LoadSize \cup DOMAIN StoreSize \cup DOMAIN AtomicSize :
       \E addr \in Addresses, reg \in {0, 1}, len \in Lengths(op),
          fetch \in {"ok", "low", "high"}, perm \in [{0, 1} -> {"", "r", "rw"}] :
           /\ addr % Size(op) # 0 /\ addr + Size(op) <= 2 * CacheLine
           /\ fetch = "high" => len = 4
           /\ access = [op |-> op, addr |-> addr, reg |-> reg, len |-> len,
                        fetch |-> fetch, perm |-> perm]
    /\ at = "helper"
    /\ ctx = [x |-> Registers, pc |-> 0, instret |-> 0, cause |-> 0, tval |-> 0]
    /\ slice = <<>>
    /\ virt_line = None
    /\ bytes = [a \in Addresses |-> <<"mem", a>>]
    /\ held = [a \in Addresses |-> {bytes[a]}]
    /\ others = 0

Err(cause, tval) ==
    /\ at' = "trap"
    /\ ctx' = [ctx EXCEPT !.cause = cause, !.tval = tval]

helper_misalign ==
    /\ at = "helper"
    /\ at' = "fetch"
    /\ ctx' = [ctx EXCEPT !.pc = @ + 4, !.instret = @ + 1]
    /\ UNCHANGED <<access, slice, virt_line, bytes, held, others>>

\* The second half is only fetched for an instruction of four bytes.
FetchAgain ==
    /\ at = "fetch"
    /\ CASE access.fetch = "low"  -> Err(12, ctx.pc)
         [] access.fetch = "high" -> Err(12, ctx.pc + 2)
         [] access.fetch = "ok"   -> at' = "match" /\ UNCHANGED ctx
    /\ UNCHANGED <<access, slice, virt_line, bytes, held, others>>

\* The arm of the match that is left for atomics.
RefuseAtomic ==
    /\ at = "match" /\ ~IsLoad /\ ~IsStore
    /\ Err(6, access.addr)
    /\ UNCHANGED <<access, slice, virt_line, bytes, held, others>>

virt_addr == access.addr + Len(slice)
EntersLine == LineOf(virt_addr) # virt_line
Copying == at = "match" /\ Len(slice) < Size(access.op)

copy_from_virt_addr ==
    /\ Copying /\ IsLoad
    /\ IF EntersLine /\ access.perm[LineOf(virt_addr)] = ""
       THEN Err(13, virt_addr) /\ UNCHANGED <<slice, virt_line>>
       ELSE /\ virt_line' = LineOf(virt_addr)
            /\ slice' = Append(slice, bytes[virt_addr])
            /\ UNCHANGED <<at, ctx>>
    /\ UNCHANGED <<access, bytes, held, others>>

Store(a, b) == /\ bytes' = [bytes EXCEPT ![a] = b]
               /\ held' = [held EXCEPT ![a] = @ \cup {b}]

\* Here slice is the part of the register that has been copied.
copy_to(enters) ==
    /\ Copying /\ IsStore
    /\ IF enters /\ access.perm[LineOf(virt_addr)] # "rw"
       THEN Err(15, virt_addr) /\ UNCHANGED <<slice, virt_line, bytes, held>>
       ELSE LET b == ctx.x[access.reg][Len(slice)]
            IN  /\ virt_line' = LineOf(virt_addr)
                /\ slice' = Append(slice, b)
                /\ Store(virt_addr, b)
                /\ UNCHANGED <<at, ctx>>
    /\ UNCHANGED <<access, others>>


copy_to_virt_addr == copy_to(EntersLine)

\* from_le_bytes and the cast to u64.
Extended(op) ==
    LET n == Len(slice)
    IN  [k \in 0..7 |-> IF k < n THEN slice[k + 1]
                        ELSE IF op \in {"Lhu", "Lwu"} THEN <<"zero">>
                        ELSE <<"sign", slice[n]>>]

\* The register is written whichever it is, x0 included.
Finish ==
    /\ at = "match" /\ (IsLoad \/ IsStore) /\ Len(slice) = Size(access.op)
    /\ at' = "done"
    /\ ctx' = [ctx EXCEPT !.x[access.reg] = IF IsLoad THEN Extended(access.op) ELSE @,
                          !.pc = @ + access.len, !.instret = @ + 1]
    /\ UNCHANGED <<access, slice, virt_line, bytes, held, others>>

OtherHart ==
    /\ at \in {"fetch", "match"} /\ others < MaxOther
    /\ others' = others + 1
    /\ \E a \in Span : Store(a, <<"other", others'>>)
    /\ UNCHANGED <<access, at, ctx, slice, virt_line>>

MisNext == \/ helper_misalign \/ FetchAgain \/ RefuseAtomic
           \/ copy_from_virt_addr \/ copy_to_virt_addr \/ Finish \/ OtherHart

MisSpec == MisInit /\ [][MisNext]_mis_vars

-----------------------------------------------------------------------------
Others == {<<"other", n>> : n \in 1..MaxOther}

\* This hart has stored to the addresses of S, each byte where it belongs, and
\* to no other; the other hart may have written afterwards.
StoredTo(S) ==
    \A a \in Addresses :
        bytes[a] \in Others \cup
                     {IF a \in S THEN Registers[access.reg][a - access.addr] ELSE <<"mem", a>>}

\* The value w was loaded: each byte was in memory at its address at some time
\* while the instruction ran, and the rest follows from the last of them.
LoadedFrom(w) ==
    LET n == Size(access.op)
    IN  /\ \A k \in 0..(n - 1) : w[k] \in held[access.addr + k]
        /\ \A k \in n..7 : w[k] = IF access.op \in {"Lhu", "Lwu"} THEN <<"zero">>
                                  ELSE <<"sign", w[n - 1]>>

Completed ==
    /\ ctx.pc = 4 + access.len /\ ctx.instret = 2 /\ access.fetch = "ok"
    /\ \A a \in Span : access.perm[LineOf(a)] \in IF IsLoad THEN {"r", "rw"} ELSE {"rw"}
    /\ ctx.x[1 - access.reg] = Registers[1 - access.reg]
    /\ IsLoad => LoadedFrom(ctx.x[access.reg]) /\ StoredTo({})
    /\ IsStore => ctx.x = Registers /\ StoredTo(Span)

\* tval is where the copy was, at the first byte or at the start of the second
\* line, which the page tables do not let the hart access.
Denied(perms) ==
    /\ ctx.tval \in {access.addr} \cup {a \in Span : a % CacheLine = 0}
    /\ access.perm[LineOf(ctx.tval)] \in perms

Trapped ==
    /\ ctx.pc = 4 /\ ctx.instret = 1 /\ ctx.x = Registers
    /\ CASE ctx.cause = 12 -> access.fetch # "ok" /\ StoredTo({})
         [] ctx.cause = 6  -> ctx.tval = access.addr /\ ~IsLoad /\ ~IsStore /\ StoredTo({})
         [] ctx.cause = 13 -> IsLoad /\ Denied({""}) /\ StoredTo({})
         [] ctx.cause = 15 -> IsStore /\ Denied({"", "r"}) /\ StoredTo({a \in Span : a < ctx.tval})

(***************************************************************************)
(* When handle_misalign returns, either the instruction is complete and    *)
(* counted, was allowed on all its lines, and has moved exactly the bytes  *)
(* of its span, each at a time between its start and its end; or it traps  *)
(* at its own pc, uncounted, with every register as it was, for the first  *)
(* line that it may not access, and has stored the bytes before that line  *)
(* and no others.                                                          *)
(***************************************************************************)
MisalignedRight == (at = "done" => Completed) /\ (at = "trap" => Trapped)

\* x0 reads as zero after any instruction, as the emitted code, which reads
\* its slot like any other register's, relies on.
X0StaysZero == ctx.x[0] = Zero
=============================================================================
