---------------------------- MODULE MCTranslator ----------------------------
(***************************************************************************)
(* How instructions are run, in five parts with behaviours of their own:   *)
(* what the code emitted for one instruction computes (Translate), what    *)
(* becomes of a misaligned access (Misalign), what a floating-point        *)
(* operation returns (MCSoftFp), how blocks are put together from          *)
(* instructions (Block), and the decoder and the encoder at the two ends   *)
(* (Codec).                                                                *)
(***************************************************************************)
EXTENDS Block, Words

CONSTANTS Values, Cells, MaxWrites,     \* of Translate, with the widths of Words
          CacheLine, MaxOther,          \* of Misalign
          Exp, Sig, Exp2, Sig2, Ints    \* of MCSoftFp

VARIABLES part,                               \* which of them this behaviour is
          input, cpu, host_ip, seen, writes,  \* of Translate
          access, at, ctx, slice,             \* of Misalign
          virt_line, bytes, held, others,
          op, F, a, b, c, w, rm, result,      \* of MCSoftFp
          kind, insn                          \* of Codec

T == INSTANCE Translate WITH ip <- host_ip
Mis == INSTANCE Misalign
Fp == INSTANCE MCSoftFp
C == INSTANCE Codec WITH code <- insn

op_vars == <<input, cpu, host_ip, seen, writes>>
mis_vars == <<access, at, ctx, slice, virt_line, bytes, held, others>>
float_vars == <<op, F, a, b, c, w, rm, result>>
codec_vars == <<kind, insn>>
all_vars == <<part, op_vars, mis_vars, float_vars, vars, codec_vars>>

NoOp == input = 0 /\ cpu = 0 /\ host_ip = 0 /\ seen = 0 /\ writes = 0
NoMis ==
    /\ access = 0 /\ at = 0 /\ ctx = 0 /\ slice = 0
    /\ virt_line = 0 /\ bytes = 0 /\ held = 0 /\ others = 0
NoFloat == op = 0 /\ F = 0 /\ a = 0 /\ b = 0 /\ c = 0 /\ w = 0 /\ rm = 0 /\ result = 0
NoBlock ==
    /\ model = 0 /\ pc = 0 /\ instret = 0 /\ dbt = [code |-> <<>>] /\ ip = 0
    /\ cur = 0 /\ inst = 0 /\ nxt = 0 /\ begun = 0 /\ slept = 0 /\ owed = 0
    /\ line = 0 /\ edge = FALSE
NoCodec == kind = 0 /\ insn = 0

MCInit ==
    \/ part = "op" /\ T!Init /\ NoMis /\ NoFloat /\ NoBlock /\ NoCodec
    \/ part = "misalign" /\ Mis!MisInit /\ NoOp /\ NoFloat /\ NoBlock /\ NoCodec
    \/ part = "float" /\ Fp!Init /\ NoOp /\ NoMis /\ NoBlock /\ NoCodec
    \/ part = "block" /\ Init /\ NoOp /\ NoMis /\ NoFloat /\ NoCodec
    \/ part = "codec" /\ C!CodecInit /\ NoOp /\ NoMis /\ NoFloat /\ NoBlock

MCNext ==
    \/ part = "op" /\ T!Next /\ UNCHANGED <<part, mis_vars, float_vars, vars, codec_vars>>
    \/ part = "misalign" /\ Mis!MisNext /\ UNCHANGED <<part, op_vars, float_vars, vars, codec_vars>>
    \/ part = "float" /\ Fp!Next /\ UNCHANGED <<part, op_vars, mis_vars, vars, codec_vars>>
    \/ part = "block" /\ Next /\ UNCHANGED <<part, op_vars, mis_vars, float_vars, codec_vars>>
    \/ part = "codec" /\ C!CodecNext /\ UNCHANGED <<part, op_vars, mis_vars, float_vars, vars>>

MCSpec == MCInit /\ [][MCNext]_all_vars

-----------------------------------------------------------------------------
\* Translate: the code that dbt.rs emits for an instruction leaves the registers,
\* memory and pc that step of interp.rs leaves, for all the ways in which its
\* registers can coincide.
OpsAsInterp == part = "op" => T!ComputesAsInterp /\ T!JumpsAsInterp

\* Translate: so does the code for loads, stores, LR, SC and AMOs, while another
\* hart writes to the word: the instruction takes effect at one moment.  Where
\* step traps for a misaligned address, it leaves for helper_misalign instead,
\* with nothing changed.
AtomicsAsInterp == part = "op" => T!AtomicAsInterp


\* MCSoftFp: each operation returns the exact result rounded once and raises the
\* flags of that rounding; comparisons, min, max and the classes agree on one
\* order of numbers.
FloatRight == part = "float" => Fp!ArithmeticRight /\ Fp!ConversionsRight /\ Fp!OrderRight

\* Codec: the decoder of guest instructions overlooks no bit of what it accepts,
\* but for those listed in Ignored, and puts the bits of immediates where the
\* RISC-V manual does.
DecoderUsesBits == part = "codec" => C!EveryBitCounts /\ C!ImmediatesRight

\* Codec: what the encoder of host instructions emits is decoded to the same
\* instruction, of the same length, as the signal handlers need to skip it.
EncoderRoundTrip == part = "codec" => C!RoundTrip
=============================================================================
