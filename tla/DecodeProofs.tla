---------------------------- MODULE DecodeProofs ----------------------------
(***************************************************************************)
(* That the decoder of 32-bit instructions (RiscvDecode, decode) never     *)
(* takes two instructions for one another.  A word is eight digits, the    *)
(* fields that the formats are made of; the operands of each format        *)
(* determine its digits; the name of an operation determines its opcode    *)
(* and the selecting fields that are not operands.                         *)
(***************************************************************************)
EXTENDS RiscvDecode, TLAPS

\* An instruction of 32 bits, as decode reads it.
Half == 0 .. (2^16 - 1)
Word == [lo : Half, hi : Half]

-----------------------------------------------------------------------------
(* The fields of a 32-bit instruction, from the digits of its halves.      *)

Digit(n) == 0 .. (2^n - 1)

\* The fields of the low half: opcode, rd, funct3 and the lowest bit of rs1.
LowParts(a, c, d, e, p) ==
  /\ c \in Digit(7) /\ d \in Digit(5) /\ e \in Digit(3) /\ p \in Digit(1)
  /\ a = c + 2^7 * d + 2^12 * e + 2^15 * p
  /\ Bits(a, 6, 0) = c /\ Bits(a, 11, 7) = d /\ Bits(a, 14, 12) = e
  /\ Bits(a, 7, 7) = d % 2 /\ Bits(a, 11, 8) = d \div 2
  /\ Bits(a, 15, 12) = e + 2^3 * p /\ Bits(a, 15, 15) = p

\* The fields of the high half: the rest of rs1, rs2, funct7 and the sign.
HighParts(b, q, t, f, s) ==
  /\ q \in Digit(4) /\ t \in Digit(5) /\ f \in Digit(6) /\ s \in Digit(1)
  /\ b = q + 2^4 * t + 2^9 * f + 2^15 * s
  /\ Bits(b, 3, 0) = q /\ Bits(b, 8, 4) = t /\ Bits(b, 14, 9) = f /\ Bits(b, 15, 15) = s
  /\ Bits(b, 14, 4) = t + 2^5 * f
  /\ Bits(b, 15, 4) = t + 2^5 * f + 2^11 * s
  /\ Bits(b, 14, 0) = q + 2^4 * t + 2^9 * f
  /\ Bits(b, 15, 9) = f + 2^6 * s
  /\ Bits(b, 4, 4) = t % 2 /\ Bits(b, 14, 5) = t \div 2 + 2^4 * f
  /\ Bits(b, 15, 11) = f \div 4 + 2^4 * s
  /\ Bits(b, 10, 9) = f % 4

\* Every half of an instruction is made of such digits.
LEMMA LowHalf ==
  ASSUME NEW a \in Half
  PROVE  \E c, d, e, p : LowParts(a, c, d, e, p)
<1>1. a \in Int /\ a >= 0 /\ a < 2^16
  BY DEF Half
<1>2. PICK c \in Int, d \in Int, e \in Int, p \in Int :
         /\ c = a % 2^7 /\ d = (a \div 2^7) % 2^5 /\ e = (a \div 2^12) % 2^3
         /\ p = a \div 2^15
  BY <1>1
<1>3. /\ c \in Digit(7) /\ d \in Digit(5) /\ e \in Digit(3) /\ p \in Digit(1)
      /\ a = c + 2^7 * d + 2^12 * e + 2^15 * p
  BY <1>1, <1>2 DEF Digit
<1>4. LowParts(a, c, d, e, p)
  BY <1>1, <1>3 DEF LowParts, Bits, Digit
<1> QED BY <1>4, Zenon

LEMMA HighHalf ==
  ASSUME NEW b \in Half
  PROVE  \E q, t, f, s : HighParts(b, q, t, f, s)
<1>1. b \in Int /\ b >= 0 /\ b < 2^16
  BY DEF Half
<1>2. PICK q \in Int, t \in Int, f \in Int, s \in Int :
         /\ q = b % 2^4 /\ t = (b \div 2^4) % 2^5 /\ f = (b \div 2^9) % 2^6
         /\ s = b \div 2^15
  BY <1>1
<1>3. /\ q \in Digit(4) /\ t \in Digit(5) /\ f \in Digit(6) /\ s \in Digit(1)
      /\ b = q + 2^4 * t + 2^9 * f + 2^15 * s
  BY <1>1, <1>2 DEF Digit
<1>4. HighParts(b, q, t, f, s)
  BY <1>1, <1>3 DEF HighParts, Bits, Digit
<1> QED BY <1>4, Zenon

\* The operands of an instruction made of these digits.
Rs1Num(p, q) == p + 2 * q
High7(f, s) == f + 2^6 * s
High5(f, s) == f \div 4 + 2^4 * s
CNum(t, f, s) == t + 2^5 * f + 2^11 * s
INum(t, f, s) == (t + 2^5 * f) - 2^11 * s
SNum(d, f, s) == 2^5 * f + d - 2^11 * s
BNum(d, f, s) == 2^11 * (d % 2) + 2^5 * f + 2 * (d \div 2) - 2^12 * s
UNum(e, p, q, t, f, s) ==
  2^12 * (((e + 2^3 * p) + 2^4 * (q + 2^4 * t + 2^9 * f)) - 2^19 * s)
JNum(e, p, q, t, f, s) ==
  2^12 * ((e + 2^3 * p) + 2^4 * q) + 2^11 * (t % 2) + 2 * (t \div 2 + 2^4 * f) - 2^20 * s

\* The fields of an instruction by the digits of its halves.
LEMMA WordFields ==
  ASSUME NEW w, NEW c, NEW d, NEW e, NEW p, NEW q, NEW t, NEW f, NEW s,
         LowParts(w.lo, c, d, e, p), HighParts(w.hi, q, t, f, s)
  PROVE  /\ Field(w, 6, 0) = c /\ rd(w) = d /\ funct3(w) = e /\ rs1(w) = Rs1Num(p, q)
         /\ rs2(w) = t /\ funct7(w) = High7(f, s) /\ csr(w) = CNum(t, f, s)
         /\ i_imm(w) = INum(t, f, s)
         /\ s_imm(w) = SNum(d, f, s)
         /\ b_imm(w) = BNum(d, f, s)
         /\ u_imm(w) = UNum(e, p, q, t, f, s)
         /\ j_imm(w) = JNum(e, p, q, t, f, s)
         /\ Field(w, 31, 27) = High5(f, s) /\ Field(w, 26, 25) = f % 4
<1>1. /\ Field(w, 6, 0) = Bits(w.lo, 6, 0) /\ Field(w, 11, 7) = Bits(w.lo, 11, 7)
      /\ Field(w, 14, 12) = Bits(w.lo, 14, 12)
      /\ Field(w, 7, 7) = Bits(w.lo, 7, 7) /\ Field(w, 11, 8) = Bits(w.lo, 11, 8)
      /\ Field(w, 19, 15) = Bits(w.lo, 15, 15) + 2 * Bits(w.hi, 3, 0)
      /\ Field(w, 19, 12) = Bits(w.lo, 15, 12) + 2^4 * Bits(w.hi, 3, 0)
      /\ Field(w, 30, 12) = Bits(w.lo, 15, 12) + 2^4 * Bits(w.hi, 14, 0)
      /\ Field(w, 24, 20) = Bits(w.hi, 8, 4) /\ Field(w, 30, 20) = Bits(w.hi, 14, 4)
      /\ Field(w, 31, 20) = Bits(w.hi, 15, 4) /\ Field(w, 30, 25) = Bits(w.hi, 14, 9)
      /\ Field(w, 31, 25) = Bits(w.hi, 15, 9) /\ Field(w, 31, 31) = Bits(w.hi, 15, 15)
      /\ Field(w, 20, 20) = Bits(w.hi, 4, 4) /\ Field(w, 30, 21) = Bits(w.hi, 14, 5)
      /\ Field(w, 31, 27) = Bits(w.hi, 15, 11) /\ Field(w, 26, 25) = Bits(w.hi, 10, 9)
  BY DEF Field
<1>2. /\ Field(w, 6, 0) = c /\ Field(w, 11, 7) = d /\ Field(w, 14, 12) = e
      /\ Field(w, 30, 25) = f /\ Field(w, 31, 31) = s /\ Field(w, 24, 20) = t
  BY <1>1, Zenon DEF LowParts, HighParts
<1>3. rs1(w) = p + 2 * q
  BY <1>1, Zenon DEF LowParts, HighParts, rs1
<1>4. rs2(w) = t /\ funct7(w) = f + 2^6 * s /\ csr(w) = t + 2^5 * f + 2^11 * s
  BY <1>1, Zenon DEF HighParts, rs2, funct7, csr
<1>5. rd(w) = d /\ funct3(w) = e
  BY <1>2, Zenon DEF rd, funct3
<1>6. Field(w, 30, 20) = t + 2^5 * f
  BY <1>1, Zenon DEF HighParts
<1>7. i_imm(w) = (t + 2^5 * f) - 2^11 * s
  BY <1>2, <1>6, Zenon DEF i_imm, Sign
<1>8. s_imm(w) = 2^5 * f + d - 2^11 * s
  BY <1>2, Zenon DEF s_imm, Sign
<1>9. Field(w, 7, 7) = d % 2 /\ Field(w, 11, 8) = d \div 2
  BY <1>1, Zenon DEF LowParts
<1>10. b_imm(w) = 2^11 * (d % 2) + 2^5 * f + 2 * (d \div 2) - 2^12 * s
  BY <1>2, <1>9, Zenon DEF b_imm, Sign
<1>11. Field(w, 30, 12) = (e + 2^3 * p) + 2^4 * (q + 2^4 * t + 2^9 * f)
  BY <1>1, Zenon DEF LowParts, HighParts
<1>12. u_imm(w) = 2^12 * (((e + 2^3 * p) + 2^4 * (q + 2^4 * t + 2^9 * f)) - 2^19 * s)
  BY <1>2, <1>11, Zenon DEF u_imm, Sign
<1>13. /\ Field(w, 19, 12) = (e + 2^3 * p) + 2^4 * q /\ Field(w, 20, 20) = t % 2
       /\ Field(w, 30, 21) = t \div 2 + 2^4 * f
  BY <1>1, Zenon DEF LowParts, HighParts
<1>14. j_imm(w) = 2^12 * ((e + 2^3 * p) + 2^4 * q) + 2^11 * (t % 2)
                 + 2 * (t \div 2 + 2^4 * f) - 2^20 * s
  BY <1>2, <1>13, Zenon DEF j_imm, Sign
<1>15. Field(w, 31, 27) = f \div 4 + 2^4 * s /\ Field(w, 26, 25) = f % 4
  BY <1>1, Zenon DEF HighParts
<1> QED BY <1>2, <1>4, <1>7, <1>8, <1>10, <1>12, <1>14, <1>15, <1>3, <1>5, Zenon
     DEF Rs1Num, High7, High5, CNum, INum, SNum, BNum, UNum, JNum

-----------------------------------------------------------------------------
(* A number is made of its digits in one way only.                         *)

LEMMA Rs1Inverse ==
  ASSUME NEW p \in Digit(1), NEW p2 \in Digit(1), NEW q \in Digit(4),
         NEW q2 \in Digit(4), Rs1Num(p, q) = Rs1Num(p2, q2)
  PROVE  p = p2 /\ q = q2
BY DEF Digit, Rs1Num

LEMMA High7Inverse ==
  ASSUME NEW f \in Digit(6), NEW f2 \in Digit(6), NEW s \in Digit(1),
         NEW s2 \in Digit(1), High7(f, s) = High7(f2, s2)
  PROVE  f = f2 /\ s = s2
BY DEF Digit, High7

LEMMA IInverse ==
  ASSUME NEW t \in Digit(5), NEW t2 \in Digit(5), NEW f \in Digit(6),
         NEW f2 \in Digit(6), NEW s \in Digit(1), NEW s2 \in Digit(1),
         INum(t, f, s) = INum(t2, f2, s2)
  PROVE  t = t2 /\ f = f2 /\ s = s2
BY DEF Digit, INum

LEMMA CInverse ==
  ASSUME NEW t \in Digit(5), NEW t2 \in Digit(5), NEW f \in Digit(6),
         NEW f2 \in Digit(6), NEW s \in Digit(1), NEW s2 \in Digit(1),
         CNum(t, f, s) = CNum(t2, f2, s2)
  PROVE  t = t2 /\ f = f2 /\ s = s2
BY DEF Digit, CNum

LEMMA SInverse ==
  ASSUME NEW d \in Digit(5), NEW d2 \in Digit(5), NEW f \in Digit(6),
         NEW f2 \in Digit(6), NEW s \in Digit(1), NEW s2 \in Digit(1),
         SNum(d, f, s) = SNum(d2, f2, s2)
  PROVE  d = d2 /\ f = f2 /\ s = s2
BY DEF Digit, SNum

LEMMA BInverse ==
  ASSUME NEW d \in Digit(5), NEW d2 \in Digit(5), NEW f \in Digit(6),
         NEW f2 \in Digit(6), NEW s \in Digit(1), NEW s2 \in Digit(1),
         BNum(d, f, s) = BNum(d2, f2, s2)
  PROVE  d = d2 /\ f = f2 /\ s = s2
BY DEF Digit, BNum

SameU(e, p, q, t, f, s, e2, p2, q2, t2, f2, s2) ==
  /\ e \in Digit(3) /\ p \in Digit(1) /\ q \in Digit(4)
  /\ t \in Digit(5) /\ f \in Digit(6) /\ s \in Digit(1)
  /\ e2 \in Digit(3) /\ p2 \in Digit(1) /\ q2 \in Digit(4)
  /\ t2 \in Digit(5) /\ f2 \in Digit(6) /\ s2 \in Digit(1)
  /\ UNum(e, p, q, t, f, s) = UNum(e2, p2, q2, t2, f2, s2)

LEMMA UInverse ==
  ASSUME NEW e, NEW p, NEW q, NEW t, NEW f, NEW s,
         NEW e2, NEW p2, NEW q2, NEW t2, NEW f2, NEW s2,
         SameU(e, p, q, t, f, s, e2, p2, q2, t2, f2, s2)
  PROVE  e = e2 /\ p = p2 /\ q = q2 /\ t = t2 /\ f = f2 /\ s = s2
BY DEF SameU, Digit, UNum

SameJ(e, p, q, t, f, s, e2, p2, q2, t2, f2, s2) ==
  /\ e \in Digit(3) /\ p \in Digit(1) /\ q \in Digit(4)
  /\ t \in Digit(5) /\ f \in Digit(6) /\ s \in Digit(1)
  /\ e2 \in Digit(3) /\ p2 \in Digit(1) /\ q2 \in Digit(4)
  /\ t2 \in Digit(5) /\ f2 \in Digit(6) /\ s2 \in Digit(1)
  /\ JNum(e, p, q, t, f, s) = JNum(e2, p2, q2, t2, f2, s2)

LEMMA JInverse ==
  ASSUME NEW e, NEW p, NEW q, NEW t, NEW f, NEW s,
         NEW e2, NEW p2, NEW q2, NEW t2, NEW f2, NEW s2,
         SameJ(e, p, q, t, f, s, e2, p2, q2, t2, f2, s2)
  PROVE  e = e2 /\ p = p2 /\ q = q2 /\ t = t2 /\ f = f2 /\ s = s2
BY DEF SameJ, Digit, JNum

LEMMA High5Inverse ==
  ASSUME NEW f \in Digit(6), NEW f2 \in Digit(6), NEW s \in Digit(1), NEW s2 \in Digit(1),
         High5(f, s) = High5(f2, s2), f % 4 = f2 % 4
  PROVE  f = f2 /\ s = s2
BY DEF Digit, High5

-----------------------------------------------------------------------------
(* The fields of each format determine the instruction.                    *)

\* R, R4, I and CSR, S and B, U and J: two instructions of one opcode that
\* agree on the operands of their format are the same instruction.
LEMMA Formats ==
  ASSUME NEW v \in Word, NEW w \in Word, Field(v, 6, 0) = Field(w, 6, 0)
  PROVE  /\ rd(v) = rd(w) /\ funct3(v) = funct3(w) /\ rs1(v) = rs1(w) =>
              /\ rs2(v) = rs2(w) /\ funct7(v) = funct7(w) => v = w
              /\ rs2(v) = rs2(w) /\ Field(v, 31, 27) = Field(w, 31, 27)
                      /\ Field(v, 26, 25) = Field(w, 26, 25) => v = w
              /\ i_imm(v) = i_imm(w) => v = w
              /\ csr(v) = csr(w) => v = w
         /\ funct3(v) = funct3(w) /\ rs1(v) = rs1(w) /\ rs2(v) = rs2(w) =>
              /\ s_imm(v) = s_imm(w) => v = w
              /\ b_imm(v) = b_imm(w) => v = w
         /\ rd(v) = rd(w) =>
              /\ u_imm(v) = u_imm(w) => v = w
              /\ j_imm(v) = j_imm(w) => v = w
<1>1. v.lo \in Half /\ v.hi \in Half /\ w.lo \in Half /\ w.hi \in Half
  BY Zenon DEF Word
<1>2. v.lo = w.lo /\ v.hi = w.hi => v = w
  BY DEF Word
<1>3. PICK c, d, e, p : LowParts(v.lo, c, d, e, p)
  BY <1>1, LowHalf, Zenon
<1>4. PICK q, t, f, s : HighParts(v.hi, q, t, f, s)
  BY <1>1, HighHalf, Zenon
<1>5. PICK c2, d2, e2, p2 : LowParts(w.lo, c2, d2, e2, p2)
  BY <1>1, LowHalf, Zenon
<1>6. PICK q2, t2, f2, s2 : HighParts(w.hi, q2, t2, f2, s2)
  BY <1>1, HighHalf, Zenon
<1>7. /\ c \in Digit(7) /\ d \in Digit(5) /\ e \in Digit(3) /\ p \in Digit(1)
      /\ q \in Digit(4) /\ t \in Digit(5) /\ f \in Digit(6) /\ s \in Digit(1)
      /\ c2 \in Digit(7) /\ d2 \in Digit(5) /\ e2 \in Digit(3) /\ p2 \in Digit(1)
      /\ q2 \in Digit(4) /\ t2 \in Digit(5) /\ f2 \in Digit(6) /\ s2 \in Digit(1)
  BY <1>3, <1>4, <1>5, <1>6, Zenon DEF LowParts, HighParts
<1>8. c = c2 /\ d = d2 /\ e = e2 /\ p = p2 => v.lo = w.lo
  BY <1>3, <1>5, Zenon DEF LowParts
<1>9. q = q2 /\ t = t2 /\ f = f2 /\ s = s2 => v.hi = w.hi
  BY <1>4, <1>6, Zenon DEF HighParts
<1>10. /\ Field(v, 6, 0) = c /\ rd(v) = d /\ funct3(v) = e /\ rs1(v) = Rs1Num(p, q)
       /\ rs2(v) = t /\ funct7(v) = High7(f, s) /\ csr(v) = CNum(t, f, s)
       /\ i_imm(v) = INum(t, f, s)
       /\ s_imm(v) = SNum(d, f, s)
       /\ b_imm(v) = BNum(d, f, s)
       /\ u_imm(v) = UNum(e, p, q, t, f, s)
       /\ j_imm(v) = JNum(e, p, q, t, f, s)
       /\ Field(v, 31, 27) = High5(f, s) /\ Field(v, 26, 25) = f % 4
  BY <1>3, <1>4, WordFields, Zenon
<1>11. /\ Field(w, 6, 0) = c2 /\ rd(w) = d2 /\ funct3(w) = e2 /\ rs1(w) = Rs1Num(p2, q2)
       /\ rs2(w) = t2 /\ funct7(w) = High7(f2, s2) /\ csr(w) = CNum(t2, f2, s2)
       /\ i_imm(w) = INum(t2, f2, s2)
       /\ s_imm(w) = SNum(d2, f2, s2)
       /\ b_imm(w) = BNum(d2, f2, s2)
       /\ u_imm(w) = UNum(e2, p2, q2, t2, f2, s2)
       /\ j_imm(w) = JNum(e2, p2, q2, t2, f2, s2)
       /\ Field(w, 31, 27) = High5(f2, s2) /\ Field(w, 26, 25) = f2 % 4
  BY <1>5, <1>6, WordFields, Zenon
<1>12. c = c2
  BY <1>10, <1>11, Zenon
<1>13. rs1(v) = rs1(w) => p = p2 /\ q = q2
  <2> HAVE rs1(v) = rs1(w)
  <2>1. Rs1Num(p, q) = Rs1Num(p2, q2)
    BY <1>10, <1>11, Zenon
  <2> QED BY <2>1, <1>7, Rs1Inverse
<1>14. funct7(v) = funct7(w) => f = f2 /\ s = s2
  <2> HAVE funct7(v) = funct7(w)
  <2>1. High7(f, s) = High7(f2, s2)
    BY <1>10, <1>11, Zenon
  <2> QED BY <2>1, <1>7, High7Inverse
<1>15. Field(v, 31, 27) = Field(w, 31, 27) /\ Field(v, 26, 25) = Field(w, 26, 25)
          => f = f2 /\ s = s2
  <2> HAVE Field(v, 31, 27) = Field(w, 31, 27) /\ Field(v, 26, 25) = Field(w, 26, 25)
  <2>1. High5(f, s) = High5(f2, s2) /\ f % 4 = f2 % 4
    BY <1>10, <1>11, Zenon
  <2> QED BY <2>1, <1>7, High5Inverse
<1>16. i_imm(v) = i_imm(w) => t = t2 /\ f = f2 /\ s = s2
  <2> HAVE i_imm(v) = i_imm(w)
  <2>1. INum(t, f, s) = INum(t2, f2, s2)
    BY <1>10, <1>11, Zenon
  <2> QED BY <2>1, <1>7, IInverse
<1>17. csr(v) = csr(w) => t = t2 /\ f = f2 /\ s = s2
  <2> HAVE csr(v) = csr(w)
  <2>1. CNum(t, f, s) = CNum(t2, f2, s2)
    BY <1>10, <1>11, Zenon
  <2> QED BY <2>1, <1>7, CInverse
<1>18. s_imm(v) = s_imm(w) => d = d2 /\ f = f2 /\ s = s2
  <2> HAVE s_imm(v) = s_imm(w)
  <2>1. SNum(d, f, s) = SNum(d2, f2, s2)
    BY <1>10, <1>11, Zenon
  <2> QED BY <2>1, <1>7, SInverse
<1>19. b_imm(v) = b_imm(w) => d = d2 /\ f = f2 /\ s = s2
  <2> HAVE b_imm(v) = b_imm(w)
  <2>1. BNum(d, f, s) = BNum(d2, f2, s2)
    BY <1>10, <1>11, Zenon
  <2> QED BY <2>1, <1>7, BInverse
<1>20. u_imm(v) = u_imm(w) => e = e2 /\ p = p2 /\ q = q2 /\ t = t2 /\ f = f2 /\ s = s2
  <2> HAVE u_imm(v) = u_imm(w)
  <2>1. UNum(e, p, q, t, f, s) = UNum(e2, p2, q2, t2, f2, s2)
    BY <1>10, <1>11, Zenon
  <2>2. SameU(e, p, q, t, f, s, e2, p2, q2, t2, f2, s2)
    BY <2>1, <1>7, Zenon DEF SameU
  <2> QED BY <2>2, UInverse, Zenon
<1>21. j_imm(v) = j_imm(w) => e = e2 /\ p = p2 /\ q = q2 /\ t = t2 /\ f = f2 /\ s = s2
  <2> HAVE j_imm(v) = j_imm(w)
  <2>1. JNum(e, p, q, t, f, s) = JNum(e2, p2, q2, t2, f2, s2)
    BY <1>10, <1>11, Zenon
  <2>2. SameJ(e, p, q, t, f, s, e2, p2, q2, t2, f2, s2)
    BY <2>1, <1>7, Zenon DEF SameJ
  <2> QED BY <2>2, JInverse, Zenon
<1>22. /\ rd(v) = rd(w) => d = d2
       /\ funct3(v) = funct3(w) => e = e2
       /\ rs2(v) = rs2(w) => t = t2
  BY <1>10, <1>11, Zenon
<1>23. /\ rd(v) = rd(w) /\ funct3(v) = funct3(w) /\ rs1(v) = rs1(w) =>
            /\ rs2(v) = rs2(w) /\ funct7(v) = funct7(w) => v = w
            /\ rs2(v) = rs2(w) /\ Field(v, 31, 27) = Field(w, 31, 27)
                    /\ Field(v, 26, 25) = Field(w, 26, 25) => v = w
            /\ i_imm(v) = i_imm(w) => v = w
            /\ csr(v) = csr(w) => v = w
  BY <1>2, <1>8, <1>9, <1>12, <1>13, <1>14, <1>15, <1>16, <1>17, <1>22
<1>24. funct3(v) = funct3(w) /\ rs1(v) = rs1(w) /\ rs2(v) = rs2(w) =>
            /\ s_imm(v) = s_imm(w) => v = w
            /\ b_imm(v) = b_imm(w) => v = w
  BY <1>2, <1>8, <1>9, <1>12, <1>13, <1>18, <1>19, <1>22
<1>25. rd(v) = rd(w) =>
            /\ u_imm(v) = u_imm(w) => v = w
            /\ j_imm(v) = j_imm(w) => v = w
  BY <1>2, <1>8, <1>9, <1>12, <1>20, <1>21, <1>22
<1> QED BY <1>23, <1>24, <1>25, Zenon

\* The widths of the fields that select an operation.
LEMMA FieldRanges ==
  ASSUME NEW w \in Word
  PROVE  /\ funct3(w) \in 0..7 /\ rs2(w) \in 0..31 /\ funct7(w) \in 0..127
         /\ i_imm(w) \in Int /\ Field(w, 31, 27) \in 0..31 /\ Field(w, 26, 25) \in 0..3
<1>1. w.lo \in Half /\ w.hi \in Half
  BY Zenon DEF Word
<1>2. PICK c, d, e, p : LowParts(w.lo, c, d, e, p)
  BY <1>1, LowHalf, Zenon
<1>3. PICK q, t, f, s : HighParts(w.hi, q, t, f, s)
  BY <1>1, HighHalf, Zenon
<1>4. /\ funct3(w) = e /\ rs2(w) = t /\ funct7(w) = High7(f, s) /\ i_imm(w) = INum(t, f, s)
      /\ Field(w, 31, 27) = High5(f, s) /\ Field(w, 26, 25) = f % 4
  BY <1>2, <1>3, WordFields
<1>5. e \in Digit(3) /\ t \in Digit(5) /\ f \in Digit(6) /\ s \in Digit(1)
  BY <1>2, <1>3, Zenon DEF LowParts, HighParts
<1>6. /\ e \in 0..7 /\ t \in 0..31 /\ High7(f, s) \in 0..127 /\ INum(t, f, s) \in Int
      /\ High5(f, s) \in 0..31 /\ f % 4 \in 0..3
  BY <1>5 DEF Digit, High7, High5, INum
<1> QED BY <1>4, <1>6, Zenon

-----------------------------------------------------------------------------
(* What an operation tells of its name and its operands.                   *)

Alike(n, a, n2, a2) == Op(n, a) = Op(n2, a2) /\ Op(n, a) # Illegal

\* Equal operations have equal names and operands.
LEMMA OpAlike ==
  ASSUME NEW n, NEW n2, NEW a, NEW a2, Alike(n, a, n2, a2)
  PROVE  n = n2 /\ a = a2 /\ n # "-"
<1>1. n # "-" /\ n2 # "-"
  BY Zenon DEF Op, Alike
<1>2. [op |-> n, args |-> a] = [op |-> n2, args |-> a2]
  BY <1>1, Zenon DEF Op, Alike
<1> QED BY <1>1, <1>2

\* The name of an operation that is not illegal is the one it was made of.
LEMMA OpName ==
  ASSUME NEW n, NEW a, Op(n, a) # Illegal
  PROVE  n # "-" /\ Op(n, a).op = n
BY DEF Op, Illegal

-----------------------------------------------------------------------------
(* decode, opcode by opcode.                                               *)

LoadNames == <<"Lb", "Lh", "Lw", "Ld", "Lbu", "Lhu", "Lwu", "-">>
StoreNames == <<"Sb", "Sh", "Sw", "Sd", "-", "-", "-", "-">>
FloatLoadNames == <<"-", "-", "Flw", "Fld", "-", "-", "-", "-">>
FloatStoreNames == <<"-", "-", "Fsw", "Fsd", "-", "-", "-", "-">>
BranchNames == <<"Beq", "Bne", "-", "-", "Blt", "Bge", "Bltu", "Bgeu">>

\* The arm of decode that each opcode selects.
LEMMA DecodeLoad ==
  ASSUME NEW w, Field(w, 6, 0) = \h03
  PROVE  decode(w) = Op(At(LoadNames, funct3(w)), RI(rd(w), rs1(w), i_imm(w)))
BY SMTT(30) DEF decode, LoadNames

LEMMA DecodeFloatLoad ==
  ASSUME NEW w, Field(w, 6, 0) = \h07
  PROVE  decode(w) = Op(At(FloatLoadNames, funct3(w)), FI(rd(w), rs1(w), i_imm(w)))
BY SMTT(30) DEF decode, FloatLoadNames

LEMMA DecodeOpImm ==
  ASSUME NEW w, Field(w, 6, 0) = \h13
  PROVE  decode(w) = OpImm(w)
BY SMTT(30) DEF decode

LEMMA DecodeOpImm32 ==
  ASSUME NEW w, Field(w, 6, 0) = \h1B
  PROVE  decode(w) = OpImm32(w)
BY SMTT(30) DEF decode

LEMMA DecodeStore ==
  ASSUME NEW w, Field(w, 6, 0) = \h23
  PROVE  decode(w) = Op(At(StoreNames, funct3(w)), SI(rs1(w), rs2(w), s_imm(w)))
BY SMTT(30) DEF decode, StoreNames

LEMMA DecodeFloatStore ==
  ASSUME NEW w, Field(w, 6, 0) = \h27
  PROVE  decode(w) = Op(At(FloatStoreNames, funct3(w)), FSI(rs1(w), rs2(w), s_imm(w)))
BY SMTT(30) DEF decode, FloatStoreNames

LEMMA DecodeAtomic ==
  ASSUME NEW w, Field(w, 6, 0) = \h2F
  PROVE  decode(w) = Atomic(w)
BY SMTT(30) DEF decode

LEMMA DecodeAlu ==
  ASSUME NEW w, Field(w, 6, 0) = \h33
  PROVE  decode(w) = Op(At(OpNames(funct7(w)), funct3(w)), RR(rd(w), rs1(w), rs2(w)))
BY SMTT(30) DEF decode

LEMMA DecodeLui ==
  ASSUME NEW w, Field(w, 6, 0) = \h37
  PROVE  decode(w) = Op("Lui", [rd |-> rd(w), imm |-> u_imm(w)])
BY SMTT(30) DEF decode

LEMMA DecodeAlu32 ==
  ASSUME NEW w, Field(w, 6, 0) = \h3B
  PROVE  decode(w) = Op(At(Op32Names(funct7(w)), funct3(w)), RR(rd(w), rs1(w), rs2(w)))
BY SMTT(30) DEF decode

LEMMA DecodeFmadd ==
  ASSUME NEW w, Field(w, 6, 0) = \h43
  PROVE  decode(w) = Fused(w, "Fmadd")
BY SMTT(30) DEF decode

LEMMA DecodeFmsub ==
  ASSUME NEW w, Field(w, 6, 0) = \h47
  PROVE  decode(w) = Fused(w, "Fmsub")
BY SMTT(30) DEF decode

LEMMA DecodeFnmsub ==
  ASSUME NEW w, Field(w, 6, 0) = \h4B
  PROVE  decode(w) = Fused(w, "Fnmsub")
BY SMTT(30) DEF decode

LEMMA DecodeFnmadd ==
  ASSUME NEW w, Field(w, 6, 0) = \h4F
  PROVE  decode(w) = Fused(w, "Fnmadd")
BY SMTT(30) DEF decode

LEMMA DecodeAuipc ==
  ASSUME NEW w, Field(w, 6, 0) = \h17
  PROVE  decode(w) = Op("Auipc", [rd |-> rd(w), imm |-> u_imm(w)])
BY SMTT(30) DEF decode

LEMMA DecodeOpFp ==
  ASSUME NEW w, Field(w, 6, 0) = \h53
  PROVE  decode(w) = OpFp(w)
BY SMTT(30) DEF decode

LEMMA DecodeBranch ==
  ASSUME NEW w, Field(w, 6, 0) = \h63
  PROVE  decode(w) = Op(At(BranchNames, funct3(w)), SI(rs1(w), rs2(w), b_imm(w)))
BY SMTT(30) DEF decode, BranchNames

LEMMA DecodeJal ==
  ASSUME NEW w, Field(w, 6, 0) = \h6F
  PROVE  decode(w) = Op("Jal", [rd |-> rd(w), imm |-> j_imm(w)])
BY SMTT(30) DEF decode

LEMMA DecodeSystem ==
  ASSUME NEW w, Field(w, 6, 0) = \h73
  PROVE  decode(w) = System(w)
BY SMTT(30) DEF decode

LEMMA DecodeOther ==
  ASSUME NEW w,
         Field(w, 6, 0) \notin {\h03, \h07, \h0F, \h13, \h17, \h1B, \h23, \h27, \h2F, \h33, \h37,
                               \h3B, \h43, \h47, \h4B, \h4F, \h53, \h63, \h67, \h6F, \h73}
  PROVE  decode(w) = Illegal
BY SMTT(30) DEF decode

\* The opcode of the instruction a name stands for.
OpcodeOf(name) ==
  CASE name \in {"Lb", "Lh", "Lw", "Ld", "Lbu", "Lhu", "Lwu"} -> \h03
    [] name \in {"Flw", "Fld"} -> \h07
    [] name \in {"Addi", "Slti", "Sltiu", "Xori", "Ori", "Andi", "Slli", "Srli", "Srai"} -> \h13
    [] name \in {"Auipc"} -> \h17
    [] name \in {"Addiw", "Slliw", "Srliw", "Sraiw"} -> \h1B
    [] name \in {"Sb", "Sh", "Sw", "Sd"} -> \h23
    [] name \in {"Fsw", "Fsd"} -> \h27
    [] name \in {"Amoadd", "Amoswap", "Lr", "Sc", "Amoxor", "Amoor", "Amoand", "Amomin",
                 "Amomax", "Amominu", "Amomaxu"} -> \h2F
    [] name \in {"Mul", "Mulh", "Mulhsu", "Mulhu", "Div", "Divu", "Rem", "Remu", "Add", "Sll",
                 "Slt", "Sltu", "Xor", "Srl", "Or", "And", "Sub", "Sra"} -> \h33
    [] name \in {"Lui"} -> \h37
    [] name \in {"Mulw", "Divw", "Divuw", "Remw", "Remuw", "Addw", "Sllw", "Srlw", "Subw",
                 "Sraw"} -> \h3B
    [] name \in {"Fmadd"} -> \h43
    [] name \in {"Fmsub"} -> \h47
    [] name \in {"Fnmsub"} -> \h4B
    [] name \in {"Fnmadd"} -> \h4F
    [] name \in {"Fadd", "Fsub", "Fmul", "Fdiv", "Fsqrt", "Fsgnj", "Fsgnjn", "Fsgnjx", "Fmin",
                 "Fmax", "Fcvt", "FcvtW", "FcvtWu", "FcvtL", "FcvtLu", "FmvX", "Fclass", "Fle",
                 "Flt", "Feq", "FcvtFW", "FcvtFWu", "FcvtFL", "FcvtFLu", "FmvF"} -> \h53
    [] name \in {"Beq", "Bne", "Blt", "Bge", "Bltu", "Bgeu"} -> \h63
    [] name \in {"Jal"} -> \h6F
    [] name \in {"Ecall", "Ebreak", "Mret", "Sret", "Wfi", "SfenceVma", "Csrrw", "Csrrs",
                 "Csrrc", "Csrrwi", "Csrrsi", "Csrrci"} -> \h73


\* For each opcode: every name decode gives to it is a name of this opcode alone,
\* and two instructions of this opcode that decode alike are equal.
LEMMA LoadOpcode ==
  ASSUME NEW w \in Word, Field(w, 6, 0) = \h03, decode(w) # Illegal
  PROVE  OpcodeOf(decode(w).op) = \h03
<1>1. decode(w).op = At(LoadNames, funct3(w)) /\ At(LoadNames, funct3(w)) # "-"
  BY DecodeLoad, OpName
<1>2. \A e \in 0..7 : At(LoadNames, e) # "-"
         => At(LoadNames, e) \in {"Lb", "Lh", "Lw", "Ld", "Lbu", "Lhu", "Lwu"}
  BY DEF At, LoadNames
<1>3. \A n \in {"Lb", "Lh", "Lw", "Ld", "Lbu", "Lhu", "Lwu"} : OpcodeOf(n) = \h03
  BY DEF OpcodeOf
<1> QED BY <1>1, <1>2, <1>3, FieldRanges, Zenon

LEMMA LoadAlike ==
  ASSUME NEW v \in Word, NEW w \in Word, Field(v, 6, 0) = \h03, Field(w, 6, 0) = \h03,
         decode(v) = decode(w), decode(v) # Illegal
  PROVE  v = w
<1>1. /\ decode(v) = Op(At(LoadNames, funct3(v)), RI(rd(v), rs1(v), i_imm(v)))
      /\ decode(w) = Op(At(LoadNames, funct3(w)), RI(rd(w), rs1(w), i_imm(w)))
  BY DecodeLoad, Zenon
<1>2. /\ At(LoadNames, funct3(v)) = At(LoadNames, funct3(w)) /\ At(LoadNames, funct3(v)) # "-"
      /\ RI(rd(v), rs1(v), i_imm(v)) = RI(rd(w), rs1(w), i_imm(w))
  <2>1. Alike(At(LoadNames, funct3(v)), RI(rd(v), rs1(v), i_imm(v)),
              At(LoadNames, funct3(w)), RI(rd(w), rs1(w), i_imm(w)))
    BY <1>1, Zenon DEF Alike
  <2> QED BY <2>1, OpAlike
<1>3. \A e, e2 \in 0..7 : At(LoadNames, e) = At(LoadNames, e2) /\ At(LoadNames, e) # "-" => e = e2
  BY DEF At, LoadNames
<1>4. funct3(v) = funct3(w)
  BY <1>2, <1>3, FieldRanges, Zenon
<1>5. rd(v) = rd(w) /\ rs1(v) = rs1(w) /\ i_imm(v) = i_imm(w)
  BY <1>2 DEF RI
<1> QED BY <1>4, <1>5, Formats, Zenon

LEMMA FloatLoadOpcode ==
  ASSUME NEW w \in Word, Field(w, 6, 0) = \h07, decode(w) # Illegal
  PROVE  OpcodeOf(decode(w).op) = \h07
<1>1. decode(w).op = At(FloatLoadNames, funct3(w)) /\ At(FloatLoadNames, funct3(w)) # "-"
  BY DecodeFloatLoad, OpName
<1>2. \A e \in 0..7 : At(FloatLoadNames, e) # "-" => At(FloatLoadNames, e) \in {"Flw", "Fld"}
  BY DEF At, FloatLoadNames
<1>3. \A n \in {"Flw", "Fld"} : OpcodeOf(n) = \h07
  BY DEF OpcodeOf
<1> QED BY <1>1, <1>2, <1>3, FieldRanges, Zenon

LEMMA FloatLoadAlike ==
  ASSUME NEW v \in Word, NEW w \in Word, Field(v, 6, 0) = \h07, Field(w, 6, 0) = \h07,
         decode(v) = decode(w), decode(v) # Illegal
  PROVE  v = w
<1>1. /\ decode(v) = Op(At(FloatLoadNames, funct3(v)), FI(rd(v), rs1(v), i_imm(v)))
      /\ decode(w) = Op(At(FloatLoadNames, funct3(w)), FI(rd(w), rs1(w), i_imm(w)))
  BY DecodeFloatLoad, Zenon
<1>2. /\ At(FloatLoadNames, funct3(v)) = At(FloatLoadNames, funct3(w))
            /\ At(FloatLoadNames, funct3(v)) # "-"
      /\ FI(rd(v), rs1(v), i_imm(v)) = FI(rd(w), rs1(w), i_imm(w))
  <2>1. Alike(At(FloatLoadNames, funct3(v)), FI(rd(v), rs1(v), i_imm(v)),
              At(FloatLoadNames, funct3(w)), FI(rd(w), rs1(w), i_imm(w)))
    BY <1>1, Zenon DEF Alike
  <2> QED BY <2>1, OpAlike
<1>3. \A e, e2 \in 0..7 : At(FloatLoadNames, e) = At(FloatLoadNames, e2)
         /\ At(FloatLoadNames, e) # "-" => e = e2
  BY DEF At, FloatLoadNames
<1>4. funct3(v) = funct3(w)
  BY <1>2, <1>3, FieldRanges, Zenon
<1>5. rd(v) = rd(w) /\ rs1(v) = rs1(w) /\ i_imm(v) = i_imm(w)
  BY <1>2 DEF FI
<1> QED BY <1>4, <1>5, Formats, Zenon

LEMMA StoreOpcode ==
  ASSUME NEW w \in Word, Field(w, 6, 0) = \h23, decode(w) # Illegal
  PROVE  OpcodeOf(decode(w).op) = \h23
<1>1. decode(w).op = At(StoreNames, funct3(w)) /\ At(StoreNames, funct3(w)) # "-"
  BY DecodeStore, OpName
<1>2. \A e \in 0..7 : At(StoreNames, e) # "-" => At(StoreNames, e) \in {"Sb", "Sh", "Sw", "Sd"}
  BY DEF At, StoreNames
<1>3. \A n \in {"Sb", "Sh", "Sw", "Sd"} : OpcodeOf(n) = \h23
  BY DEF OpcodeOf
<1> QED BY <1>1, <1>2, <1>3, FieldRanges, Zenon

LEMMA StoreAlike ==
  ASSUME NEW v \in Word, NEW w \in Word, Field(v, 6, 0) = \h23, Field(w, 6, 0) = \h23,
         decode(v) = decode(w), decode(v) # Illegal
  PROVE  v = w
<1>1. /\ decode(v) = Op(At(StoreNames, funct3(v)), SI(rs1(v), rs2(v), s_imm(v)))
      /\ decode(w) = Op(At(StoreNames, funct3(w)), SI(rs1(w), rs2(w), s_imm(w)))
  BY DecodeStore, Zenon
<1>2. /\ At(StoreNames, funct3(v)) = At(StoreNames, funct3(w)) /\ At(StoreNames, funct3(v)) # "-"
      /\ SI(rs1(v), rs2(v), s_imm(v)) = SI(rs1(w), rs2(w), s_imm(w))
  <2>1. Alike(At(StoreNames, funct3(v)), SI(rs1(v), rs2(v), s_imm(v)),
              At(StoreNames, funct3(w)), SI(rs1(w), rs2(w), s_imm(w)))
    BY <1>1, Zenon DEF Alike
  <2> QED BY <2>1, OpAlike
<1>3. \A e, e2 \in 0..7 : At(StoreNames, e) = At(StoreNames, e2) /\ At(StoreNames, e) # "-"
         => e = e2
  BY DEF At, StoreNames
<1>4. funct3(v) = funct3(w)
  BY <1>2, <1>3, FieldRanges, Zenon
<1>5. rs1(v) = rs1(w) /\ rs2(v) = rs2(w) /\ s_imm(v) = s_imm(w)
  BY <1>2 DEF SI
<1> QED BY <1>4, <1>5, Formats, Zenon

LEMMA FloatStoreOpcode ==
  ASSUME NEW w \in Word, Field(w, 6, 0) = \h27, decode(w) # Illegal
  PROVE  OpcodeOf(decode(w).op) = \h27
<1>1. decode(w).op = At(FloatStoreNames, funct3(w)) /\ At(FloatStoreNames, funct3(w)) # "-"
  BY DecodeFloatStore, OpName
<1>2. \A e \in 0..7 : At(FloatStoreNames, e) # "-" => At(FloatStoreNames, e) \in {"Fsw", "Fsd"}
  BY DEF At, FloatStoreNames
<1>3. \A n \in {"Fsw", "Fsd"} : OpcodeOf(n) = \h27
  BY DEF OpcodeOf
<1> QED BY <1>1, <1>2, <1>3, FieldRanges, Zenon

LEMMA FloatStoreAlike ==
  ASSUME NEW v \in Word, NEW w \in Word, Field(v, 6, 0) = \h27, Field(w, 6, 0) = \h27,
         decode(v) = decode(w), decode(v) # Illegal
  PROVE  v = w
<1>1. /\ decode(v) = Op(At(FloatStoreNames, funct3(v)), FSI(rs1(v), rs2(v), s_imm(v)))
      /\ decode(w) = Op(At(FloatStoreNames, funct3(w)), FSI(rs1(w), rs2(w), s_imm(w)))
  BY DecodeFloatStore, Zenon
<1>2. /\ At(FloatStoreNames, funct3(v)) = At(FloatStoreNames, funct3(w))
            /\ At(FloatStoreNames, funct3(v)) # "-"
      /\ FSI(rs1(v), rs2(v), s_imm(v)) = FSI(rs1(w), rs2(w), s_imm(w))
  <2>1. Alike(At(FloatStoreNames, funct3(v)), FSI(rs1(v), rs2(v), s_imm(v)),
              At(FloatStoreNames, funct3(w)), FSI(rs1(w), rs2(w), s_imm(w)))
    BY <1>1, Zenon DEF Alike
  <2> QED BY <2>1, OpAlike
<1>3. \A e, e2 \in 0..7 : At(FloatStoreNames, e) = At(FloatStoreNames, e2)
         /\ At(FloatStoreNames, e) # "-" => e = e2
  BY DEF At, FloatStoreNames
<1>4. funct3(v) = funct3(w)
  BY <1>2, <1>3, FieldRanges, Zenon
<1>5. rs1(v) = rs1(w) /\ rs2(v) = rs2(w) /\ s_imm(v) = s_imm(w)
  BY <1>2 DEF FSI
<1> QED BY <1>4, <1>5, Formats, Zenon

LEMMA BranchOpcode ==
  ASSUME NEW w \in Word, Field(w, 6, 0) = \h63, decode(w) # Illegal
  PROVE  OpcodeOf(decode(w).op) = \h63
<1>1. decode(w).op = At(BranchNames, funct3(w)) /\ At(BranchNames, funct3(w)) # "-"
  BY DecodeBranch, OpName
<1>2. \A e \in 0..7 : At(BranchNames, e) # "-"
         => At(BranchNames, e) \in {"Beq", "Bne", "Blt", "Bge", "Bltu", "Bgeu"}
  BY DEF At, BranchNames
<1>3. \A n \in {"Beq", "Bne", "Blt", "Bge", "Bltu", "Bgeu"} : OpcodeOf(n) = \h63
  BY DEF OpcodeOf
<1> QED BY <1>1, <1>2, <1>3, FieldRanges, Zenon

LEMMA BranchAlike ==
  ASSUME NEW v \in Word, NEW w \in Word, Field(v, 6, 0) = \h63, Field(w, 6, 0) = \h63,
         decode(v) = decode(w), decode(v) # Illegal
  PROVE  v = w
<1>1. /\ decode(v) = Op(At(BranchNames, funct3(v)), SI(rs1(v), rs2(v), b_imm(v)))
      /\ decode(w) = Op(At(BranchNames, funct3(w)), SI(rs1(w), rs2(w), b_imm(w)))
  BY DecodeBranch, Zenon
<1>2. /\ At(BranchNames, funct3(v)) = At(BranchNames, funct3(w)) /\ At(BranchNames, funct3(v)) # "-"
      /\ SI(rs1(v), rs2(v), b_imm(v)) = SI(rs1(w), rs2(w), b_imm(w))
  <2>1. Alike(At(BranchNames, funct3(v)), SI(rs1(v), rs2(v), b_imm(v)),
              At(BranchNames, funct3(w)), SI(rs1(w), rs2(w), b_imm(w)))
    BY <1>1, Zenon DEF Alike
  <2> QED BY <2>1, OpAlike
<1>3. \A e, e2 \in 0..7 : At(BranchNames, e) = At(BranchNames, e2) /\ At(BranchNames, e) # "-"
         => e = e2
  BY DEF At, BranchNames
<1>4. funct3(v) = funct3(w)
  BY <1>2, <1>3, FieldRanges, Zenon
<1>5. rs1(v) = rs1(w) /\ rs2(v) = rs2(w) /\ b_imm(v) = b_imm(w)
  BY <1>2 DEF SI
<1> QED BY <1>4, <1>5, Formats, Zenon

LEMMA LuiOpcode ==
  ASSUME NEW w \in Word, Field(w, 6, 0) = \h37
  PROVE  OpcodeOf(decode(w).op) = \h37
<1>1. decode(w).op = "Lui"
  BY DecodeLui DEF Op
<1> QED BY <1>1 DEF OpcodeOf

LEMMA LuiAlike ==
  ASSUME NEW v \in Word, NEW w \in Word, Field(v, 6, 0) = \h37, Field(w, 6, 0) = \h37,
         decode(v) = decode(w), decode(v) # Illegal
  PROVE  v = w
<1>1. /\ decode(v) = Op("Lui", [rd |-> rd(v), imm |-> u_imm(v)])
      /\ decode(w) = Op("Lui", [rd |-> rd(w), imm |-> u_imm(w)])
  BY DecodeLui, Zenon
<1>2. [rd |-> rd(v), imm |-> u_imm(v)] = [rd |-> rd(w), imm |-> u_imm(w)]
  <2>1. Alike("Lui", [rd |-> rd(v), imm |-> u_imm(v)], "Lui", [rd |-> rd(w), imm |-> u_imm(w)])
    BY <1>1, Zenon DEF Alike
  <2> QED BY <2>1, OpAlike
<1>3. rd(v) = rd(w) /\ u_imm(v) = u_imm(w)
  BY <1>2
<1> QED BY <1>3, Formats, Zenon

LEMMA AuipcOpcode ==
  ASSUME NEW w \in Word, Field(w, 6, 0) = \h17
  PROVE  OpcodeOf(decode(w).op) = \h17
<1>1. decode(w).op = "Auipc"
  BY DecodeAuipc DEF Op
<1> QED BY <1>1 DEF OpcodeOf

LEMMA AuipcAlike ==
  ASSUME NEW v \in Word, NEW w \in Word, Field(v, 6, 0) = \h17, Field(w, 6, 0) = \h17,
         decode(v) = decode(w), decode(v) # Illegal
  PROVE  v = w
<1>1. /\ decode(v) = Op("Auipc", [rd |-> rd(v), imm |-> u_imm(v)])
      /\ decode(w) = Op("Auipc", [rd |-> rd(w), imm |-> u_imm(w)])
  BY DecodeAuipc, Zenon
<1>2. [rd |-> rd(v), imm |-> u_imm(v)] = [rd |-> rd(w), imm |-> u_imm(w)]
  <2>1. Alike("Auipc", [rd |-> rd(v), imm |-> u_imm(v)], "Auipc", [rd |-> rd(w), imm |-> u_imm(w)])
    BY <1>1, Zenon DEF Alike
  <2> QED BY <2>1, OpAlike
<1>3. rd(v) = rd(w) /\ u_imm(v) = u_imm(w)
  BY <1>2
<1> QED BY <1>3, Formats, Zenon

LEMMA JalOpcode ==
  ASSUME NEW w \in Word, Field(w, 6, 0) = \h6F
  PROVE  OpcodeOf(decode(w).op) = \h6F
<1>1. decode(w).op = "Jal"
  BY DecodeJal DEF Op
<1> QED BY <1>1 DEF OpcodeOf

LEMMA JalAlike ==
  ASSUME NEW v \in Word, NEW w \in Word, Field(v, 6, 0) = \h6F, Field(w, 6, 0) = \h6F,
         decode(v) = decode(w), decode(v) # Illegal
  PROVE  v = w
<1>1. /\ decode(v) = Op("Jal", [rd |-> rd(v), imm |-> j_imm(v)])
      /\ decode(w) = Op("Jal", [rd |-> rd(w), imm |-> j_imm(w)])
  BY DecodeJal, Zenon
<1>2. [rd |-> rd(v), imm |-> j_imm(v)] = [rd |-> rd(w), imm |-> j_imm(w)]
  <2>1. Alike("Jal", [rd |-> rd(v), imm |-> j_imm(v)], "Jal", [rd |-> rd(w), imm |-> j_imm(w)])
    BY <1>1, Zenon DEF Alike
  <2> QED BY <2>1, OpAlike
<1>3. rd(v) = rd(w) /\ j_imm(v) = j_imm(w)
  BY <1>2
<1> QED BY <1>3, Formats, Zenon

\* The tables of OP and OP-32 name no two pairs of funct7 and funct3 alike.
LEMMA OpNamesAlike ==
  ASSUME NEW e \in 0..7, NEW g \in 0..127, At(OpNames(g), e) # "-"
  PROVE  /\ OpcodeOf(At(OpNames(g), e)) = \h33
         /\ \A e2 \in 0..7, g2 \in 0..127 :
              At(OpNames(g), e) = At(OpNames(g2), e2) => e = e2 /\ g = g2
<1> DEFINE M == {"Mul", "Mulh", "Mulhsu", "Mulhu", "Div", "Divu", "Rem", "Remu"}
           B == {"Add", "Sll", "Slt", "Sltu", "Xor", "Srl", "Or", "And"}
           A == {"Sub", "Sra"}
<1>1. \A h \in 0..127 : h \notin {0, 1, 32} => OpNames(h) = Reserved
  BY DEF OpNames
<1>2. OpNames(1) = <<"Mul", "Mulh", "Mulhsu", "Mulhu", "Div", "Divu", "Rem", "Remu">>
  BY DEF OpNames
<1>3. OpNames(0) = <<"Add", "Sll", "Slt", "Sltu", "Xor", "Srl", "Or", "And">>
  BY DEF OpNames
<1>4. OpNames(32) = <<"Sub", "-", "-", "-", "-", "Sra", "-", "-">>
  BY DEF OpNames
<1>5. \A k \in 0..7 : At(OpNames(1), k) \in M \cup {"-"}
  BY <1>2 DEF At
<1>6. \A k \in 0..7 : At(OpNames(0), k) \in B \cup {"-"}
  BY <1>3 DEF At
<1>7. \A k \in 0..7 : At(OpNames(32), k) \in A \cup {"-"}
  BY <1>4 DEF At
<1>8. \A h \in 0..127, k \in 0..7 : h \notin {0, 1, 32} => At(OpNames(h), k) = "-"
  BY <1>1 DEF At, Reserved
<1>9. \A n \in M : n \notin B /\ n \notin A /\ OpcodeOf(n) = \h33
  BY DEF OpcodeOf
<1>10. \A n \in B : n \notin A /\ OpcodeOf(n) = \h33
  BY DEF OpcodeOf
<1>11. \A n \in A : OpcodeOf(n) = \h33
  BY DEF OpcodeOf
<1>12. \A k, k2 \in 0..7 : At(OpNames(1), k) # "-" /\ At(OpNames(1), k) = At(OpNames(1), k2)
          => k = k2
  BY <1>2 DEF At
<1>13. \A k, k2 \in 0..7 : At(OpNames(0), k) # "-" /\ At(OpNames(0), k) = At(OpNames(0), k2)
          => k = k2
  BY <1>3 DEF At
<1>14. \A k, k2 \in 0..7 : At(OpNames(32), k) # "-"
          /\ At(OpNames(32), k) = At(OpNames(32), k2) => k = k2
  BY <1>4 DEF At
<1> HIDE DEF M, B, A
<1>15. ASSUME NEW h \in 0..127, NEW k \in 0..7, At(OpNames(h), k) # "-"
       PROVE  \/ h = 1 /\ At(OpNames(h), k) \in M
              \/ h = 0 /\ At(OpNames(h), k) \in B
              \/ h = 32 /\ At(OpNames(h), k) \in A
  <2>1. CASE h = 1
    BY <1>5, <1>15, <2>1
  <2>2. CASE h = 0
    BY <1>6, <1>15, <2>2
  <2>3. CASE h = 32
    BY <1>7, <1>15, <2>3
  <2>4. CASE h \notin {0, 1, 32}
    BY <1>8, <1>15, <2>4, Zenon
  <2> QED BY <2>1, <2>2, <2>3, <2>4, Zenon
<1>16. OpcodeOf(At(OpNames(g), e)) = \h33
  BY <1>9, <1>10, <1>11, <1>15, Zenon
<1>17. ASSUME NEW e2 \in 0..7, NEW g2 \in 0..127, At(OpNames(g), e) = At(OpNames(g2), e2)
       PROVE  e = e2 /\ g = g2
  <2>1. At(OpNames(g2), e2) # "-"
    BY <1>17, Zenon
  <2>2. \/ g = 1 /\ At(OpNames(g), e) \in M
        \/ g = 0 /\ At(OpNames(g), e) \in B
        \/ g = 32 /\ At(OpNames(g), e) \in A
    BY <1>15, Zenon
  <2>3. \/ g2 = 1 /\ At(OpNames(g), e) \in M
        \/ g2 = 0 /\ At(OpNames(g), e) \in B
        \/ g2 = 32 /\ At(OpNames(g), e) \in A
    BY <1>15, <1>17, <2>1, ZenonT(60)
  <2>4. g = g2
    BY <1>9, <1>10, <2>2, <2>3
  <2>5. At(OpNames(g), e) = At(OpNames(g), e2)
    BY <1>17, <2>4, Zenon
  <2>6. CASE g = 1
    BY <1>12, <2>4, <2>5, <2>6
  <2>7. CASE g = 0
    BY <1>13, <2>4, <2>5, <2>7
  <2>8. CASE g = 32
    BY <1>14, <2>4, <2>5, <2>8
  <2> QED BY <2>2, <2>6, <2>7, <2>8, Zenon
<1> QED BY <1>16, <1>17, Zenon

LEMMA AluOpcode ==
  ASSUME NEW w \in Word, Field(w, 6, 0) = \h33, decode(w) # Illegal
  PROVE  OpcodeOf(decode(w).op) = \h33
<1>1. /\ decode(w).op = At(OpNames(funct7(w)), funct3(w))
      /\ At(OpNames(funct7(w)), funct3(w)) # "-"
  BY DecodeAlu, OpName
<1>2. funct3(w) \in 0..7 /\ funct7(w) \in 0..127
  BY FieldRanges, Zenon
<1> QED BY <1>1, <1>2, OpNamesAlike, ZenonT(60)

LEMMA AluAlike ==
  ASSUME NEW v \in Word, NEW w \in Word, Field(v, 6, 0) = \h33, Field(w, 6, 0) = \h33,
         decode(v) = decode(w), decode(v) # Illegal
  PROVE  v = w
<1>1. /\ decode(v) = Op(At(OpNames(funct7(v)), funct3(v)), RR(rd(v), rs1(v), rs2(v)))
      /\ decode(w) = Op(At(OpNames(funct7(w)), funct3(w)), RR(rd(w), rs1(w), rs2(w)))
  BY DecodeAlu, Zenon
<1>2. Alike(At(OpNames(funct7(v)), funct3(v)), RR(rd(v), rs1(v), rs2(v)),
            At(OpNames(funct7(w)), funct3(w)), RR(rd(w), rs1(w), rs2(w)))
  BY <1>1, Zenon DEF Alike
<1>3. /\ At(OpNames(funct7(v)), funct3(v)) = At(OpNames(funct7(w)), funct3(w))
      /\ At(OpNames(funct7(v)), funct3(v)) # "-"
      /\ RR(rd(v), rs1(v), rs2(v)) = RR(rd(w), rs1(w), rs2(w))
  BY <1>2, OpAlike
<1>4. funct3(v) = funct3(w) /\ funct7(v) = funct7(w)
  <2>1. funct3(v) \in 0..7 /\ funct7(v) \in 0..127 /\ funct3(w) \in 0..7 /\ funct7(w) \in 0..127
    BY FieldRanges, Zenon
  <2> QED BY <1>3, <2>1, OpNamesAlike, ZenonT(60)
<1>5. rd(v) = rd(w) /\ rs1(v) = rs1(w) /\ rs2(v) = rs2(w)
  BY <1>3 DEF RR
<1> QED BY <1>4, <1>5, Formats, Zenon

LEMMA Op32NamesAlike ==
  ASSUME NEW e \in 0..7, NEW g \in 0..127, At(Op32Names(g), e) # "-"
  PROVE  /\ OpcodeOf(At(Op32Names(g), e)) = \h3B
         /\ \A e2 \in 0..7, g2 \in 0..127 :
              At(Op32Names(g), e) = At(Op32Names(g2), e2) => e = e2 /\ g = g2
<1> DEFINE M == {"Mulw", "Divw", "Divuw", "Remw", "Remuw"}
           B == {"Addw", "Sllw", "Srlw"}
           A == {"Subw", "Sraw"}
<1>1. \A h \in 0..127 : h \notin {0, 1, 32} => Op32Names(h) = Reserved
  BY DEF Op32Names
<1>2. Op32Names(1) = <<"Mulw", "-", "-", "-", "Divw", "Divuw", "Remw", "Remuw">>
  BY DEF Op32Names
<1>3. Op32Names(0) = <<"Addw", "Sllw", "-", "-", "-", "Srlw", "-", "-">>
  BY DEF Op32Names
<1>4. Op32Names(32) = <<"Subw", "-", "-", "-", "-", "Sraw", "-", "-">>
  BY DEF Op32Names
<1>5. \A k \in 0..7 : At(Op32Names(1), k) \in M \cup {"-"}
  BY <1>2 DEF At
<1>6. \A k \in 0..7 : At(Op32Names(0), k) \in B \cup {"-"}
  BY <1>3 DEF At
<1>7. \A k \in 0..7 : At(Op32Names(32), k) \in A \cup {"-"}
  BY <1>4 DEF At
<1>8. \A h \in 0..127, k \in 0..7 : h \notin {0, 1, 32} => At(Op32Names(h), k) = "-"
  BY <1>1 DEF At, Reserved
<1>9. \A n \in M : n \notin B /\ n \notin A /\ OpcodeOf(n) = \h3B
  BY DEF OpcodeOf
<1>10. \A n \in B : n \notin A /\ OpcodeOf(n) = \h3B
  BY DEF OpcodeOf
<1>11. \A n \in A : OpcodeOf(n) = \h3B
  BY DEF OpcodeOf
<1>12. \A k, k2 \in 0..7 : At(Op32Names(1), k) # "-"
          /\ At(Op32Names(1), k) = At(Op32Names(1), k2) => k = k2
  BY <1>2 DEF At
<1>13. \A k, k2 \in 0..7 : At(Op32Names(0), k) # "-"
          /\ At(Op32Names(0), k) = At(Op32Names(0), k2) => k = k2
  BY <1>3 DEF At
<1>14. \A k, k2 \in 0..7 : At(Op32Names(32), k) # "-"
          /\ At(Op32Names(32), k) = At(Op32Names(32), k2) => k = k2
  BY <1>4 DEF At
<1> HIDE DEF M, B, A
<1>15. ASSUME NEW h \in 0..127, NEW k \in 0..7, At(Op32Names(h), k) # "-"
       PROVE  \/ h = 1 /\ At(Op32Names(h), k) \in M
              \/ h = 0 /\ At(Op32Names(h), k) \in B
              \/ h = 32 /\ At(Op32Names(h), k) \in A
  <2>1. CASE h = 1
    BY <1>5, <1>15, <2>1
  <2>2. CASE h = 0
    BY <1>6, <1>15, <2>2
  <2>3. CASE h = 32
    BY <1>7, <1>15, <2>3
  <2>4. CASE h \notin {0, 1, 32}
    BY <1>8, <1>15, <2>4, Zenon
  <2> QED BY <2>1, <2>2, <2>3, <2>4, Zenon
<1>16. OpcodeOf(At(Op32Names(g), e)) = \h3B
  BY <1>9, <1>10, <1>11, <1>15, Zenon
<1>17. ASSUME NEW e2 \in 0..7, NEW g2 \in 0..127, At(Op32Names(g), e) = At(Op32Names(g2), e2)
       PROVE  e = e2 /\ g = g2
  <2>1. At(Op32Names(g2), e2) # "-"
    BY <1>17, Zenon
  <2>2. \/ g = 1 /\ At(Op32Names(g), e) \in M
        \/ g = 0 /\ At(Op32Names(g), e) \in B
        \/ g = 32 /\ At(Op32Names(g), e) \in A
    BY <1>15, Zenon
  <2>3. \/ g2 = 1 /\ At(Op32Names(g), e) \in M
        \/ g2 = 0 /\ At(Op32Names(g), e) \in B
        \/ g2 = 32 /\ At(Op32Names(g), e) \in A
    BY <1>15, <1>17, <2>1, ZenonT(60)
  <2>4. g = g2
    BY <1>9, <1>10, <2>2, <2>3
  <2>5. At(Op32Names(g), e) = At(Op32Names(g), e2)
    BY <1>17, <2>4, Zenon
  <2>6. CASE g = 1
    BY <1>12, <2>4, <2>5, <2>6
  <2>7. CASE g = 0
    BY <1>13, <2>4, <2>5, <2>7
  <2>8. CASE g = 32
    BY <1>14, <2>4, <2>5, <2>8
  <2> QED BY <2>2, <2>6, <2>7, <2>8, Zenon
<1> QED BY <1>16, <1>17, Zenon

LEMMA Alu32Opcode ==
  ASSUME NEW w \in Word, Field(w, 6, 0) = \h3B, decode(w) # Illegal
  PROVE  OpcodeOf(decode(w).op) = \h3B
<1>1. /\ decode(w).op = At(Op32Names(funct7(w)), funct3(w))
      /\ At(Op32Names(funct7(w)), funct3(w)) # "-"
  BY DecodeAlu32, OpName
<1>2. funct3(w) \in 0..7 /\ funct7(w) \in 0..127
  BY FieldRanges, Zenon
<1> QED BY <1>1, <1>2, Op32NamesAlike, ZenonT(60)

LEMMA Alu32Alike ==
  ASSUME NEW v \in Word, NEW w \in Word, Field(v, 6, 0) = \h3B, Field(w, 6, 0) = \h3B,
         decode(v) = decode(w), decode(v) # Illegal
  PROVE  v = w
<1>1. /\ decode(v) = Op(At(Op32Names(funct7(v)), funct3(v)), RR(rd(v), rs1(v), rs2(v)))
      /\ decode(w) = Op(At(Op32Names(funct7(w)), funct3(w)), RR(rd(w), rs1(w), rs2(w)))
  BY DecodeAlu32, Zenon
<1>2. Alike(At(Op32Names(funct7(v)), funct3(v)), RR(rd(v), rs1(v), rs2(v)),
            At(Op32Names(funct7(w)), funct3(w)), RR(rd(w), rs1(w), rs2(w)))
  BY <1>1, Zenon DEF Alike
<1>3. /\ At(Op32Names(funct7(v)), funct3(v)) = At(Op32Names(funct7(w)), funct3(w))
      /\ At(Op32Names(funct7(v)), funct3(v)) # "-"
      /\ RR(rd(v), rs1(v), rs2(v)) = RR(rd(w), rs1(w), rs2(w))
  BY <1>2, OpAlike
<1>4. funct3(v) = funct3(w) /\ funct7(v) = funct7(w)
  <2>1. funct3(v) \in 0..7 /\ funct7(v) \in 0..127 /\ funct3(w) \in 0..7 /\ funct7(w) \in 0..127
    BY FieldRanges, Zenon
  <2> QED BY <1>3, <2>1, Op32NamesAlike, ZenonT(60)
<1>5. rd(v) = rd(w) /\ rs1(v) = rs1(w) /\ rs2(v) = rs2(w)
  BY <1>3 DEF RR
<1> QED BY <1>4, <1>5, Formats, Zenon

LEMMA RoundedName ==
  ASSUME NEW w, NEW n, NEW a, Rounded(w, n, a) # Illegal
  PROVE  n # "-" /\ Rounded(w, n, a).op = n
BY DEF Rounded, Op, Illegal

AlikeRounded(v, n, a, w, n2, a2) ==
  Rounded(v, n, a) = Rounded(w, n2, a2) /\ Rounded(v, n, a) # Illegal

\* Operations with a rounding mode (rm!): the mode is an operand.
LEMMA RoundedAlike ==
  ASSUME NEW v, NEW w, NEW n, NEW n2, NEW a, NEW a2, AlikeRounded(v, n, a, w, n2, a2)
  PROVE  n = n2 /\ a = a2 /\ n # "-" /\ funct3(v) = funct3(w)
<1> DEFINE Name(x, m) == IF funct3(x) \in {5, 6} THEN "-" ELSE m
           Args(x, b) == [rm |-> funct3(x), of |-> b]
<1>1. Rounded(v, n, a) = Op(Name(v, n), Args(v, a))
         /\ Rounded(w, n2, a2) = Op(Name(w, n2), Args(w, a2))
  BY Zenon DEF Rounded
<1>2. Alike(Name(v, n), Args(v, a), Name(w, n2), Args(w, a2))
  BY <1>1, Zenon DEF Alike, AlikeRounded
<1>3. Name(v, n) = Name(w, n2) /\ Args(v, a) = Args(w, a2) /\ Name(v, n) # "-"
  <2> HIDE DEF Name, Args
  <2> QED BY <1>2, OpAlike
<1>4. Name(v, n) = n /\ Name(w, n2) = n2
  BY <1>3, Zenon
<1>5. a = a2 /\ funct3(v) = funct3(w)
  BY <1>3
<1> QED BY <1>3, <1>4, <1>5, Zenon

\* The format of a fused operation is the lower of the two bits it is told by.
LEMMA FormatBit ==
  ASSUME NEW w \in Word
  PROVE  Field(w, 25, 25) = Field(w, 26, 25) % 2
<1>1. w.hi \in Half
  BY Zenon DEF Word
<1>2. \A b \in Half : Bits(b, 9, 9) = Bits(b, 10, 9) % 2
  BY DEF Bits, Half
<1>3. Field(w, 25, 25) = Bits(w.hi, 9, 9) /\ Field(w, 26, 25) = Bits(w.hi, 10, 9)
  BY DEF Field
<1> QED BY <1>1, <1>2, <1>3, Zenon

LEMMA FusedAlike ==
  ASSUME NEW v \in Word, NEW w \in Word, NEW n, Field(v, 6, 0) = Field(w, 6, 0),
         Fused(v, n) = Fused(w, n), Fused(v, n) # Illegal
  PROVE  v = w
<1> DEFINE Name(x) == IF Field(x, 26, 25) \notin {0, 1} THEN "-" ELSE n
           Args(x) == [frd |-> rd(x), frs1 |-> rs1(x), frs2 |-> rs2(x), frs3 |-> rs3(x),
                       fmt |-> Field(x, 25, 25)]
<1>1. Fused(v, n) = Rounded(v, Name(v), Args(v)) /\ Fused(w, n) = Rounded(w, Name(w), Args(w))
  BY Zenon DEF Fused
<1>2. Name(v) = Name(w) /\ Args(v) = Args(w) /\ Name(v) # "-" /\ funct3(v) = funct3(w)
  <2> HIDE DEF Name, Args
  <2>1. AlikeRounded(v, Name(v), Args(v), w, Name(w), Args(w))
    BY <1>1, Zenon DEF AlikeRounded
  <2> QED BY <2>1, RoundedAlike
<1>3. Field(v, 26, 25) \in {0, 1} /\ Field(w, 26, 25) \in {0, 1}
  BY <1>2, Zenon
<1>4. /\ rd(v) = rd(w) /\ rs1(v) = rs1(w) /\ rs2(v) = rs2(w) /\ rs3(v) = rs3(w)
      /\ Field(v, 25, 25) = Field(w, 25, 25)
  BY <1>2
<1>5. Field(v, 25, 25) = Field(v, 26, 25) % 2 /\ Field(w, 25, 25) = Field(w, 26, 25) % 2
  BY FormatBit, Zenon
<1>6. Field(v, 26, 25) = Field(w, 26, 25)
  BY <1>3, <1>4, <1>5
<1>7. Field(v, 31, 27) = Field(w, 31, 27)
  BY <1>4, Zenon DEF rs3
<1> QED BY <1>2, <1>4, <1>6, <1>7, Formats, Zenon

LEMMA FusedName ==
  ASSUME NEW w, NEW n, Fused(w, n) # Illegal
  PROVE  Fused(w, n).op = n
<1> DEFINE Name == IF Field(w, 26, 25) \notin {0, 1} THEN "-" ELSE n
           Args == [frd |-> rd(w), frs1 |-> rs1(w), frs2 |-> rs2(w), frs3 |-> rs3(w),
                    fmt |-> Field(w, 25, 25)]
<1>1. Fused(w, n) = Rounded(w, Name, Args)
  BY Zenon DEF Fused
<1>2. Name # "-" /\ Fused(w, n).op = Name
  <2> HIDE DEF Name, Args
  <2> QED BY <1>1, RoundedName
<1> QED BY <1>2, Zenon

LEMMA FmaddOpcode ==
  ASSUME NEW w \in Word, Field(w, 6, 0) = \h43, decode(w) # Illegal
  PROVE  OpcodeOf(decode(w).op) = \h43
<1>1. decode(w).op = "Fmadd"
  BY DecodeFmadd, FusedName
<1> QED BY <1>1 DEF OpcodeOf

LEMMA FmaddAlike ==
  ASSUME NEW v \in Word, NEW w \in Word, Field(v, 6, 0) = \h43, Field(w, 6, 0) = \h43,
         decode(v) = decode(w), decode(v) # Illegal
  PROVE  v = w
<1>1. decode(v) = Fused(v, "Fmadd") /\ decode(w) = Fused(w, "Fmadd")
  BY DecodeFmadd, Zenon
<1> QED BY <1>1, FusedAlike, Zenon

LEMMA FmsubOpcode ==
  ASSUME NEW w \in Word, Field(w, 6, 0) = \h47, decode(w) # Illegal
  PROVE  OpcodeOf(decode(w).op) = \h47
<1>1. decode(w).op = "Fmsub"
  BY DecodeFmsub, FusedName
<1> QED BY <1>1 DEF OpcodeOf

LEMMA FmsubAlike ==
  ASSUME NEW v \in Word, NEW w \in Word, Field(v, 6, 0) = \h47, Field(w, 6, 0) = \h47,
         decode(v) = decode(w), decode(v) # Illegal
  PROVE  v = w
<1>1. decode(v) = Fused(v, "Fmsub") /\ decode(w) = Fused(w, "Fmsub")
  BY DecodeFmsub, Zenon
<1> QED BY <1>1, FusedAlike, Zenon

LEMMA FnmsubOpcode ==
  ASSUME NEW w \in Word, Field(w, 6, 0) = \h4B, decode(w) # Illegal
  PROVE  OpcodeOf(decode(w).op) = \h4B
<1>1. decode(w).op = "Fnmsub"
  BY DecodeFnmsub, FusedName
<1> QED BY <1>1 DEF OpcodeOf

LEMMA FnmsubAlike ==
  ASSUME NEW v \in Word, NEW w \in Word, Field(v, 6, 0) = \h4B, Field(w, 6, 0) = \h4B,
         decode(v) = decode(w), decode(v) # Illegal
  PROVE  v = w
<1>1. decode(v) = Fused(v, "Fnmsub") /\ decode(w) = Fused(w, "Fnmsub")
  BY DecodeFnmsub, Zenon
<1> QED BY <1>1, FusedAlike, Zenon

LEMMA FnmaddOpcode ==
  ASSUME NEW w \in Word, Field(w, 6, 0) = \h4F, decode(w) # Illegal
  PROVE  OpcodeOf(decode(w).op) = \h4F
<1>1. decode(w).op = "Fnmadd"
  BY DecodeFnmadd, FusedName
<1> QED BY <1>1 DEF OpcodeOf

LEMMA FnmaddAlike ==
  ASSUME NEW v \in Word, NEW w \in Word, Field(v, 6, 0) = \h4F, Field(w, 6, 0) = \h4F,
         decode(v) = decode(w), decode(v) # Illegal
  PROVE  v = w
<1>1. decode(v) = Fused(v, "Fnmadd") /\ decode(w) = Fused(w, "Fnmadd")
  BY DecodeFnmadd, Zenon
<1> QED BY <1>1, FusedAlike, Zenon

AmoSet == {"Amoadd", "Amoswap", "Lr", "Sc", "Amoxor", "Amoor", "Amoand", "Amomin", "Amomax",
           "Amominu", "Amomaxu"}

\* No two functions of the A extension have one name.
LEMMA AmoNames ==
  /\ \A f \in 0..31 : AmoName(f) \in AmoSet \cup {"-"}
  /\ \A f, g \in 0..31 : AmoName(f) # "-" /\ AmoName(f) = AmoName(g) => f = g
  /\ \A n \in AmoSet : OpcodeOf(n) = \h2F
<1>1. \A f \in 0..31 : AmoName(f) \in AmoSet \cup {"-"}
  BY DEF AmoName, AmoSet
<1>2. \A f, g \in 0..31 : AmoName(f) # "-" /\ AmoName(f) = AmoName(g) => f = g
  BY DEF AmoName
<1>3. \A n \in AmoSet : OpcodeOf(n) = \h2F
  BY DEF AmoSet, OpcodeOf
<1> QED BY <1>1, <1>2, <1>3, Zenon

AtomicName(w) ==
  IF funct3(w) \notin {2, 3} \/ (Field(w, 31, 27) = 2 /\ lr_illegal(w)) THEN "-"
  ELSE AmoName(Field(w, 31, 27))
AtomicOperands(w) ==
  [rd |-> rd(w), rs1 |-> rs1(w), aqrl |-> Field(w, 26, 25),
   fmt |-> IF funct3(w) = 2 THEN "W" ELSE "D"]
AtomicArgs(w) ==
  IF Field(w, 31, 27) = 2 THEN AtomicOperands(w)
  ELSE [rs2 |-> rs2(w), of |-> AtomicOperands(w)]

LEMMA AtomicIs ==
  ASSUME NEW w
  PROVE  Atomic(w) = Op(AtomicName(w), AtomicArgs(w))
BY Zenon DEF Atomic, AtomicName, AtomicArgs, AtomicOperands

LEMMA AtomicOpcode ==
  ASSUME NEW w \in Word, Field(w, 6, 0) = \h2F, decode(w) # Illegal
  PROVE  OpcodeOf(decode(w).op) = \h2F
<1>1. decode(w) = Op(AtomicName(w), AtomicArgs(w))
  BY DecodeAtomic, AtomicIs, Zenon
<1>2. decode(w).op = AtomicName(w) /\ AtomicName(w) # "-"
  BY <1>1, OpName
<1>3. AtomicName(w) = AmoName(Field(w, 31, 27))
  BY <1>2, Zenon DEF AtomicName
<1>4. Field(w, 31, 27) \in 0..31
  BY FieldRanges, Zenon
<1>5. AmoName(Field(w, 31, 27)) \in AmoSet
  BY <1>2, <1>3, <1>4, AmoNames
<1>6. OpcodeOf(AmoName(Field(w, 31, 27))) = \h2F
  BY <1>5, AmoNames
<1> QED BY <1>2, <1>3, <1>6, Zenon

LEMMA AtomicAlike ==
  ASSUME NEW v \in Word, NEW w \in Word, Field(v, 6, 0) = \h2F, Field(w, 6, 0) = \h2F,
         decode(v) = decode(w), decode(v) # Illegal
  PROVE  v = w
<1>1. decode(v) = Op(AtomicName(v), AtomicArgs(v)) /\ decode(w) = Op(AtomicName(w), AtomicArgs(w))
  BY DecodeAtomic, AtomicIs, Zenon
<1>2. Alike(AtomicName(v), AtomicArgs(v), AtomicName(w), AtomicArgs(w))
  BY <1>1, Zenon DEF Alike
<1>3. AtomicName(v) = AtomicName(w) /\ AtomicArgs(v) = AtomicArgs(w) /\ AtomicName(v) # "-"
  BY <1>2, OpAlike
<1>4. /\ AtomicName(v) = AmoName(Field(v, 31, 27)) /\ AtomicName(w) = AmoName(Field(w, 31, 27))
      /\ funct3(v) \in {2, 3} /\ funct3(w) \in {2, 3}
      /\ Field(v, 31, 27) = 2 => rs2(v) = 0
      /\ Field(w, 31, 27) = 2 => rs2(w) = 0
  BY <1>3, Zenon DEF AtomicName, lr_illegal
<1>5. Field(v, 31, 27) \in 0..31 /\ Field(w, 31, 27) \in 0..31
  BY FieldRanges, Zenon
<1>6. Field(v, 31, 27) = Field(w, 31, 27)
  BY <1>3, <1>4, <1>5, AmoNames, Zenon
<1>7. rs2(v) = rs2(w) /\ AtomicOperands(v) = AtomicOperands(w)
  <2>1. CASE Field(v, 31, 27) = 2
    BY <1>3, <1>4, <1>6, <2>1, Zenon DEF AtomicArgs
  <2>2. CASE Field(v, 31, 27) # 2
    <3>1. [rs2 |-> rs2(v), of |-> AtomicOperands(v)] = [rs2 |-> rs2(w), of |-> AtomicOperands(w)]
      BY <1>3, <1>6, <2>2, Zenon DEF AtomicArgs
    <3> QED BY <3>1
  <2> QED BY <2>1, <2>2, Zenon
<1>8. /\ rd(v) = rd(w) /\ rs1(v) = rs1(w) /\ Field(v, 26, 25) = Field(w, 26, 25)
      /\ (IF funct3(v) = 2 THEN "W" ELSE "D") = (IF funct3(w) = 2 THEN "W" ELSE "D")
  BY <1>7 DEF AtomicOperands
<1>9. funct3(v) = funct3(w)
  BY <1>4, <1>8
<1> QED BY <1>6, <1>7, <1>8, <1>9, Formats, Zenon

Amount(x) == x - 2^10 * Bits(x, 10, 10)

ShiftName(w, limit, left, logical, arithmetic) ==
  IF funct3(w) = 1 THEN IF i_imm(w) >= limit THEN "-" ELSE left
  ELSE IF Amount(i_imm(w)) >= limit THEN "-"
  ELSE IF Bits(i_imm(w), 10, 10) = 1 THEN arithmetic ELSE logical

ShiftAmount(w) == IF funct3(w) = 1 THEN i_imm(w) ELSE Amount(i_imm(w))

LEMMA ShiftIs ==
  ASSUME NEW w, NEW limit, NEW left, NEW logical, NEW arithmetic
  PROVE  Shift(w, limit, left, logical, arithmetic)
         = Op(ShiftName(w, limit, left, logical, arithmetic), RI(rd(w), rs1(w), ShiftAmount(w)))
<1>1. CASE funct3(w) = 1
  BY <1>1, Zenon DEF Shift, ShiftName, ShiftAmount
<1>2. CASE funct3(w) # 1 /\ Amount(i_imm(w)) >= limit
  <2>1. Shift(w, limit, left, logical, arithmetic) = Illegal
    BY <1>2, Zenon DEF Shift, Amount
  <2>2. ShiftName(w, limit, left, logical, arithmetic) = "-"
    BY <1>2, Zenon DEF ShiftName
  <2> QED BY <2>1, <2>2, Zenon DEF Op
<1>3. CASE funct3(w) # 1 /\ ~(Amount(i_imm(w)) >= limit)
  BY <1>3, Zenon DEF Shift, ShiftName, ShiftAmount, Amount
<1> QED BY <1>1, <1>2, <1>3, Zenon

\* The shift amount, with the bit that tells the two right shifts apart, is the immediate.
LEMMA AmountAlike ==
  ASSUME NEW x \in Int, NEW y \in Int, Amount(x) = Amount(y),
         (Bits(x, 10, 10) = 1) <=> (Bits(y, 10, 10) = 1)
  PROVE  x = y
<1>1. Bits(x, 10, 10) \in {0, 1} /\ Bits(y, 10, 10) \in {0, 1}
  BY DEF Bits
<1>2. Bits(x, 10, 10) = Bits(y, 10, 10)
  BY <1>1
<1> QED BY <1>1, <1>2 DEF Amount

AlikeShift(v, w, limit, left, logical, arithmetic) ==
  /\ Field(v, 6, 0) = Field(w, 6, 0) /\ funct3(v) \in {1, 5} /\ funct3(w) \in {1, 5}
  /\ left # logical /\ left # arithmetic /\ logical # arithmetic
  /\ Shift(v, limit, left, logical, arithmetic) = Shift(w, limit, left, logical, arithmetic)
  /\ Shift(v, limit, left, logical, arithmetic) # Illegal

\* Shifts: the name tells funct3 and bit 30, the amount all other bits.
LEMMA ShiftAlike ==
  ASSUME NEW v \in Word, NEW w \in Word, NEW limit, NEW left, NEW logical, NEW arithmetic,
         AlikeShift(v, w, limit, left, logical, arithmetic)
  PROVE  v = w
<1>1. /\ Field(v, 6, 0) = Field(w, 6, 0) /\ funct3(v) \in {1, 5} /\ funct3(w) \in {1, 5}
      /\ left # logical /\ left # arithmetic /\ logical # arithmetic
      /\ Shift(v, limit, left, logical, arithmetic) = Shift(w, limit, left, logical, arithmetic)
      /\ Shift(v, limit, left, logical, arithmetic) # Illegal
  BY Zenon DEF AlikeShift
<1> DEFINE Name(x) == ShiftName(x, limit, left, logical, arithmetic)
           Args(x) == RI(rd(x), rs1(x), ShiftAmount(x))
<1>2. Alike(Name(v), Args(v), Name(w), Args(w))
  BY <1>1, ShiftIs, Zenon DEF Alike
<1>3. Name(v) = Name(w) /\ Args(v) = Args(w) /\ Name(v) # "-"
  <2> HIDE DEF Name, Args
  <2> QED BY <1>2, OpAlike
<1>4. rd(v) = rd(w) /\ rs1(v) = rs1(w) /\ ShiftAmount(v) = ShiftAmount(w)
  BY <1>3 DEF RI
<1>5. ASSUME NEW x \in {v, w}
      PROVE  \/ Name(x) = left /\ funct3(x) = 1
             \/ Name(x) = logical /\ funct3(x) # 1 /\ Bits(i_imm(x), 10, 10) # 1
             \/ Name(x) = arithmetic /\ funct3(x) # 1 /\ Bits(i_imm(x), 10, 10) = 1
  <2>1. Name(x) # "-"
    BY <1>3, <1>5, Zenon
  <2> QED BY <2>1, Zenon DEF ShiftName
<1>6. /\ (funct3(v) = 1) <=> (funct3(w) = 1)
      /\ funct3(v) # 1 => ((Bits(i_imm(v), 10, 10) = 1) <=> (Bits(i_imm(w), 10, 10) = 1))
  <2> HIDE DEF Name
  <2> QED BY <1>1, <1>3, <1>5, Zenon
<1>7. funct3(v) = funct3(w)
  BY <1>1, <1>6
<1>8. i_imm(v) = i_imm(w)
  <2>1. CASE funct3(v) = 1
    BY <1>4, <1>7, <2>1, Zenon DEF ShiftAmount
  <2>2. CASE funct3(v) # 1
    <3>1. Amount(i_imm(v)) = Amount(i_imm(w))
      BY <1>4, <1>7, <2>2, Zenon DEF ShiftAmount
    <3>2. i_imm(v) \in Int /\ i_imm(w) \in Int
      BY FieldRanges, Zenon
    <3> QED BY <1>6, <2>2, <3>1, <3>2, AmountAlike
  <2> QED BY <2>1, <2>2, Zenon
<1> QED BY <1>1, <1>4, <1>7, <1>8, Formats, Zenon

LEMMA ShiftOp ==
  ASSUME NEW w, NEW limit, NEW left, NEW logical, NEW arithmetic,
         Shift(w, limit, left, logical, arithmetic) # Illegal
  PROVE  Shift(w, limit, left, logical, arithmetic).op \in {left, logical, arithmetic}
<1> DEFINE Name == ShiftName(w, limit, left, logical, arithmetic)
           Args == RI(rd(w), rs1(w), ShiftAmount(w))
<1>1. Shift(w, limit, left, logical, arithmetic) = Op(Name, Args)
  BY ShiftIs, Zenon
<1>2. Name # "-" /\ Shift(w, limit, left, logical, arithmetic).op = Name
  <2> HIDE DEF Name, Args
  <2> QED BY <1>1, OpName
<1>3. Name \in {left, logical, arithmetic}
  BY <1>2, Zenon DEF ShiftName
<1> QED BY <1>2, <1>3, Zenon

ImmNames == <<"Addi", "-", "Slti", "Sltiu", "Xori", "-", "Ori", "Andi">>
ImmSet == {"Addi", "Slti", "Sltiu", "Xori", "Ori", "Andi"}

\* OP-IMM: the shifts at funct3 1 and 5, a table for the others.
LEMMA OpImmIs ==
  ASSUME NEW w \in Word
  PROVE  /\ funct3(w) \in {1, 5} => OpImm(w) = Shift(w, 64, "Slli", "Srli", "Srai")
         /\ funct3(w) \notin {1, 5} =>
              /\ OpImm(w) = Op(At(ImmNames, funct3(w)), RI(rd(w), rs1(w), i_imm(w)))
              /\ At(ImmNames, funct3(w)) \in ImmSet
              /\ OpImm(w).op = At(ImmNames, funct3(w))
<1>1. funct3(w) \in {1, 5} => OpImm(w) = Shift(w, 64, "Slli", "Srli", "Srai")
  BY Zenon DEF OpImm
<1>2. funct3(w) \notin {1, 5} =>
         OpImm(w) = Op(At(ImmNames, funct3(w)), RI(rd(w), rs1(w), i_imm(w)))
  BY Zenon DEF OpImm, ImmNames
<1>3. \A e \in 0..7 : e \notin {1, 5} => At(ImmNames, e) \in ImmSet
  BY DEF At, ImmNames, ImmSet
<1>4. funct3(w) \in 0..7
  BY FieldRanges, Zenon
<1>5. funct3(w) \notin {1, 5} => At(ImmNames, funct3(w)) \in ImmSet
  BY <1>3, <1>4, Zenon
<1>6. \A n \in ImmSet : n # "-"
  BY DEF ImmSet
<1>7. \A n \in ImmSet : \A a : Op(n, a).op = n
  BY <1>6 DEF Op
<1> QED BY <1>1, <1>2, <1>5, <1>7, Zenon

LEMMA OpImmOpcode ==
  ASSUME NEW w \in Word, Field(w, 6, 0) = \h13, decode(w) # Illegal
  PROVE  OpcodeOf(decode(w).op) = \h13
<1>1. decode(w) = OpImm(w)
  BY DecodeOpImm, Zenon
<1>2. decode(w).op \in ImmSet \cup {"Slli", "Srli", "Srai"}
  <2>1. CASE funct3(w) \in {1, 5}
    <3>1. decode(w) = Shift(w, 64, "Slli", "Srli", "Srai")
      BY <1>1, <2>1, OpImmIs, Zenon
    <3>2. Shift(w, 64, "Slli", "Srli", "Srai").op \in {"Slli", "Srli", "Srai"}
      BY <3>1, ShiftOp
    <3> QED BY <3>1, <3>2, Zenon
  <2>2. CASE funct3(w) \notin {1, 5}
    BY <1>1, <2>2, OpImmIs, Zenon
  <2> QED BY <2>1, <2>2, Zenon
<1>3. \A n \in ImmSet \cup {"Slli", "Srli", "Srai"} : OpcodeOf(n) = \h13
  BY DEF ImmSet, OpcodeOf
<1> QED BY <1>2, <1>3, Zenon

LEMMA OpImmAlike ==
  ASSUME NEW v \in Word, NEW w \in Word, Field(v, 6, 0) = \h13, Field(w, 6, 0) = \h13,
         decode(v) = decode(w), decode(v) # Illegal
  PROVE  v = w
<1>1. decode(v) = OpImm(v) /\ decode(w) = OpImm(w)
  BY DecodeOpImm, Zenon
<1>2. ASSUME NEW x \in Word, NEW y \in Word, OpImm(x) = OpImm(y), OpImm(x) # Illegal,
             funct3(x) \in {1, 5}, funct3(y) \notin {1, 5}
      PROVE  FALSE
  <2>1. OpImm(x) = Shift(x, 64, "Slli", "Srli", "Srai")
    BY <1>2, OpImmIs, Zenon
  <2>2. OpImm(x).op \in {"Slli", "Srli", "Srai"}
    BY <1>2, <2>1, ShiftOp
  <2>3. OpImm(x).op \in ImmSet
    BY <1>2, OpImmIs, Zenon
  <2> QED BY <2>2, <2>3 DEF ImmSet
<1>3. (funct3(v) \in {1, 5}) <=> (funct3(w) \in {1, 5})
  BY <1>1, <1>2, Zenon
<1>4. CASE funct3(v) \in {1, 5}
  <2>1. /\ decode(v) = Shift(v, 64, "Slli", "Srli", "Srai")
        /\ decode(w) = Shift(w, 64, "Slli", "Srli", "Srai")
    BY <1>1, <1>3, <1>4, OpImmIs, Zenon
  <2>2. "Slli" # "Srli" /\ "Slli" # "Srai" /\ "Srli" # "Srai"
    OBVIOUS
  <2>3. Field(v, 6, 0) = Field(w, 6, 0)
    BY Zenon
  <2>4. AlikeShift(v, w, 64, "Slli", "Srli", "Srai")
    BY <1>3, <1>4, <2>1, <2>2, <2>3, Zenon DEF AlikeShift
  <2> QED BY <2>4, ShiftAlike
<1>5. CASE funct3(v) \notin {1, 5}
  <2>1. /\ decode(v) = Op(At(ImmNames, funct3(v)), RI(rd(v), rs1(v), i_imm(v)))
        /\ decode(w) = Op(At(ImmNames, funct3(w)), RI(rd(w), rs1(w), i_imm(w)))
    BY <1>1, <1>3, <1>5, OpImmIs, Zenon
  <2>2. Alike(At(ImmNames, funct3(v)), RI(rd(v), rs1(v), i_imm(v)),
              At(ImmNames, funct3(w)), RI(rd(w), rs1(w), i_imm(w)))
    BY <2>1, Zenon DEF Alike
  <2>3. /\ At(ImmNames, funct3(v)) = At(ImmNames, funct3(w))
        /\ RI(rd(v), rs1(v), i_imm(v)) = RI(rd(w), rs1(w), i_imm(w))
    BY <2>2, OpAlike
  <2>4. \A e, e2 \in 0..7 : e \notin {1, 5} /\ At(ImmNames, e) = At(ImmNames, e2) => e = e2
    BY DEF At, ImmNames
  <2>5. funct3(v) = funct3(w)
    BY <1>5, <2>3, <2>4, FieldRanges, Zenon
  <2>6. rd(v) = rd(w) /\ rs1(v) = rs1(w) /\ i_imm(v) = i_imm(w)
    BY <2>3 DEF RI
  <2> QED BY <2>5, <2>6, Formats, Zenon
<1> QED BY <1>4, <1>5, Zenon

LEMMA OpImm32Is ==
  ASSUME NEW w
  PROVE  \/ funct3(w) \in {1, 5} /\ OpImm32(w) = Shift(w, 32, "Slliw", "Srliw", "Sraiw")
         \/ funct3(w) = 0 /\ OpImm32(w) = Op("Addiw", RI(rd(w), rs1(w), i_imm(w)))
         \/ OpImm32(w) = Illegal
BY DEF OpImm32

LEMMA OpImm32Op ==
  ASSUME NEW w, OpImm32(w) # Illegal
  PROVE  \/ /\ funct3(w) \in {1, 5} /\ OpImm32(w) = Shift(w, 32, "Slliw", "Srliw", "Sraiw")
            /\ OpImm32(w).op \in {"Slliw", "Srliw", "Sraiw"}
         \/ /\ funct3(w) = 0 /\ OpImm32(w) = Op("Addiw", RI(rd(w), rs1(w), i_imm(w)))
            /\ OpImm32(w).op = "Addiw"
<1>1. CASE funct3(w) \in {1, 5} /\ OpImm32(w) = Shift(w, 32, "Slliw", "Srliw", "Sraiw")
  <2>1. Shift(w, 32, "Slliw", "Srliw", "Sraiw").op \in {"Slliw", "Srliw", "Sraiw"}
    BY <1>1, ShiftOp
  <2> QED BY <1>1, <2>1, Zenon
<1>2. CASE funct3(w) = 0 /\ OpImm32(w) = Op("Addiw", RI(rd(w), rs1(w), i_imm(w)))
  <2>1. OpImm32(w).op = "Addiw"
    BY <1>2, OpName
  <2> QED BY <1>2, <2>1, Zenon
<1> QED BY <1>1, <1>2, OpImm32Is, Zenon

LEMMA OpImm32Opcode ==
  ASSUME NEW w \in Word, Field(w, 6, 0) = \h1B, decode(w) # Illegal
  PROVE  OpcodeOf(decode(w).op) = \h1B
<1>1. decode(w).op \in {"Slliw", "Srliw", "Sraiw", "Addiw"}
  BY DecodeOpImm32, OpImm32Op, Zenon
<1>2. \A n \in {"Slliw", "Srliw", "Sraiw", "Addiw"} : OpcodeOf(n) = \h1B
  BY DEF OpcodeOf
<1> QED BY <1>1, <1>2, Zenon

LEMMA OpImm32Alike ==
  ASSUME NEW v \in Word, NEW w \in Word, Field(v, 6, 0) = \h1B, Field(w, 6, 0) = \h1B,
         decode(v) = decode(w), decode(v) # Illegal
  PROVE  v = w
<1>1. /\ decode(v) = OpImm32(v) /\ decode(w) = OpImm32(w)
      /\ OpImm32(v) # Illegal /\ OpImm32(w) # Illegal /\ Field(v, 6, 0) = Field(w, 6, 0)
  BY DecodeOpImm32, Zenon
<1>2. "Addiw" \notin {"Slliw", "Srliw", "Sraiw"}
  OBVIOUS
<1>3. \/ /\ funct3(v) \in {1, 5} /\ decode(v) = Shift(v, 32, "Slliw", "Srliw", "Sraiw")
         /\ funct3(w) \in {1, 5} /\ decode(w) = Shift(w, 32, "Slliw", "Srliw", "Sraiw")
      \/ /\ funct3(v) = 0 /\ decode(v) = Op("Addiw", RI(rd(v), rs1(v), i_imm(v)))
         /\ funct3(w) = 0 /\ decode(w) = Op("Addiw", RI(rd(w), rs1(w), i_imm(w)))
  <2>1. \/ /\ funct3(v) \in {1, 5} /\ decode(v) = Shift(v, 32, "Slliw", "Srliw", "Sraiw")
           /\ decode(v).op \in {"Slliw", "Srliw", "Sraiw"}
        \/ /\ funct3(v) = 0 /\ decode(v) = Op("Addiw", RI(rd(v), rs1(v), i_imm(v)))
           /\ decode(v).op = "Addiw"
    BY <1>1, OpImm32Op, Zenon
  <2>2. \/ /\ funct3(w) \in {1, 5} /\ decode(w) = Shift(w, 32, "Slliw", "Srliw", "Sraiw")
           /\ decode(w).op \in {"Slliw", "Srliw", "Sraiw"}
        \/ /\ funct3(w) = 0 /\ decode(w) = Op("Addiw", RI(rd(w), rs1(w), i_imm(w)))
           /\ decode(w).op = "Addiw"
    BY <1>1, OpImm32Op, Zenon
  <2> QED BY <1>2, <2>1, <2>2, Zenon
<1>4. CASE /\ funct3(v) \in {1, 5} /\ decode(v) = Shift(v, 32, "Slliw", "Srliw", "Sraiw")
           /\ funct3(w) \in {1, 5} /\ decode(w) = Shift(w, 32, "Slliw", "Srliw", "Sraiw")
  <2>1. "Slliw" # "Srliw" /\ "Slliw" # "Sraiw" /\ "Srliw" # "Sraiw"
    OBVIOUS
  <2>2. AlikeShift(v, w, 32, "Slliw", "Srliw", "Sraiw")
    BY <1>1, <1>4, <2>1, Zenon DEF AlikeShift
  <2> QED BY <2>2, ShiftAlike
<1>5. CASE /\ funct3(v) = 0 /\ decode(v) = Op("Addiw", RI(rd(v), rs1(v), i_imm(v)))
           /\ funct3(w) = 0 /\ decode(w) = Op("Addiw", RI(rd(w), rs1(w), i_imm(w)))
  <2>1. Alike("Addiw", RI(rd(v), rs1(v), i_imm(v)), "Addiw", RI(rd(w), rs1(w), i_imm(w)))
    BY <1>5, Zenon DEF Alike
  <2>2. RI(rd(v), rs1(v), i_imm(v)) = RI(rd(w), rs1(w), i_imm(w))
    BY <2>1, OpAlike
  <2>3. rd(v) = rd(w) /\ rs1(v) = rs1(w) /\ i_imm(v) = i_imm(w)
    BY <2>2 DEF RI
  <2>4. funct3(v) = funct3(w)
    BY <1>5, Zenon
  <2> QED BY <1>1, <2>3, <2>4, Formats, Zenon
<1> QED BY <1>3, <1>4, <1>5, Zenon

\* The system instructions without operands, and the place of the CSR address in each.
PlainSet == {"Ecall", "Ebreak", "Mret", "Sret", "Wfi"}
PlainCode(n) ==
  CASE n = "Ecall" -> 0 [] n = "Ebreak" -> \h001 [] n = "Mret" -> \h302
    [] n = "Sret" -> \h102 [] n = "Wfi" -> \h105
CsrNames == <<"-", "Csrrw", "Csrrs", "Csrrc", "-", "Csrrwi", "Csrrsi", "Csrrci">>
CsrSet == {"Csrrw", "Csrrs", "Csrrc", "Csrrwi", "Csrrsi", "Csrrci"}
CsrArgs(w) == [rd |-> rd(w), rs1 |-> rs1(w), csr |-> csr(w)]

IsPlain(w, n) ==
  /\ n \in PlainSet /\ System(w) = Op(n, <<>>)
  /\ funct3(w) = 0 /\ rd(w) = 0 /\ rs1(w) = 0 /\ csr(w) = PlainCode(n)
IsFence(w) ==
  /\ System(w) = Op("SfenceVma", [rs1 |-> rs1(w), rs2 |-> rs2(w)])
  /\ funct3(w) = 0 /\ rd(w) = 0 /\ funct7(w) = 9
IsCsr(w) ==
  System(w) = Op(At(CsrNames, funct3(w)), CsrArgs(w)) /\ funct3(w) \notin {0, 4}

\* The arms of SYSTEM.
LEMMA SystemIs ==
  ASSUME NEW w
  PROVE  \/ IsPlain(w, "Ecall") \/ IsPlain(w, "Ebreak") \/ IsPlain(w, "Mret")
         \/ IsPlain(w, "Sret") \/ IsPlain(w, "Wfi")
         \/ IsFence(w) \/ IsCsr(w) \/ System(w) = Illegal
<1> DEFINE Exact(imm) == csr(w) = imm /\ rd(w) = 0 /\ rs1(w) = 0
<1>1. \/ funct3(w) = 0 /\ Exact(0) /\ System(w) = Plain("Ecall")
      \/ funct3(w) = 0 /\ Exact(\h001) /\ System(w) = Plain("Ebreak")
      \/ funct3(w) = 0 /\ Exact(\h302) /\ System(w) = Plain("Mret")
      \/ funct3(w) = 0 /\ Exact(\h102) /\ System(w) = Plain("Sret")
      \/ funct3(w) = 0 /\ Exact(\h105) /\ System(w) = Plain("Wfi")
      \/ /\ funct3(w) = 0 /\ rd(w) = 0 /\ funct7(w) = 9
         /\ System(w) = Op("SfenceVma", [rs1 |-> rs1(w), rs2 |-> rs2(w)])
      \/ funct3(w) \notin {0, 4} /\ System(w) = Op(At(CsrNames, funct3(w)), CsrArgs(w))
      \/ System(w) = Illegal
  BY DEF System, CsrNames, CsrArgs
<1>2. /\ PlainCode("Ecall") = 0 /\ PlainCode("Ebreak") = \h001 /\ PlainCode("Mret") = \h302
      /\ PlainCode("Sret") = \h102 /\ PlainCode("Wfi") = \h105
  BY DEF PlainCode
<1> QED BY <1>1, <1>2, SMT DEF IsPlain, IsFence, IsCsr, PlainSet, Plain

\* A system instruction is one of those without operands, SFENCE.VMA or a CSR access.
LEMMA SystemOp ==
  ASSUME NEW w \in Word, System(w) # Illegal
  PROVE  \/ \E n \in PlainSet : IsPlain(w, n) /\ System(w).op = n
         \/ IsFence(w) /\ System(w).op = "SfenceVma"
         \/ IsCsr(w) /\ System(w).op = At(CsrNames, funct3(w)) /\ At(CsrNames, funct3(w)) \in CsrSet
<1>1. ASSUME NEW n \in PlainSet, IsPlain(w, n)
      PROVE  System(w).op = n
  <2>1. System(w) = Op(n, <<>>)
    BY <1>1, Zenon DEF IsPlain
  <2> QED BY <2>1, OpName
<1>2. ASSUME IsFence(w)
      PROVE  System(w).op = "SfenceVma"
  <2>1. System(w) = Op("SfenceVma", [rs1 |-> rs1(w), rs2 |-> rs2(w)])
    BY <1>2, Zenon DEF IsFence
  <2> QED BY <2>1, OpName
<1>3. ASSUME IsCsr(w)
      PROVE  System(w).op = At(CsrNames, funct3(w)) /\ At(CsrNames, funct3(w)) \in CsrSet
  <2>1. System(w) = Op(At(CsrNames, funct3(w)), CsrArgs(w)) /\ funct3(w) \notin {0, 4}
    BY <1>3, Zenon DEF IsCsr
  <2>2. System(w).op = At(CsrNames, funct3(w))
    BY <2>1, OpName
  <2>3. \A e \in 0..7 : e \notin {0, 4} => At(CsrNames, e) \in CsrSet
    BY DEF At, CsrNames, CsrSet
  <2>4. funct3(w) \in 0..7
    BY FieldRanges, Zenon
  <2> QED BY <2>1, <2>2, <2>3, <2>4, Zenon
<1>4. /\ "Ecall" \in PlainSet /\ "Ebreak" \in PlainSet /\ "Mret" \in PlainSet
      /\ "Sret" \in PlainSet /\ "Wfi" \in PlainSet
  BY DEF PlainSet
<1> QED BY <1>1, <1>2, <1>3, <1>4, SystemIs, Zenon

LEMMA SystemOpcode ==
  ASSUME NEW w \in Word, Field(w, 6, 0) = \h73, decode(w) # Illegal
  PROVE  OpcodeOf(decode(w).op) = \h73
<1>1. decode(w).op \in PlainSet \cup {"SfenceVma"} \cup CsrSet
  <2>1. decode(w) = System(w) /\ System(w) # Illegal
    BY DecodeSystem, Zenon
  <2>2. \/ \E n \in PlainSet : IsPlain(w, n) /\ System(w).op = n
        \/ IsFence(w) /\ System(w).op = "SfenceVma"
        \/ IsCsr(w) /\ System(w).op = At(CsrNames, funct3(w)) /\ At(CsrNames, funct3(w)) \in CsrSet
    BY <2>1, SystemOp, Zenon
  <2>3. System(w).op \in PlainSet \/ System(w).op = "SfenceVma" \/ System(w).op \in CsrSet
    BY <2>2, Zenon
  <2> QED BY <2>1, <2>3, Zenon
<1>2. \A n \in PlainSet \cup {"SfenceVma"} \cup CsrSet : OpcodeOf(n) = \h73
  BY DEF PlainSet, CsrSet, OpcodeOf
<1> QED BY <1>1, <1>2, Zenon

LEMMA SystemAlike ==
  ASSUME NEW v \in Word, NEW w \in Word, Field(v, 6, 0) = \h73, Field(w, 6, 0) = \h73,
         decode(v) = decode(w), decode(v) # Illegal
  PROVE  v = w
<1>1. /\ System(v) = System(w) /\ System(v) # Illegal /\ System(w) # Illegal
      /\ Field(v, 6, 0) = Field(w, 6, 0)
  BY DecodeSystem, Zenon
<1>2. \A n \in PlainSet : n # "SfenceVma" /\ n \notin CsrSet
  BY DEF PlainSet, CsrSet
<1>3. "SfenceVma" \notin CsrSet
  BY DEF CsrSet
<1>4. \/ \E n \in PlainSet : IsPlain(v, n) /\ System(v).op = n
      \/ IsFence(v) /\ System(v).op = "SfenceVma"
      \/ IsCsr(v) /\ System(v).op = At(CsrNames, funct3(v)) /\ At(CsrNames, funct3(v)) \in CsrSet
  BY <1>1, SystemOp, Zenon
<1>5. \/ \E n \in PlainSet : IsPlain(w, n) /\ System(w).op = n
      \/ IsFence(w) /\ System(w).op = "SfenceVma"
      \/ IsCsr(w) /\ System(w).op = At(CsrNames, funct3(w)) /\ At(CsrNames, funct3(w)) \in CsrSet
  BY <1>1, SystemOp, Zenon
<1>6. \/ \E n \in PlainSet : IsPlain(v, n) /\ IsPlain(w, n)
      \/ IsFence(v) /\ IsFence(w)
      \/ IsCsr(v) /\ IsCsr(w) /\ At(CsrNames, funct3(v)) = At(CsrNames, funct3(w))
  <2> DEFINE o == System(v).op
  <2>1. o = System(w).op
    BY <1>1, Zenon
  <2>2. \/ o \in PlainSet /\ IsPlain(v, o)
        \/ IsFence(v) /\ o = "SfenceVma"
        \/ IsCsr(v) /\ o = At(CsrNames, funct3(v)) /\ o \in CsrSet
    BY <1>4, Zenon
  <2>3. \/ o \in PlainSet /\ IsPlain(w, o)
        \/ IsFence(w) /\ o = "SfenceVma"
        \/ IsCsr(w) /\ o = At(CsrNames, funct3(w)) /\ o \in CsrSet
    BY <1>5, <2>1, Zenon
  <2> HIDE DEF o
  <2>4. CASE o \in PlainSet
    BY <1>2, <2>2, <2>3, <2>4, Zenon
  <2>5. CASE o = "SfenceVma"
    BY <1>2, <1>3, <2>2, <2>3, <2>5, Zenon
  <2>6. CASE o \in CsrSet
    BY <1>2, <1>3, <2>2, <2>3, <2>6, Zenon
  <2> QED BY <2>2, <2>4, <2>5, <2>6, Zenon
<1>7. ASSUME NEW n \in PlainSet, IsPlain(v, n), IsPlain(w, n)
      PROVE  v = w
  <2>1. rd(v) = rd(w) /\ funct3(v) = funct3(w) /\ rs1(v) = rs1(w) /\ csr(v) = csr(w)
    BY <1>7, Zenon DEF IsPlain
  <2> QED BY <1>1, <2>1, Formats, Zenon
<1>8. ASSUME IsFence(v), IsFence(w)
      PROVE  v = w
  <2>1. rd(v) = rd(w) /\ funct3(v) = funct3(w) /\ funct7(v) = funct7(w)
    BY <1>8, Zenon DEF IsFence
  <2>2. Alike("SfenceVma", [rs1 |-> rs1(v), rs2 |-> rs2(v)],
              "SfenceVma", [rs1 |-> rs1(w), rs2 |-> rs2(w)])
    BY <1>1, <1>8, Zenon DEF IsFence, Alike
  <2>3. [rs1 |-> rs1(v), rs2 |-> rs2(v)] = [rs1 |-> rs1(w), rs2 |-> rs2(w)]
    BY <2>2, OpAlike
  <2>4. rs1(v) = rs1(w) /\ rs2(v) = rs2(w)
    BY <2>3
  <2> QED BY <1>1, <2>1, <2>4, Formats, Zenon
<1>9. ASSUME IsCsr(v), IsCsr(w), At(CsrNames, funct3(v)) = At(CsrNames, funct3(w))
      PROVE  v = w
  <2>1. \A e, e2 \in 0..7 : e \notin {0, 4} /\ At(CsrNames, e) = At(CsrNames, e2) => e = e2
    BY DEF At, CsrNames
  <2>2. funct3(v) \in 0..7 /\ funct3(w) \in 0..7
    BY FieldRanges, Zenon
  <2>3. funct3(v) = funct3(w)
    <3>1. funct3(v) \notin {0, 4}
      BY <1>9, Zenon DEF IsCsr
    <3> QED BY <1>9, <2>1, <2>2, <3>1
  <2>4. Alike(At(CsrNames, funct3(v)), CsrArgs(v), At(CsrNames, funct3(w)), CsrArgs(w))
    BY <1>1, <1>9, ZenonT(60) DEF IsCsr, Alike
  <2>5. CsrArgs(v) = CsrArgs(w)
    BY <2>4, OpAlike
  <2>6. rd(v) = rd(w) /\ rs1(v) = rs1(w) /\ csr(v) = csr(w)
    BY <2>5 DEF CsrArgs
  <2> QED BY <1>1, <2>3, <2>6, Formats, Zenon
<1> QED BY <1>6, <1>7, <1>8, <1>9, Zenon

FpF(w) == Bits(funct7(w), 6, 1)
FpFmt(w) == Bits(funct7(w), 0, 0)
FpThree(w) == [frd |-> rd(w), frs1 |-> rs1(w), frs2 |-> rs2(w), fmt |-> FpFmt(w)]
FpTest(w) == [rd |-> rd(w), frs1 |-> rs1(w), frs2 |-> rs2(w), fmt |-> FpFmt(w)]
FpTwo(w) == [frd |-> rd(w), frs1 |-> rs1(w), fmt |-> FpFmt(w)]
FpToInt(w) == [rd |-> rd(w), frs1 |-> rs1(w), fmt |-> FpFmt(w)]
FpFromInt(w) == [frd |-> rd(w), rs1 |-> rs1(w), fmt |-> FpFmt(w)]

\* OP-FP: funct7 is the function and the format.
LEMMA FpSame ==
  ASSUME NEW v \in Word, NEW w \in Word, Field(v, 6, 0) = Field(w, 6, 0),
         rd(v) = rd(w), funct3(v) = funct3(w), rs1(v) = rs1(w), rs2(v) = rs2(w),
         FpF(v) = FpF(w), FpFmt(v) = FpFmt(w)
  PROVE  v = w
<1>1. \A g, h \in 0..127 : Bits(g, 6, 1) = Bits(h, 6, 1) /\ Bits(g, 0, 0) = Bits(h, 0, 0) => g = h
  BY DEF Bits
<1>2. funct7(v) \in 0..127 /\ funct7(w) \in 0..127
  BY FieldRanges, Zenon
<1>3. funct7(v) = funct7(w)
  BY <1>1, <1>2, Zenon DEF FpF, FpFmt
<1> QED BY <1>3, Formats, Zenon

FaddName(w) == "Fadd"

LEMMA FaddIs ==
  ASSUME NEW w, FpF(w) = 0
  PROVE  OpFp(w) = Rounded(w, FaddName(w), FpThree(w))
BY DEF OpFp, FpF, FpFmt, FaddName, FpThree

LEMMA FaddOp ==
  ASSUME NEW w \in Word, FpF(w) = 0, OpFp(w) # Illegal
  PROVE  OpFp(w).op \in {"Fadd"}
<1>1. OpFp(w) = Rounded(w, FaddName(w), FpThree(w))
  BY FaddIs, Zenon
<1>2. OpFp(w).op = FaddName(w) /\ FaddName(w) # "-"
  BY <1>1, RoundedName
<1>3. FaddName(w) \in {"Fadd"}
  BY <1>2, Zenon DEF FaddName
<1> QED BY <1>2, <1>3, Zenon

LEMMA FaddAlike ==
  ASSUME NEW v \in Word, NEW w \in Word, Field(v, 6, 0) = Field(w, 6, 0),
         FpF(v) = 0, FpF(w) = 0, OpFp(v) = OpFp(w), OpFp(v) # Illegal
  PROVE  v = w
<1>1. OpFp(v) = Rounded(v, FaddName(v), FpThree(v)) /\ OpFp(w) = Rounded(w, FaddName(w), FpThree(w))
  BY FaddIs, Zenon
<1>2. AlikeRounded(v, FaddName(v), FpThree(v), w, FaddName(w), FpThree(w))
  BY <1>1, Zenon DEF AlikeRounded
<1>3. FaddName(v) = FaddName(w) /\ FpThree(v) = FpThree(w) /\ FaddName(v) # "-"
         /\ funct3(v) = funct3(w)
  BY <1>2, RoundedAlike
<1>4. rd(v) = rd(w) /\ rs1(v) = rs1(w) /\ rs2(v) = rs2(w) /\ FpFmt(v) = FpFmt(w)
  BY <1>3 DEF FpThree
<1>5. FpF(v) = FpF(w)
  BY Zenon
<1> QED BY <1>3, <1>4, <1>5, FpSame, Zenon

FsubName(w) == "Fsub"

LEMMA FsubIs ==
  ASSUME NEW w, FpF(w) = 2
  PROVE  OpFp(w) = Rounded(w, FsubName(w), FpThree(w))
BY DEF OpFp, FpF, FpFmt, FsubName, FpThree

LEMMA FsubOp ==
  ASSUME NEW w \in Word, FpF(w) = 2, OpFp(w) # Illegal
  PROVE  OpFp(w).op \in {"Fsub"}
<1>1. OpFp(w) = Rounded(w, FsubName(w), FpThree(w))
  BY FsubIs, Zenon
<1>2. OpFp(w).op = FsubName(w) /\ FsubName(w) # "-"
  BY <1>1, RoundedName
<1>3. FsubName(w) \in {"Fsub"}
  BY <1>2, Zenon DEF FsubName
<1> QED BY <1>2, <1>3, Zenon

LEMMA FsubAlike ==
  ASSUME NEW v \in Word, NEW w \in Word, Field(v, 6, 0) = Field(w, 6, 0),
         FpF(v) = 2, FpF(w) = 2, OpFp(v) = OpFp(w), OpFp(v) # Illegal
  PROVE  v = w
<1>1. OpFp(v) = Rounded(v, FsubName(v), FpThree(v)) /\ OpFp(w) = Rounded(w, FsubName(w), FpThree(w))
  BY FsubIs, Zenon
<1>2. AlikeRounded(v, FsubName(v), FpThree(v), w, FsubName(w), FpThree(w))
  BY <1>1, Zenon DEF AlikeRounded
<1>3. FsubName(v) = FsubName(w) /\ FpThree(v) = FpThree(w) /\ FsubName(v) # "-"
         /\ funct3(v) = funct3(w)
  BY <1>2, RoundedAlike
<1>4. rd(v) = rd(w) /\ rs1(v) = rs1(w) /\ rs2(v) = rs2(w) /\ FpFmt(v) = FpFmt(w)
  BY <1>3 DEF FpThree
<1>5. FpF(v) = FpF(w)
  BY Zenon
<1> QED BY <1>3, <1>4, <1>5, FpSame, Zenon

FmulName(w) == "Fmul"

LEMMA FmulIs ==
  ASSUME NEW w, FpF(w) = 4
  PROVE  OpFp(w) = Rounded(w, FmulName(w), FpThree(w))
BY DEF OpFp, FpF, FpFmt, FmulName, FpThree

LEMMA FmulOp ==
  ASSUME NEW w \in Word, FpF(w) = 4, OpFp(w) # Illegal
  PROVE  OpFp(w).op \in {"Fmul"}
<1>1. OpFp(w) = Rounded(w, FmulName(w), FpThree(w))
  BY FmulIs, Zenon
<1>2. OpFp(w).op = FmulName(w) /\ FmulName(w) # "-"
  BY <1>1, RoundedName
<1>3. FmulName(w) \in {"Fmul"}
  BY <1>2, Zenon DEF FmulName
<1> QED BY <1>2, <1>3, Zenon

LEMMA FmulAlike ==
  ASSUME NEW v \in Word, NEW w \in Word, Field(v, 6, 0) = Field(w, 6, 0),
         FpF(v) = 4, FpF(w) = 4, OpFp(v) = OpFp(w), OpFp(v) # Illegal
  PROVE  v = w
<1>1. OpFp(v) = Rounded(v, FmulName(v), FpThree(v)) /\ OpFp(w) = Rounded(w, FmulName(w), FpThree(w))
  BY FmulIs, Zenon
<1>2. AlikeRounded(v, FmulName(v), FpThree(v), w, FmulName(w), FpThree(w))
  BY <1>1, Zenon DEF AlikeRounded
<1>3. FmulName(v) = FmulName(w) /\ FpThree(v) = FpThree(w) /\ FmulName(v) # "-"
         /\ funct3(v) = funct3(w)
  BY <1>2, RoundedAlike
<1>4. rd(v) = rd(w) /\ rs1(v) = rs1(w) /\ rs2(v) = rs2(w) /\ FpFmt(v) = FpFmt(w)
  BY <1>3 DEF FpThree
<1>5. FpF(v) = FpF(w)
  BY Zenon
<1> QED BY <1>3, <1>4, <1>5, FpSame, Zenon

FdivName(w) == "Fdiv"

LEMMA FdivIs ==
  ASSUME NEW w, FpF(w) = 6
  PROVE  OpFp(w) = Rounded(w, FdivName(w), FpThree(w))
BY DEF OpFp, FpF, FpFmt, FdivName, FpThree

LEMMA FdivOp ==
  ASSUME NEW w \in Word, FpF(w) = 6, OpFp(w) # Illegal
  PROVE  OpFp(w).op \in {"Fdiv"}
<1>1. OpFp(w) = Rounded(w, FdivName(w), FpThree(w))
  BY FdivIs, Zenon
<1>2. OpFp(w).op = FdivName(w) /\ FdivName(w) # "-"
  BY <1>1, RoundedName
<1>3. FdivName(w) \in {"Fdiv"}
  BY <1>2, Zenon DEF FdivName
<1> QED BY <1>2, <1>3, Zenon

LEMMA FdivAlike ==
  ASSUME NEW v \in Word, NEW w \in Word, Field(v, 6, 0) = Field(w, 6, 0),
         FpF(v) = 6, FpF(w) = 6, OpFp(v) = OpFp(w), OpFp(v) # Illegal
  PROVE  v = w
<1>1. OpFp(v) = Rounded(v, FdivName(v), FpThree(v)) /\ OpFp(w) = Rounded(w, FdivName(w), FpThree(w))
  BY FdivIs, Zenon
<1>2. AlikeRounded(v, FdivName(v), FpThree(v), w, FdivName(w), FpThree(w))
  BY <1>1, Zenon DEF AlikeRounded
<1>3. FdivName(v) = FdivName(w) /\ FpThree(v) = FpThree(w) /\ FdivName(v) # "-"
         /\ funct3(v) = funct3(w)
  BY <1>2, RoundedAlike
<1>4. rd(v) = rd(w) /\ rs1(v) = rs1(w) /\ rs2(v) = rs2(w) /\ FpFmt(v) = FpFmt(w)
  BY <1>3 DEF FpThree
<1>5. FpF(v) = FpF(w)
  BY Zenon
<1> QED BY <1>3, <1>4, <1>5, FpSame, Zenon

FsqrtName(w) == IF rs2(w) = 0 THEN "Fsqrt" ELSE "-"

LEMMA FsqrtIs ==
  ASSUME NEW w, FpF(w) = 22
  PROVE  OpFp(w) = Rounded(w, FsqrtName(w), FpTwo(w))
BY DEF OpFp, FpF, FpFmt, FsqrtName, FpTwo

LEMMA FsqrtOp ==
  ASSUME NEW w \in Word, FpF(w) = 22, OpFp(w) # Illegal
  PROVE  OpFp(w).op \in {"Fsqrt"}
<1>1. OpFp(w) = Rounded(w, FsqrtName(w), FpTwo(w))
  BY FsqrtIs, Zenon
<1>2. OpFp(w).op = FsqrtName(w) /\ FsqrtName(w) # "-"
  BY <1>1, RoundedName
<1>3. FsqrtName(w) \in {"Fsqrt"}
  BY <1>2, Zenon DEF FsqrtName
<1> QED BY <1>2, <1>3, Zenon

LEMMA FsqrtAlike ==
  ASSUME NEW v \in Word, NEW w \in Word, Field(v, 6, 0) = Field(w, 6, 0),
         FpF(v) = 22, FpF(w) = 22, OpFp(v) = OpFp(w), OpFp(v) # Illegal
  PROVE  v = w
<1>1. OpFp(v) = Rounded(v, FsqrtName(v), FpTwo(v)) /\ OpFp(w) = Rounded(w, FsqrtName(w), FpTwo(w))
  BY FsqrtIs, Zenon
<1>2. AlikeRounded(v, FsqrtName(v), FpTwo(v), w, FsqrtName(w), FpTwo(w))
  BY <1>1, Zenon DEF AlikeRounded
<1>3. FsqrtName(v) = FsqrtName(w) /\ FpTwo(v) = FpTwo(w) /\ FsqrtName(v) # "-"
         /\ funct3(v) = funct3(w)
  BY <1>2, RoundedAlike
<1>4. rd(v) = rd(w) /\ rs1(v) = rs1(w) /\ FpFmt(v) = FpFmt(w)
  BY <1>3 DEF FpTwo
<1>5. rs2(v) = rs2(w)
  BY <1>3, Zenon DEF FsqrtName
<1>6. FpF(v) = FpF(w)
  BY Zenon
<1> QED BY <1>3, <1>4, <1>5, <1>6, FpSame, Zenon

FsgnjName(w) == IF funct3(w) < 3 THEN At(<<"Fsgnj", "Fsgnjn", "Fsgnjx">>, funct3(w)) ELSE "-"

LEMMA FsgnjIs ==
  ASSUME NEW w, FpF(w) = 8
  PROVE  OpFp(w) = Op(FsgnjName(w), FpThree(w))
BY DEF OpFp, FpF, FpFmt, FsgnjName, FpThree

LEMMA FsgnjOp ==
  ASSUME NEW w \in Word, FpF(w) = 8, OpFp(w) # Illegal
  PROVE  OpFp(w).op \in {"Fsgnj", "Fsgnjn", "Fsgnjx"}
<1>1. OpFp(w) = Op(FsgnjName(w), FpThree(w))
  BY FsgnjIs, Zenon
<1>2. OpFp(w).op = FsgnjName(w) /\ FsgnjName(w) # "-"
  BY <1>1, OpName
<1>3. FsgnjName(w) \in {"Fsgnj", "Fsgnjn", "Fsgnjx"}
  <2>1. funct3(w) \in 0..7
    BY FieldRanges, Zenon
  <2>2. \A k \in 0..7 : k < 3 => At(<<"Fsgnj", "Fsgnjn", "Fsgnjx">>, k) \in {"Fsgnj", "Fsgnjn",
           "Fsgnjx"}
    BY DEF At
  <2> QED BY <1>2, <2>1, <2>2, Zenon DEF FsgnjName
<1> QED BY <1>2, <1>3, Zenon

LEMMA FsgnjAlike ==
  ASSUME NEW v \in Word, NEW w \in Word, Field(v, 6, 0) = Field(w, 6, 0),
         FpF(v) = 8, FpF(w) = 8, OpFp(v) = OpFp(w), OpFp(v) # Illegal
  PROVE  v = w
<1>1. OpFp(v) = Op(FsgnjName(v), FpThree(v)) /\ OpFp(w) = Op(FsgnjName(w), FpThree(w))
  BY FsgnjIs, Zenon
<1>2. Alike(FsgnjName(v), FpThree(v), FsgnjName(w), FpThree(w))
  BY <1>1, Zenon DEF Alike
<1>3. FsgnjName(v) = FsgnjName(w) /\ FpThree(v) = FpThree(w) /\ FsgnjName(v) # "-"
  BY <1>2, OpAlike
<1>4. rd(v) = rd(w) /\ rs1(v) = rs1(w) /\ rs2(v) = rs2(w) /\ FpFmt(v) = FpFmt(w)
  BY <1>3 DEF FpThree
<1>5. funct3(v) = funct3(w)
  <2>1. funct3(v) \in 0..7 /\ funct3(w) \in 0..7
    BY FieldRanges, Zenon
  <2>2. /\ funct3(v) < 3 /\ FsgnjName(v) = At(<<"Fsgnj", "Fsgnjn", "Fsgnjx">>, funct3(v))
        /\ funct3(w) < 3 /\ FsgnjName(w) = At(<<"Fsgnj", "Fsgnjn", "Fsgnjx">>, funct3(w))
    BY <1>3, Zenon DEF FsgnjName
  <2>3. \A k, l \in 0..7 :
           k < 3 /\ l < 3 =>
             (At(<<"Fsgnj", "Fsgnjn", "Fsgnjx">>, k) = At(<<"Fsgnj", "Fsgnjn", "Fsgnjx">>, l)
              => k = l)
    BY DEF At
  <2> QED BY <1>3, <2>1, <2>2, <2>3, Zenon
<1>6. FpF(v) = FpF(w)
  BY Zenon
<1> QED BY <1>3, <1>4, <1>5, <1>6, FpSame, Zenon

FminmaxName(w) == IF funct3(w) < 2 THEN At(<<"Fmin", "Fmax">>, funct3(w)) ELSE "-"

LEMMA FminmaxIs ==
  ASSUME NEW w, FpF(w) = 10
  PROVE  OpFp(w) = Op(FminmaxName(w), FpThree(w))
BY DEF OpFp, FpF, FpFmt, FminmaxName, FpThree

LEMMA FminmaxOp ==
  ASSUME NEW w \in Word, FpF(w) = 10, OpFp(w) # Illegal
  PROVE  OpFp(w).op \in {"Fmin", "Fmax"}
<1>1. OpFp(w) = Op(FminmaxName(w), FpThree(w))
  BY FminmaxIs, Zenon
<1>2. OpFp(w).op = FminmaxName(w) /\ FminmaxName(w) # "-"
  BY <1>1, OpName
<1>3. FminmaxName(w) \in {"Fmin", "Fmax"}
  <2>1. funct3(w) \in 0..7
    BY FieldRanges, Zenon
  <2>2. \A k \in 0..7 : k < 2 => At(<<"Fmin", "Fmax">>, k) \in {"Fmin", "Fmax"}
    BY DEF At
  <2> QED BY <1>2, <2>1, <2>2, Zenon DEF FminmaxName
<1> QED BY <1>2, <1>3, Zenon

LEMMA FminmaxAlike ==
  ASSUME NEW v \in Word, NEW w \in Word, Field(v, 6, 0) = Field(w, 6, 0),
         FpF(v) = 10, FpF(w) = 10, OpFp(v) = OpFp(w), OpFp(v) # Illegal
  PROVE  v = w
<1>1. OpFp(v) = Op(FminmaxName(v), FpThree(v)) /\ OpFp(w) = Op(FminmaxName(w), FpThree(w))
  BY FminmaxIs, Zenon
<1>2. Alike(FminmaxName(v), FpThree(v), FminmaxName(w), FpThree(w))
  BY <1>1, Zenon DEF Alike
<1>3. FminmaxName(v) = FminmaxName(w) /\ FpThree(v) = FpThree(w) /\ FminmaxName(v) # "-"
  BY <1>2, OpAlike
<1>4. rd(v) = rd(w) /\ rs1(v) = rs1(w) /\ rs2(v) = rs2(w) /\ FpFmt(v) = FpFmt(w)
  BY <1>3 DEF FpThree
<1>5. funct3(v) = funct3(w)
  <2>1. funct3(v) \in 0..7 /\ funct3(w) \in 0..7
    BY FieldRanges, Zenon
  <2>2. /\ funct3(v) < 2 /\ FminmaxName(v) = At(<<"Fmin", "Fmax">>, funct3(v))
        /\ funct3(w) < 2 /\ FminmaxName(w) = At(<<"Fmin", "Fmax">>, funct3(w))
    BY <1>3, Zenon DEF FminmaxName
  <2>3. \A k, l \in 0..7 :
           k < 2 /\ l < 2 =>
             (At(<<"Fmin", "Fmax">>, k) = At(<<"Fmin", "Fmax">>, l)
              => k = l)
    BY DEF At
  <2> QED BY <1>3, <2>1, <2>2, <2>3, Zenon
<1>6. FpF(v) = FpF(w)
  BY Zenon
<1> QED BY <1>3, <1>4, <1>5, <1>6, FpSame, Zenon

FcvtName(w) == IF rs2(w) = 1 - FpFmt(w) THEN "Fcvt" ELSE "-"

LEMMA FcvtIs ==
  ASSUME NEW w, FpF(w) = 16
  PROVE  OpFp(w) = Rounded(w, FcvtName(w), FpTwo(w))
BY DEF OpFp, FpF, FpFmt, FcvtName, FpTwo

LEMMA FcvtOp ==
  ASSUME NEW w \in Word, FpF(w) = 16, OpFp(w) # Illegal
  PROVE  OpFp(w).op \in {"Fcvt"}
<1>1. OpFp(w) = Rounded(w, FcvtName(w), FpTwo(w))
  BY FcvtIs, Zenon
<1>2. OpFp(w).op = FcvtName(w) /\ FcvtName(w) # "-"
  BY <1>1, RoundedName
<1>3. FcvtName(w) \in {"Fcvt"}
  BY <1>2, Zenon DEF FcvtName
<1> QED BY <1>2, <1>3, Zenon

LEMMA FcvtAlike ==
  ASSUME NEW v \in Word, NEW w \in Word, Field(v, 6, 0) = Field(w, 6, 0),
         FpF(v) = 16, FpF(w) = 16, OpFp(v) = OpFp(w), OpFp(v) # Illegal
  PROVE  v = w
<1>1. OpFp(v) = Rounded(v, FcvtName(v), FpTwo(v)) /\ OpFp(w) = Rounded(w, FcvtName(w), FpTwo(w))
  BY FcvtIs, Zenon
<1>2. AlikeRounded(v, FcvtName(v), FpTwo(v), w, FcvtName(w), FpTwo(w))
  BY <1>1, Zenon DEF AlikeRounded
<1>3. FcvtName(v) = FcvtName(w) /\ FpTwo(v) = FpTwo(w) /\ FcvtName(v) # "-" /\ funct3(v) = funct3(w)
  BY <1>2, RoundedAlike
<1>4. rd(v) = rd(w) /\ rs1(v) = rs1(w) /\ FpFmt(v) = FpFmt(w)
  BY <1>3 DEF FpTwo
<1>5. rs2(v) = rs2(w)
  BY <1>3, <1>4, Zenon DEF FcvtName
<1>6. FpF(v) = FpF(w)
  BY Zenon
<1> QED BY <1>3, <1>4, <1>5, <1>6, FpSame, Zenon

FcvtIntName(w) == IF rs2(w) < 4 THEN At(<<"FcvtW", "FcvtWu", "FcvtL", "FcvtLu">>, rs2(w)) ELSE "-"

LEMMA FcvtIntIs ==
  ASSUME NEW w, FpF(w) = 48
  PROVE  OpFp(w) = Rounded(w, FcvtIntName(w), FpToInt(w))
BY DEF OpFp, FpF, FpFmt, FcvtIntName, FpToInt

LEMMA FcvtIntOp ==
  ASSUME NEW w \in Word, FpF(w) = 48, OpFp(w) # Illegal
  PROVE  OpFp(w).op \in {"FcvtW", "FcvtWu", "FcvtL", "FcvtLu"}
<1>1. OpFp(w) = Rounded(w, FcvtIntName(w), FpToInt(w))
  BY FcvtIntIs, Zenon
<1>2. OpFp(w).op = FcvtIntName(w) /\ FcvtIntName(w) # "-"
  BY <1>1, RoundedName
<1>3. FcvtIntName(w) \in {"FcvtW", "FcvtWu", "FcvtL", "FcvtLu"}
  <2>1. rs2(w) \in 0..31
    BY FieldRanges, Zenon
  <2>2. \A k \in 0..31 : k < 4 => At(<<"FcvtW", "FcvtWu", "FcvtL", "FcvtLu">>, k) \in {"FcvtW",
           "FcvtWu", "FcvtL", "FcvtLu"}
    BY DEF At
  <2> QED BY <1>2, <2>1, <2>2, Zenon DEF FcvtIntName
<1> QED BY <1>2, <1>3, Zenon

LEMMA FcvtIntAlike ==
  ASSUME NEW v \in Word, NEW w \in Word, Field(v, 6, 0) = Field(w, 6, 0),
         FpF(v) = 48, FpF(w) = 48, OpFp(v) = OpFp(w), OpFp(v) # Illegal
  PROVE  v = w
<1>1. OpFp(v) = Rounded(v, FcvtIntName(v), FpToInt(v))
         /\ OpFp(w) = Rounded(w, FcvtIntName(w), FpToInt(w))
  BY FcvtIntIs, Zenon
<1>2. AlikeRounded(v, FcvtIntName(v), FpToInt(v), w, FcvtIntName(w), FpToInt(w))
  BY <1>1, Zenon DEF AlikeRounded
<1>3. FcvtIntName(v) = FcvtIntName(w) /\ FpToInt(v) = FpToInt(w) /\ FcvtIntName(v) # "-"
         /\ funct3(v) = funct3(w)
  BY <1>2, RoundedAlike
<1>4. rd(v) = rd(w) /\ rs1(v) = rs1(w) /\ FpFmt(v) = FpFmt(w)
  BY <1>3 DEF FpToInt
<1>5. rs2(v) = rs2(w)
  <2>1. rs2(v) \in 0..31 /\ rs2(w) \in 0..31
    BY FieldRanges, Zenon
  <2>2. /\ rs2(v) < 4 /\ FcvtIntName(v) = At(<<"FcvtW", "FcvtWu", "FcvtL", "FcvtLu">>, rs2(v))
        /\ rs2(w) < 4 /\ FcvtIntName(w) = At(<<"FcvtW", "FcvtWu", "FcvtL", "FcvtLu">>, rs2(w))
    BY <1>3, Zenon DEF FcvtIntName
  <2>3. \A k, l \in 0..31 :
           k < 4 /\ l < 4 =>
             (At(<<"FcvtW", "FcvtWu", "FcvtL", "FcvtLu">>, k) = At(<<"FcvtW", "FcvtWu",
                "FcvtL", "FcvtLu">>, l)
              => k = l)
    BY DEF At
  <2> QED BY <1>3, <2>1, <2>2, <2>3, Zenon
<1>6. FpF(v) = FpF(w)
  BY Zenon
<1> QED BY <1>3, <1>4, <1>5, <1>6, FpSame, Zenon

FmvXName(w) == IF rs2(w) = 0 THEN IF funct3(w) < 2 THEN At(<<"FmvX", "Fclass">>, funct3(w))
   ELSE "-" ELSE "-"

LEMMA FmvXIs ==
  ASSUME NEW w, FpF(w) = 56
  PROVE  OpFp(w) = Op(FmvXName(w), FpToInt(w))
BY DEF OpFp, FpF, FpFmt, FmvXName, FpToInt

LEMMA FmvXOp ==
  ASSUME NEW w \in Word, FpF(w) = 56, OpFp(w) # Illegal
  PROVE  OpFp(w).op \in {"FmvX", "Fclass"}
<1>1. OpFp(w) = Op(FmvXName(w), FpToInt(w))
  BY FmvXIs, Zenon
<1>2. OpFp(w).op = FmvXName(w) /\ FmvXName(w) # "-"
  BY <1>1, OpName
<1>3. FmvXName(w) \in {"FmvX", "Fclass"}
  <2>1. funct3(w) \in 0..7
    BY FieldRanges, Zenon
  <2>2. \A k \in 0..7 : k < 2 => At(<<"FmvX", "Fclass">>, k) \in {"FmvX", "Fclass"}
    BY DEF At
  <2> QED BY <1>2, <2>1, <2>2, Zenon DEF FmvXName
<1> QED BY <1>2, <1>3, Zenon

LEMMA FmvXAlike ==
  ASSUME NEW v \in Word, NEW w \in Word, Field(v, 6, 0) = Field(w, 6, 0),
         FpF(v) = 56, FpF(w) = 56, OpFp(v) = OpFp(w), OpFp(v) # Illegal
  PROVE  v = w
<1>1. OpFp(v) = Op(FmvXName(v), FpToInt(v)) /\ OpFp(w) = Op(FmvXName(w), FpToInt(w))
  BY FmvXIs, Zenon
<1>2. Alike(FmvXName(v), FpToInt(v), FmvXName(w), FpToInt(w))
  BY <1>1, Zenon DEF Alike
<1>3. FmvXName(v) = FmvXName(w) /\ FpToInt(v) = FpToInt(w) /\ FmvXName(v) # "-"
  BY <1>2, OpAlike
<1>4. rd(v) = rd(w) /\ rs1(v) = rs1(w) /\ FpFmt(v) = FpFmt(w)
  BY <1>3 DEF FpToInt
<1>5. funct3(v) = funct3(w)
  <2>1. funct3(v) \in 0..7 /\ funct3(w) \in 0..7
    BY FieldRanges, Zenon
  <2>2. /\ funct3(v) < 2 /\ FmvXName(v) = At(<<"FmvX", "Fclass">>, funct3(v))
        /\ funct3(w) < 2 /\ FmvXName(w) = At(<<"FmvX", "Fclass">>, funct3(w))
    BY <1>3, Zenon DEF FmvXName
  <2>3. \A k, l \in 0..7 :
           k < 2 /\ l < 2 =>
             (At(<<"FmvX", "Fclass">>, k) = At(<<"FmvX", "Fclass">>, l)
              => k = l)
    BY DEF At
  <2> QED BY <1>3, <2>1, <2>2, <2>3, Zenon
<1>6. rs2(v) = rs2(w)
  BY <1>3, Zenon DEF FmvXName
<1>7. FpF(v) = FpF(w)
  BY Zenon
<1> QED BY <1>3, <1>4, <1>5, <1>6, <1>7, FpSame, Zenon

FcompareName(w) == IF funct3(w) < 3 THEN At(<<"Fle", "Flt", "Feq">>, funct3(w)) ELSE "-"

LEMMA FcompareIs ==
  ASSUME NEW w, FpF(w) = 40
  PROVE  OpFp(w) = Op(FcompareName(w), FpTest(w))
BY DEF OpFp, FpF, FpFmt, FcompareName, FpTest

LEMMA FcompareOp ==
  ASSUME NEW w \in Word, FpF(w) = 40, OpFp(w) # Illegal
  PROVE  OpFp(w).op \in {"Fle", "Flt", "Feq"}
<1>1. OpFp(w) = Op(FcompareName(w), FpTest(w))
  BY FcompareIs, Zenon
<1>2. OpFp(w).op = FcompareName(w) /\ FcompareName(w) # "-"
  BY <1>1, OpName
<1>3. FcompareName(w) \in {"Fle", "Flt", "Feq"}
  <2>1. funct3(w) \in 0..7
    BY FieldRanges, Zenon
  <2>2. \A k \in 0..7 : k < 3 => At(<<"Fle", "Flt", "Feq">>, k) \in {"Fle", "Flt", "Feq"}
    BY DEF At
  <2> QED BY <1>2, <2>1, <2>2, Zenon DEF FcompareName
<1> QED BY <1>2, <1>3, Zenon

LEMMA FcompareAlike ==
  ASSUME NEW v \in Word, NEW w \in Word, Field(v, 6, 0) = Field(w, 6, 0),
         FpF(v) = 40, FpF(w) = 40, OpFp(v) = OpFp(w), OpFp(v) # Illegal
  PROVE  v = w
<1>1. OpFp(v) = Op(FcompareName(v), FpTest(v)) /\ OpFp(w) = Op(FcompareName(w), FpTest(w))
  BY FcompareIs, Zenon
<1>2. Alike(FcompareName(v), FpTest(v), FcompareName(w), FpTest(w))
  BY <1>1, Zenon DEF Alike
<1>3. FcompareName(v) = FcompareName(w) /\ FpTest(v) = FpTest(w) /\ FcompareName(v) # "-"
  BY <1>2, OpAlike
<1>4. rd(v) = rd(w) /\ rs1(v) = rs1(w) /\ rs2(v) = rs2(w) /\ FpFmt(v) = FpFmt(w)
  BY <1>3 DEF FpTest
<1>5. funct3(v) = funct3(w)
  <2>1. funct3(v) \in 0..7 /\ funct3(w) \in 0..7
    BY FieldRanges, Zenon
  <2>2. /\ funct3(v) < 3 /\ FcompareName(v) = At(<<"Fle", "Flt", "Feq">>, funct3(v))
        /\ funct3(w) < 3 /\ FcompareName(w) = At(<<"Fle", "Flt", "Feq">>, funct3(w))
    BY <1>3, Zenon DEF FcompareName
  <2>3. \A k, l \in 0..7 :
           k < 3 /\ l < 3 =>
             (At(<<"Fle", "Flt", "Feq">>, k) = At(<<"Fle", "Flt", "Feq">>, l)
              => k = l)
    BY DEF At
  <2> QED BY <1>3, <2>1, <2>2, <2>3, Zenon
<1>6. FpF(v) = FpF(w)
  BY Zenon
<1> QED BY <1>3, <1>4, <1>5, <1>6, FpSame, Zenon

FcvtFloatName(w) == IF rs2(w) < 4 THEN At(<<"FcvtFW", "FcvtFWu", "FcvtFL", "FcvtFLu">>,
   rs2(w)) ELSE "-"

LEMMA FcvtFloatIs ==
  ASSUME NEW w, FpF(w) = 52
  PROVE  OpFp(w) = Rounded(w, FcvtFloatName(w), FpFromInt(w))
BY DEF OpFp, FpF, FpFmt, FcvtFloatName, FpFromInt

LEMMA FcvtFloatOp ==
  ASSUME NEW w \in Word, FpF(w) = 52, OpFp(w) # Illegal
  PROVE  OpFp(w).op \in {"FcvtFW", "FcvtFWu", "FcvtFL", "FcvtFLu"}
<1>1. OpFp(w) = Rounded(w, FcvtFloatName(w), FpFromInt(w))
  BY FcvtFloatIs, Zenon
<1>2. OpFp(w).op = FcvtFloatName(w) /\ FcvtFloatName(w) # "-"
  BY <1>1, RoundedName
<1>3. FcvtFloatName(w) \in {"FcvtFW", "FcvtFWu", "FcvtFL", "FcvtFLu"}
  <2>1. rs2(w) \in 0..31
    BY FieldRanges, Zenon
  <2>2. \A k \in 0..31 : k < 4 => At(<<"FcvtFW", "FcvtFWu", "FcvtFL", "FcvtFLu">>,
           k) \in {"FcvtFW", "FcvtFWu", "FcvtFL", "FcvtFLu"}
    BY DEF At
  <2> QED BY <1>2, <2>1, <2>2, Zenon DEF FcvtFloatName
<1> QED BY <1>2, <1>3, Zenon

LEMMA FcvtFloatAlike ==
  ASSUME NEW v \in Word, NEW w \in Word, Field(v, 6, 0) = Field(w, 6, 0),
         FpF(v) = 52, FpF(w) = 52, OpFp(v) = OpFp(w), OpFp(v) # Illegal
  PROVE  v = w
<1>1. OpFp(v) = Rounded(v, FcvtFloatName(v), FpFromInt(v))
         /\ OpFp(w) = Rounded(w, FcvtFloatName(w), FpFromInt(w))
  BY FcvtFloatIs, Zenon
<1>2. AlikeRounded(v, FcvtFloatName(v), FpFromInt(v), w, FcvtFloatName(w), FpFromInt(w))
  BY <1>1, Zenon DEF AlikeRounded
<1>3. FcvtFloatName(v) = FcvtFloatName(w) /\ FpFromInt(v) = FpFromInt(w)
         /\ FcvtFloatName(v) # "-" /\ funct3(v) = funct3(w)
  BY <1>2, RoundedAlike
<1>4. rd(v) = rd(w) /\ rs1(v) = rs1(w) /\ FpFmt(v) = FpFmt(w)
  BY <1>3 DEF FpFromInt
<1>5. rs2(v) = rs2(w)
  <2>1. rs2(v) \in 0..31 /\ rs2(w) \in 0..31
    BY FieldRanges, Zenon
  <2>2. /\ rs2(v) < 4 /\ FcvtFloatName(v) = At(<<"FcvtFW", "FcvtFWu", "FcvtFL", "FcvtFLu">>, rs2(v))
        /\ rs2(w) < 4 /\ FcvtFloatName(w) = At(<<"FcvtFW", "FcvtFWu", "FcvtFL", "FcvtFLu">>, rs2(w))
    BY <1>3, Zenon DEF FcvtFloatName
  <2>3. \A k, l \in 0..31 :
           k < 4 /\ l < 4 =>
             (At(<<"FcvtFW", "FcvtFWu", "FcvtFL", "FcvtFLu">>, k) = At(<<"FcvtFW", "FcvtFWu",
                "FcvtFL", "FcvtFLu">>, l)
              => k = l)
    BY DEF At
  <2> QED BY <1>3, <2>1, <2>2, <2>3, Zenon
<1>6. FpF(v) = FpF(w)
  BY Zenon
<1> QED BY <1>3, <1>4, <1>5, <1>6, FpSame, Zenon

FmvFName(w) == IF rs2(w) = 0 /\ funct3(w) = 0 THEN "FmvF" ELSE "-"

LEMMA FmvFIs ==
  ASSUME NEW w, FpF(w) = 60
  PROVE  OpFp(w) = Op(FmvFName(w), FpFromInt(w))
BY DEF OpFp, FpF, FpFmt, FmvFName, FpFromInt

LEMMA FmvFOp ==
  ASSUME NEW w \in Word, FpF(w) = 60, OpFp(w) # Illegal
  PROVE  OpFp(w).op \in {"FmvF"}
<1>1. OpFp(w) = Op(FmvFName(w), FpFromInt(w))
  BY FmvFIs, Zenon
<1>2. OpFp(w).op = FmvFName(w) /\ FmvFName(w) # "-"
  BY <1>1, OpName
<1>3. FmvFName(w) \in {"FmvF"}
  BY <1>2, Zenon DEF FmvFName
<1> QED BY <1>2, <1>3, Zenon

LEMMA FmvFAlike ==
  ASSUME NEW v \in Word, NEW w \in Word, Field(v, 6, 0) = Field(w, 6, 0),
         FpF(v) = 60, FpF(w) = 60, OpFp(v) = OpFp(w), OpFp(v) # Illegal
  PROVE  v = w
<1>1. OpFp(v) = Op(FmvFName(v), FpFromInt(v)) /\ OpFp(w) = Op(FmvFName(w), FpFromInt(w))
  BY FmvFIs, Zenon
<1>2. Alike(FmvFName(v), FpFromInt(v), FmvFName(w), FpFromInt(w))
  BY <1>1, Zenon DEF Alike
<1>3. FmvFName(v) = FmvFName(w) /\ FpFromInt(v) = FpFromInt(w) /\ FmvFName(v) # "-"
  BY <1>2, OpAlike
<1>4. rd(v) = rd(w) /\ rs1(v) = rs1(w) /\ FpFmt(v) = FpFmt(w)
  BY <1>3 DEF FpFromInt
<1>5. rs2(v) = rs2(w) /\ funct3(v) = funct3(w)
  BY <1>3, Zenon DEF FmvFName
<1>6. FpF(v) = FpF(w)
  BY Zenon
<1> QED BY <1>3, <1>4, <1>5, <1>6, FpSame, Zenon

\* What the name of a floating-point operation tells of funct7.
FpOf(n) ==
  CASE n \in {"Fadd"} -> 0
    [] n \in {"Fsub"} -> 2
    [] n \in {"Fmul"} -> 4
    [] n \in {"Fdiv"} -> 6
    [] n \in {"Fsqrt"} -> 22
    [] n \in {"Fsgnj", "Fsgnjn", "Fsgnjx"} -> 8
    [] n \in {"Fmin", "Fmax"} -> 10
    [] n \in {"Fcvt"} -> 16
    [] n \in {"FcvtW", "FcvtWu", "FcvtL", "FcvtLu"} -> 48
    [] n \in {"FmvX", "Fclass"} -> 56
    [] n \in {"Fle", "Flt", "Feq"} -> 40
    [] n \in {"FcvtFW", "FcvtFWu", "FcvtFL", "FcvtFLu"} -> 52
    [] n \in {"FmvF"} -> 60

LEMMA FpOther ==
  ASSUME NEW w, FpF(w) \notin {0, 2, 4, 6, 22, 8, 10, 16, 48, 56, 40, 52, 60}
  PROVE  OpFp(w) = Illegal
BY DEF OpFp, FpF

\* The name of a floating-point operation belongs to one value of funct7's upper
\* bits, and to no other opcode.
LEMMA FpOps ==
  ASSUME NEW w \in Word, OpFp(w) # Illegal
  PROVE  /\ FpF(w) \in {0, 2, 4, 6, 22, 8, 10, 16, 48, 56, 40, 52, 60}
         /\ FpOf(OpFp(w).op) = FpF(w) /\ OpcodeOf(OpFp(w).op) = \h53
<1>1. FpF(w) \in {0, 2, 4, 6, 22, 8, 10, 16, 48, 56, 40, 52, 60}
  BY FpOther, Zenon
<1>2. CASE FpF(w) = 0
  <2>1. OpFp(w).op \in {"Fadd"}
    BY <1>2, FaddOp, Zenon
  <2>2. \A n \in {"Fadd"} : FpOf(n) = 0 /\ OpcodeOf(n) = \h53
    BY DEF FpOf, OpcodeOf
  <2>3. FpOf(OpFp(w).op) = 0 /\ OpcodeOf(OpFp(w).op) = \h53
    BY <2>1, <2>2
  <2> QED BY <1>1, <1>2, <2>3, Zenon
<1>3. CASE FpF(w) = 2
  <2>1. OpFp(w).op \in {"Fsub"}
    BY <1>3, FsubOp, Zenon
  <2>2. \A n \in {"Fsub"} : FpOf(n) = 2 /\ OpcodeOf(n) = \h53
    BY DEF FpOf, OpcodeOf
  <2>3. FpOf(OpFp(w).op) = 2 /\ OpcodeOf(OpFp(w).op) = \h53
    BY <2>1, <2>2
  <2> QED BY <1>1, <1>3, <2>3, Zenon
<1>4. CASE FpF(w) = 4
  <2>1. OpFp(w).op \in {"Fmul"}
    BY <1>4, FmulOp, Zenon
  <2>2. \A n \in {"Fmul"} : FpOf(n) = 4 /\ OpcodeOf(n) = \h53
    BY DEF FpOf, OpcodeOf
  <2>3. FpOf(OpFp(w).op) = 4 /\ OpcodeOf(OpFp(w).op) = \h53
    BY <2>1, <2>2
  <2> QED BY <1>1, <1>4, <2>3, Zenon
<1>5. CASE FpF(w) = 6
  <2>1. OpFp(w).op \in {"Fdiv"}
    BY <1>5, FdivOp, Zenon
  <2>2. \A n \in {"Fdiv"} : FpOf(n) = 6 /\ OpcodeOf(n) = \h53
    BY DEF FpOf, OpcodeOf
  <2>3. FpOf(OpFp(w).op) = 6 /\ OpcodeOf(OpFp(w).op) = \h53
    BY <2>1, <2>2
  <2> QED BY <1>1, <1>5, <2>3, Zenon
<1>6. CASE FpF(w) = 22
  <2>1. OpFp(w).op \in {"Fsqrt"}
    BY <1>6, FsqrtOp, Zenon
  <2>2. \A n \in {"Fsqrt"} : FpOf(n) = 22 /\ OpcodeOf(n) = \h53
    BY DEF FpOf, OpcodeOf
  <2>3. FpOf(OpFp(w).op) = 22 /\ OpcodeOf(OpFp(w).op) = \h53
    BY <2>1, <2>2
  <2> QED BY <1>1, <1>6, <2>3, Zenon
<1>7. CASE FpF(w) = 8
  <2>1. OpFp(w).op \in {"Fsgnj", "Fsgnjn", "Fsgnjx"}
    BY <1>7, FsgnjOp, Zenon
  <2>2. \A n \in {"Fsgnj", "Fsgnjn", "Fsgnjx"} : FpOf(n) = 8 /\ OpcodeOf(n) = \h53
    BY DEF FpOf, OpcodeOf
  <2>3. FpOf(OpFp(w).op) = 8 /\ OpcodeOf(OpFp(w).op) = \h53
    BY <2>1, <2>2
  <2> QED BY <1>1, <1>7, <2>3, Zenon
<1>8. CASE FpF(w) = 10
  <2>1. OpFp(w).op \in {"Fmin", "Fmax"}
    BY <1>8, FminmaxOp, Zenon
  <2>2. \A n \in {"Fmin", "Fmax"} : FpOf(n) = 10 /\ OpcodeOf(n) = \h53
    BY DEF FpOf, OpcodeOf
  <2>3. FpOf(OpFp(w).op) = 10 /\ OpcodeOf(OpFp(w).op) = \h53
    BY <2>1, <2>2
  <2> QED BY <1>1, <1>8, <2>3, Zenon
<1>9. CASE FpF(w) = 16
  <2>1. OpFp(w).op \in {"Fcvt"}
    BY <1>9, FcvtOp, Zenon
  <2>2. \A n \in {"Fcvt"} : FpOf(n) = 16 /\ OpcodeOf(n) = \h53
    BY DEF FpOf, OpcodeOf
  <2>3. FpOf(OpFp(w).op) = 16 /\ OpcodeOf(OpFp(w).op) = \h53
    BY <2>1, <2>2
  <2> QED BY <1>1, <1>9, <2>3, Zenon
<1>10. CASE FpF(w) = 48
  <2>1. OpFp(w).op \in {"FcvtW", "FcvtWu", "FcvtL", "FcvtLu"}
    BY <1>10, FcvtIntOp, Zenon
  <2>2. \A n \in {"FcvtW", "FcvtWu", "FcvtL", "FcvtLu"} : FpOf(n) = 48 /\ OpcodeOf(n) = \h53
    BY DEF FpOf, OpcodeOf
  <2>3. FpOf(OpFp(w).op) = 48 /\ OpcodeOf(OpFp(w).op) = \h53
    BY <2>1, <2>2
  <2> QED BY <1>1, <1>10, <2>3, Zenon
<1>11. CASE FpF(w) = 56
  <2>1. OpFp(w).op \in {"FmvX", "Fclass"}
    BY <1>11, FmvXOp, Zenon
  <2>2. \A n \in {"FmvX", "Fclass"} : FpOf(n) = 56 /\ OpcodeOf(n) = \h53
    BY DEF FpOf, OpcodeOf
  <2>3. FpOf(OpFp(w).op) = 56 /\ OpcodeOf(OpFp(w).op) = \h53
    BY <2>1, <2>2
  <2> QED BY <1>1, <1>11, <2>3, Zenon
<1>12. CASE FpF(w) = 40
  <2>1. OpFp(w).op \in {"Fle", "Flt", "Feq"}
    BY <1>12, FcompareOp, Zenon
  <2>2. \A n \in {"Fle", "Flt", "Feq"} : FpOf(n) = 40 /\ OpcodeOf(n) = \h53
    BY DEF FpOf, OpcodeOf
  <2>3. FpOf(OpFp(w).op) = 40 /\ OpcodeOf(OpFp(w).op) = \h53
    BY <2>1, <2>2
  <2> QED BY <1>1, <1>12, <2>3, Zenon
<1>13. CASE FpF(w) = 52
  <2>1. OpFp(w).op \in {"FcvtFW", "FcvtFWu", "FcvtFL", "FcvtFLu"}
    BY <1>13, FcvtFloatOp, Zenon
  <2>2. \A n \in {"FcvtFW", "FcvtFWu", "FcvtFL", "FcvtFLu"} : FpOf(n) = 52 /\ OpcodeOf(n) = \h53
    BY DEF FpOf, OpcodeOf
  <2>3. FpOf(OpFp(w).op) = 52 /\ OpcodeOf(OpFp(w).op) = \h53
    BY <2>1, <2>2
  <2> QED BY <1>1, <1>13, <2>3, Zenon
<1>14. CASE FpF(w) = 60
  <2>1. OpFp(w).op \in {"FmvF"}
    BY <1>14, FmvFOp, Zenon
  <2>2. \A n \in {"FmvF"} : FpOf(n) = 60 /\ OpcodeOf(n) = \h53
    BY DEF FpOf, OpcodeOf
  <2>3. FpOf(OpFp(w).op) = 60 /\ OpcodeOf(OpFp(w).op) = \h53
    BY <2>1, <2>2
  <2> QED BY <1>1, <1>14, <2>3, Zenon
<1> QED BY <1>1, <1>2, <1>3, <1>4, <1>5, <1>6, <1>7, <1>8, <1>9, <1>10, <1>11, <1>12, <1>13,
   <1>14, Zenon

LEMMA OpFpOpcode ==
  ASSUME NEW w \in Word, Field(w, 6, 0) = \h53, decode(w) # Illegal
  PROVE  OpcodeOf(decode(w).op) = \h53
<1>1. decode(w) = OpFp(w)
  BY DecodeOpFp, Zenon
<1> QED BY <1>1, FpOps

LEMMA OpFpAlike ==
  ASSUME NEW v \in Word, NEW w \in Word, Field(v, 6, 0) = \h53, Field(w, 6, 0) = \h53,
         decode(v) = decode(w), decode(v) # Illegal
  PROVE  v = w
<1>1. /\ OpFp(v) = OpFp(w) /\ OpFp(v) # Illegal /\ OpFp(w) # Illegal
      /\ Field(v, 6, 0) = Field(w, 6, 0)
  BY DecodeOpFp, Zenon
<1>2. FpF(v) \in {0, 2, 4, 6, 22, 8, 10, 16, 48, 56, 40, 52, 60} /\ FpF(v) = FpF(w)
  <2>1. FpF(v) \in {0, 2, 4, 6, 22, 8, 10, 16, 48, 56, 40, 52, 60} /\ FpOf(OpFp(v).op) = FpF(v)
    BY <1>1, FpOps, Zenon
  <2>2. FpOf(OpFp(w).op) = FpF(w)
    BY <1>1, FpOps, Zenon
  <2> QED BY <1>1, <2>1, <2>2, Zenon
<1>3. CASE FpF(v) = 0
  <2>1. FpF(w) = 0
    BY <1>2, <1>3, Zenon
  <2> QED BY <1>1, <1>3, <2>1, FaddAlike, Zenon
<1>4. CASE FpF(v) = 2
  <2>1. FpF(w) = 2
    BY <1>2, <1>4, Zenon
  <2> QED BY <1>1, <1>4, <2>1, FsubAlike, Zenon
<1>5. CASE FpF(v) = 4
  <2>1. FpF(w) = 4
    BY <1>2, <1>5, Zenon
  <2> QED BY <1>1, <1>5, <2>1, FmulAlike, Zenon
<1>6. CASE FpF(v) = 6
  <2>1. FpF(w) = 6
    BY <1>2, <1>6, Zenon
  <2> QED BY <1>1, <1>6, <2>1, FdivAlike, Zenon
<1>7. CASE FpF(v) = 22
  <2>1. FpF(w) = 22
    BY <1>2, <1>7, Zenon
  <2> QED BY <1>1, <1>7, <2>1, FsqrtAlike, Zenon
<1>8. CASE FpF(v) = 8
  <2>1. FpF(w) = 8
    BY <1>2, <1>8, Zenon
  <2> QED BY <1>1, <1>8, <2>1, FsgnjAlike, Zenon
<1>9. CASE FpF(v) = 10
  <2>1. FpF(w) = 10
    BY <1>2, <1>9, Zenon
  <2> QED BY <1>1, <1>9, <2>1, FminmaxAlike, Zenon
<1>10. CASE FpF(v) = 16
  <2>1. FpF(w) = 16
    BY <1>2, <1>10, Zenon
  <2> QED BY <1>1, <1>10, <2>1, FcvtAlike, Zenon
<1>11. CASE FpF(v) = 48
  <2>1. FpF(w) = 48
    BY <1>2, <1>11, Zenon
  <2> QED BY <1>1, <1>11, <2>1, FcvtIntAlike, Zenon
<1>12. CASE FpF(v) = 56
  <2>1. FpF(w) = 56
    BY <1>2, <1>12, Zenon
  <2> QED BY <1>1, <1>12, <2>1, FmvXAlike, Zenon
<1>13. CASE FpF(v) = 40
  <2>1. FpF(w) = 40
    BY <1>2, <1>13, Zenon
  <2> QED BY <1>1, <1>13, <2>1, FcompareAlike, Zenon
<1>14. CASE FpF(v) = 52
  <2>1. FpF(w) = 52
    BY <1>2, <1>14, Zenon
  <2> QED BY <1>1, <1>14, <2>1, FcvtFloatAlike, Zenon
<1>15. CASE FpF(v) = 60
  <2>1. FpF(w) = 60
    BY <1>2, <1>15, Zenon
  <2> QED BY <1>1, <1>15, <2>1, FmvFAlike, Zenon
<1> QED BY <1>2, <1>3, <1>4, <1>5, <1>6, <1>7, <1>8, <1>9, <1>10, <1>11, <1>12, <1>13, <1>14,
   <1>15, Zenon

\* Only FENCE, FENCE.I and JALR come from the opcodes whose fields decode does
\* not read in full.
LEMMA UnreadFields ==
  ASSUME NEW w \in Word, Field(w, 6, 0) \in {\h0F, \h67}, decode(w) # Illegal
  PROVE  decode(w).op \in {"Fence", "FenceI", "Jalr"}
<1>1. CASE Field(w, 6, 0) = \h67
  <2>1. decode(w) = Op("Jalr", RI(rd(w), rs1(w), i_imm(w)))
    BY <1>1, SMTT(30) DEF decode
  <2>2. decode(w).op = "Jalr"
    BY <2>1, OpName
  <2> QED BY <2>2, Zenon
<1>2. CASE Field(w, 6, 0) = \h0F
  <2> DEFINE names == <<"Fence", "FenceI", "-", "-", "-", "-", "-", "-">>
  <2>1. decode(w) = Op(At(names, funct3(w)), <<>>)
    BY <1>2, SMTT(30) DEF decode
  <2>2. funct3(w) \in 0..7
    BY FieldRanges, Zenon
  <2>3. \A e \in 0..7 : At(names, e) \in {"Fence", "FenceI", "-"}
    BY DEF At
  <2> HIDE DEF names
  <2>4. decode(w).op = At(names, funct3(w)) /\ At(names, funct3(w)) # "-"
    BY <2>1, OpName
  <2> QED BY <2>2, <2>3, <2>4
<1> QED BY <1>1, <1>2, Zenon

(***************************************************************************)
(* decode of decode.rs takes no two instructions for one another: if it    *)
(* accepts a word of 32 bits, as anything but FENCE, FENCE.I or JALR, then *)
(* no other word decodes to the same operation with the same operands.  So *)
(* every bit of the word counts, and the tables, masks and shifts of the   *)
(* decoder lose and mix up nothing, for all 2^32 words.                    *)
(***************************************************************************)
THEOREM DecodeAlike ==
  ASSUME NEW v \in Word, NEW w \in Word, decode(v) = decode(w), decode(v) # Illegal,
         decode(v).op \notin {"Fence", "FenceI", "Jalr"}
  PROVE  v = w
<1> DEFINE Codes == {\h03, \h07, \h13, \h17, \h1B, \h23, \h27, \h2F, \h33, \h37, \h3B, \h43, \h47,
                     \h4B, \h4F, \h53, \h63, \h6F, \h73}
<1>1. ASSUME NEW x \in Word, decode(x) # Illegal, decode(x).op \notin {"Fence", "FenceI", "Jalr"}
      PROVE  Field(x, 6, 0) \in Codes /\ OpcodeOf(decode(x).op) = Field(x, 6, 0)
  <2>1. Field(x, 6, 0) \in Codes
    <3>1. Field(x, 6, 0) \notin {\h0F, \h67}
      BY <1>1, UnreadFields, Zenon
    <3>2. ~(Field(x, 6, 0) \notin {\h03, \h07, \h0F, \h13, \h17, \h1B, \h23, \h27, \h2F, \h33, \h37,
                                   \h3B, \h43, \h47, \h4B, \h4F, \h53, \h63, \h67, \h6F, \h73})
      BY <1>1, DecodeOther
    <3> QED BY <3>1, <3>2
  <2>2. Field(x, 6, 0) = \h03 => OpcodeOf(decode(x).op) = \h03
    BY <1>1, LoadOpcode
  <2>3. Field(x, 6, 0) = \h07 => OpcodeOf(decode(x).op) = \h07
    BY <1>1, FloatLoadOpcode
  <2>4. Field(x, 6, 0) = \h13 => OpcodeOf(decode(x).op) = \h13
    BY <1>1, OpImmOpcode
  <2>5. Field(x, 6, 0) = \h17 => OpcodeOf(decode(x).op) = \h17
    BY <1>1, AuipcOpcode
  <2>6. Field(x, 6, 0) = \h1B => OpcodeOf(decode(x).op) = \h1B
    BY <1>1, OpImm32Opcode
  <2>7. Field(x, 6, 0) = \h23 => OpcodeOf(decode(x).op) = \h23
    BY <1>1, StoreOpcode
  <2>8. Field(x, 6, 0) = \h27 => OpcodeOf(decode(x).op) = \h27
    BY <1>1, FloatStoreOpcode
  <2>9. Field(x, 6, 0) = \h2F => OpcodeOf(decode(x).op) = \h2F
    BY <1>1, AtomicOpcode
  <2>10. Field(x, 6, 0) = \h33 => OpcodeOf(decode(x).op) = \h33
    BY <1>1, AluOpcode
  <2>11. Field(x, 6, 0) = \h37 => OpcodeOf(decode(x).op) = \h37
    BY <1>1, LuiOpcode
  <2>12. Field(x, 6, 0) = \h3B => OpcodeOf(decode(x).op) = \h3B
    BY <1>1, Alu32Opcode
  <2>13. Field(x, 6, 0) = \h43 => OpcodeOf(decode(x).op) = \h43
    BY <1>1, FmaddOpcode
  <2>14. Field(x, 6, 0) = \h47 => OpcodeOf(decode(x).op) = \h47
    BY <1>1, FmsubOpcode
  <2>15. Field(x, 6, 0) = \h4B => OpcodeOf(decode(x).op) = \h4B
    BY <1>1, FnmsubOpcode
  <2>16. Field(x, 6, 0) = \h4F => OpcodeOf(decode(x).op) = \h4F
    BY <1>1, FnmaddOpcode
  <2>17. Field(x, 6, 0) = \h53 => OpcodeOf(decode(x).op) = \h53
    BY <1>1, OpFpOpcode
  <2>18. Field(x, 6, 0) = \h63 => OpcodeOf(decode(x).op) = \h63
    BY <1>1, BranchOpcode
  <2>19. Field(x, 6, 0) = \h6F => OpcodeOf(decode(x).op) = \h6F
    BY <1>1, JalOpcode
  <2>20. Field(x, 6, 0) = \h73 => OpcodeOf(decode(x).op) = \h73
    BY <1>1, SystemOpcode
  <2> QED BY <2>1, <2>2, <2>3, <2>4, <2>5, <2>6, <2>7, <2>8, <2>9, <2>10,
            <2>11, <2>12, <2>13, <2>14, <2>15, <2>16, <2>17, <2>18, <2>19, <2>20
<1>2. Field(v, 6, 0) \in Codes /\ Field(v, 6, 0) = Field(w, 6, 0)
  <2>1. Field(v, 6, 0) \in Codes /\ OpcodeOf(decode(v).op) = Field(v, 6, 0)
    BY <1>1, Zenon
  <2>2. OpcodeOf(decode(w).op) = Field(w, 6, 0)
    BY <1>1, Zenon
  <2> QED BY <2>1, <2>2, Zenon
<1>3. CASE Field(v, 6, 0) = \h03
  BY <1>2, <1>3, LoadAlike
<1>4. CASE Field(v, 6, 0) = \h07
  BY <1>2, <1>4, FloatLoadAlike
<1>5. CASE Field(v, 6, 0) = \h13
  BY <1>2, <1>5, OpImmAlike
<1>6. CASE Field(v, 6, 0) = \h17
  BY <1>2, <1>6, AuipcAlike
<1>7. CASE Field(v, 6, 0) = \h1B
  BY <1>2, <1>7, OpImm32Alike
<1>8. CASE Field(v, 6, 0) = \h23
  BY <1>2, <1>8, StoreAlike
<1>9. CASE Field(v, 6, 0) = \h27
  BY <1>2, <1>9, FloatStoreAlike
<1>10. CASE Field(v, 6, 0) = \h2F
  BY <1>2, <1>10, AtomicAlike
<1>11. CASE Field(v, 6, 0) = \h33
  BY <1>2, <1>11, AluAlike
<1>12. CASE Field(v, 6, 0) = \h37
  BY <1>2, <1>12, LuiAlike
<1>13. CASE Field(v, 6, 0) = \h3B
  BY <1>2, <1>13, Alu32Alike
<1>14. CASE Field(v, 6, 0) = \h43
  BY <1>2, <1>14, FmaddAlike
<1>15. CASE Field(v, 6, 0) = \h47
  BY <1>2, <1>15, FmsubAlike
<1>16. CASE Field(v, 6, 0) = \h4B
  BY <1>2, <1>16, FnmsubAlike
<1>17. CASE Field(v, 6, 0) = \h4F
  BY <1>2, <1>17, FnmaddAlike
<1>18. CASE Field(v, 6, 0) = \h53
  BY <1>2, <1>18, OpFpAlike
<1>19. CASE Field(v, 6, 0) = \h63
  BY <1>2, <1>19, BranchAlike
<1>20. CASE Field(v, 6, 0) = \h6F
  BY <1>2, <1>20, JalAlike
<1>21. CASE Field(v, 6, 0) = \h73
  BY <1>2, <1>21, SystemAlike
<1> QED BY <1>2, <1>3, <1>4, <1>5, <1>6, <1>7, <1>8, <1>9, <1>10, <1>11,
          <1>12, <1>13, <1>14, <1>15, <1>16, <1>17, <1>18, <1>19, <1>20, <1>21
=============================================================================
