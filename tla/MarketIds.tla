------------------------------- MODULE MarketIds -------------------------------
(***************************************************************************)
(* parse_market_id (market/src/validation.rs): a market id written in      *)
(* decimal, read one character at a time into a u32.  The base and the     *)
(* width are parameters, so that small instances reach the overflow.       *)
(***************************************************************************)
EXTENDS Integers, Sequences

CONSTANTS
  Base,                 \* 10
  U32_MAX,
  MaxLength,            \* the longest text that is looked at: 10 characters
  Texts,                \* texts that callers pass
  NoDigit               \* any character that is not a digit

VARIABLES
  text,                 \* the argument of the call
  read,                 \* how many of its characters the loop has consumed
  n,                    \* the value so far
  verdict               \* "idle" before the first call

idVars == <<text, read, n, verdict>>

Digits == 0 .. Base - 1

\* Only in the assumption: the powers of the base.
Powers[k \in 0 .. MaxLength] == IF k = 0 THEN 1 ELSE Powers[k - 1] * Base

\* A number that needs more than MaxLength digits is none of the width's (10^10 is
\* more than 4294967295).
ASSUME IdsAssumption ==
  /\ Base \in Nat /\ Base > 1
  /\ U32_MAX \in Nat /\ MaxLength \in Nat
  /\ Powers[MaxLength] > U32_MAX
  /\ NoDigit \notin Digits
  /\ Texts \subseteq Seq(Digits \cup {NoDigit})

IdsInit == text = <<>> /\ read = 0 /\ n = 0 /\ verdict = "idle"

\* The guard on the length comes before the loop.
Call(t) ==
  /\ verdict # "reading"
  /\ text' = t /\ read' = 0 /\ n' = 0
  /\ verdict' = IF Len(t) = 0 \/ Len(t) > MaxLength THEN "refused" ELSE "reading"

\* Fault: the multiplication wraps around, only the addition is checked.
TimesTenWrapped(m, digit) == ((m * Base) % (U32_MAX + 1)) + digit

\* checked_mul(10) and checked_add: either of them over U32_MAX ends the loop.
TimesTenPlus(m, digit) == m * Base + digit

Refuse == verdict' = "refused" /\ UNCHANGED <<text, read, n>>

ReadCharacter ==
  /\ verdict = "reading" /\ read < Len(text)
  /\ LET c == text[read + 1] IN
       IF c = NoDigit \/ TimesTenPlus(n, c) > U32_MAX THEN Refuse
       ELSE /\ n' = TimesTenPlus(n, c) /\ read' = read + 1
            /\ UNCHANGED <<text, verdict>>

Return ==
  /\ verdict = "reading" /\ read = Len(text)
  /\ verdict' = "parsed"
  /\ UNCHANGED <<text, read, n>>

IdsStep == (\E t \in Texts : Call(t)) \/ ReadCharacter \/ Return

IdsSpec == IdsInit /\ [][IdsStep]_idVars

-------------------------------------------------------------------------------
\* Properties.

IsDecimal(t) == t # <<>> /\ \A i \in DOMAIN t : t[i] \in Digits

\* What a decimal text denotes.
Value(t) ==
  LET upTo[i \in 0 .. Len(t)] == IF i = 0 THEN 0 ELSE upTo[i - 1] * Base + t[i]
  IN  upTo[Len(t)]

\* A text is taken for a market exactly if it denotes one, and for that one: nothing
\* is read modulo 2^32, and no number that a u32 can hold is out of reach when it is
\* written without leading zeros ("InvalidQuantity if empty, non-digit, or overflow").
ParsedForWhatItSays ==
  /\ verdict = "parsed" => IsDecimal(text) /\ n = Value(text)
  /\ verdict = "refused" =>
       \/ ~IsDecimal(text)
       \/ Value(text) > U32_MAX
       \/ text[1] = 0 /\ Len(text) > MaxLength
===============================================================================
