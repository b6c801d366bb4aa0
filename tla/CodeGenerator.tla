--------------------------- MODULE CodeGenerator ---------------------------
(***************************************************************************)
(* Base62Generator.Generate (codegen/base62.go): random bytes are read in  *)
(* batches of the length of the code, and those that would favour the      *)
(* first characters of the alphabet are skipped.  A character is its       *)
(* position in the alphabet.                                               *)
(***************************************************************************)
EXTENDS Naturals, Sequences, FiniteSets

CONSTANTS AlphabetSize,  \* len(base62Alphabet)
          ByteValues,    \* 256
          CodeLength     \* defaultCodeLength

ASSUME GeneratorAssumption ==
    /\ AlphabetSize \in Nat \ {0} /\ ByteValues \in Nat /\ CodeLength \in Nat \ {0}
    /\ AlphabetSize <= ByteValues

VARIABLES generate,  \* "reading", "consuming", "done" or "failed"
          code,      \* the characters so far
          unread     \* bytes of the batch not looked at

generatorVars == <<generate, code, unread>>

Bytes == 0..(ByteValues - 1)
Alphabet == 0..(AlphabetSize - 1)

(* Seeded fault: no byte is skipped.                                       *)
NoLimit == ByteValues

UnbiasedByteLimit == ByteValues - (ByteValues % AlphabetSize)

(* What byte b appends to the code.                                        *)
Appended(b) == IF b >= UnbiasedByteLimit THEN <<>> ELSE <<b % AlphabetSize>>

(* The context is done, or the reader fails.                               *)
GenerateFails ==
    /\ generate = "reading"
    /\ generate' = "failed"
    /\ UNCHANGED <<code, unread>>

ReadBatch ==
    /\ generate = "reading"
    /\ generate' = "consuming"
    /\ unread' = CodeLength
    /\ UNCHANGED code

(* The rest of a batch is dropped when the code is complete.               *)
After(length, left) ==
    IF length = CodeLength THEN "done"
    ELSE IF left = 0 THEN "reading" ELSE "consuming"

ConsumeByte(b) ==
    /\ generate = "consuming"
    /\ code' = code \o Appended(b)
    /\ unread' = unread - 1
    /\ generate' = After(Len(code'), unread')

GeneratorInit == generate = "reading" /\ code = <<>> /\ unread = 0

GeneratorNext ==
    \/ GenerateFails \/ ReadBatch
    \/ \E b \in Bytes : ConsumeByte(b)

GeneratorSpec == GeneratorInit /\ [][GeneratorNext]_generatorVars

-----------------------------------------------------------------------------
(* Properties *)

(* The number of bytes that append character c.                            *)
Sources == [c \in Alphabet |-> Cardinality({b \in Bytes : Appended(b) = <<c>>})]

(* No code is likelier than another: at every byte of every batch each     *)
(* character of the alphabet can come from equally many byte values; and a *)
(* code is handed out at its full length, never longer, however many bytes *)
(* were skipped.                                                           *)
CodesUniform ==
    /\ generate = "consuming" =>
         \A c, d \in Alphabet : Sources[c] = Sources[d] /\ Sources[c] > 0
    /\ code \in Seq(Alphabet)
    /\ IF generate = "done" THEN Len(code) = CodeLength ELSE Len(code) < CodeLength
=============================================================================
