------------------------------ MODULE RecordText ------------------------------
(***************************************************************************)
(* The text of the boot records, token by token: mica_boot_parse of        *)
(* common/uboot/mica-records.h as the scanner it is, over everything that  *)
(* may follow the header "v1|", against the encoding that                  *)
(* mica_boot_render and src/image/fit-environment.ts write.  A token is a  *)
(* 64-digit name with its comma, a numeral, a separator or the end of the  *)
(* text.                                                                   *)
(***************************************************************************)
EXTENDS Integers, Sequences, SequencesExt

CONSTANTS
  Names,            \* the 64-digit names: deployment and kernel ids
  Numerals,         \* the numerals in their order, ten in the code
  GenerationLimit   \* MICA_BOOT_GENERATION_LIMIT (2^53 - 1 in the code)

\* A trial count is one of the first four numerals.
Tries == {"0", "1", "2", "3"}
Marks == {"comma", "dash", "semicolon", "end"}
Base == Len(Numerals)

\* A name, a numeral and a mark are never the same token.
ASSUME TextAssumption ==
  /\ Numerals \in Seq(STRING) /\ Base >= 4
  /\ Numerals[1] = "0" /\ Numerals[2] = "1" /\ Numerals[3] = "2" /\ Numerals[4] = "3"
  /\ \A i, j \in DOMAIN Numerals : Numerals[i] = Numerals[j] => i = j
  /\ Names \cap ToSet(Numerals) = {} /\ Names \cap Marks = {} /\ ToSet(Numerals) \cap Marks = {}
  /\ GenerationLimit \in Nat /\ GenerationLimit >= Base

VARIABLES
  text,        \* the tokens read
  at,          \* what is expected next, or "accepted" or "refused"
  out,         \* the records decoded so far
  id, kernel,  \* of the record being read
  generation   \* of the record being read

textVars == <<text, at, out, id, kernel, generation>>

MICA_BOOT_RECORD_LIMIT == 2
Confirmed == -1

Tokens == Names \cup ToSet(Numerals) \cup Marks
Value == [n \in ToSet(Numerals) |-> (CHOOSE i \in DOMAIN Numerals : Numerals[i] = n) - 1]

(***************************************************************************)
(* The encoding.                                                           *)
(***************************************************************************)
mica_boot_record ==
  [id : Names, kernel : Names, generation : 1 .. GenerationLimit, tries : {Confirmed} \cup {Value[n] : n \in Tries}]

Records ==
  {list \in UNION {[1 .. n -> mica_boot_record] : n \in 1 .. MICA_BOOT_RECORD_LIMIT} :
     \A i, j \in DOMAIN list :
       i < j => list[i].id # list[j].id /\ list[i].generation > list[j].generation}

Decimal[n \in 0 .. GenerationLimit] ==
  IF n < Base THEN <<Numerals[n + 1]>> ELSE Append(Decimal[n \div Base], Numerals[(n % Base) + 1])

Written(r) ==
  <<r.id, r.kernel>> \o Decimal[r.generation]
    \o <<"comma", IF r.tries = Confirmed THEN "dash" ELSE Numerals[r.tries + 1]>>

\* The text after each record of the list.
Rendered(list) ==
  LET upTo[n \in 0 .. Len(list)] ==
        IF n = 0 THEN <<>> ELSE upTo[n - 1] \o (IF n > 1 THEN <<"semicolon">> ELSE <<>>) \o Written(list[n])
  IN upTo[Len(list)]

mica_boot_render(list) == Rendered(list) \o <<"end">>

Texts == {mica_boot_render(list) : list \in Records}
Beginnings == UNION {{SubSeq(t, 1, n) : n \in 0 .. Len(t)} : t \in Texts}

(***************************************************************************)
(* The scanner.                                                            *)
(***************************************************************************)
TextInit ==
  /\ text = <<>>
  /\ at = "id"
  /\ out = <<>>
  /\ id = "" /\ kernel = "" /\ generation = 0

Refuse == at' = "refused" /\ UNCHANGED <<out, id, kernel, generation>>

\* No more than two records; the name of the deployment.
ReadId(token) ==
  /\ at = "id"
  /\ IF Len(out) < MICA_BOOT_RECORD_LIMIT /\ token \in Names
     THEN at' = "kernel" /\ id' = token /\ generation' = 0 /\ UNCHANGED <<out, kernel>>
     ELSE Refuse

ReadKernel(token) ==
  /\ at = "kernel"
  /\ IF token \in Names THEN at' = "generation" /\ kernel' = token /\ UNCHANGED <<out, id, generation>>
     ELSE Refuse

\* Mutant of Fits: the limit itself is refused.
FitsBelow(digit) == generation < (GenerationLimit - digit) \div Base

\* Mutant of Fits: the limit without the digit that is about to be added.
FitsWithoutDigit(digit) == generation <= GenerationLimit \div Base

\* generation * 10 + digit does not pass the limit, computed without passing it.
Fits(digit) == generation <= (GenerationLimit - digit) \div Base

\* No leading zero; the value never leaves the limit.
ReadDigit(token) ==
  /\ at = "generation" \/ (at = "digits" /\ token # "comma")
  /\ IF token \in ToSet(Numerals) /\ (at = "generation" => token # "0") /\ Fits(Value[token])
     THEN at' = "digits" /\ generation' = generation * Base + Value[token] /\ UNCHANGED <<out, id, kernel>>
     ELSE Refuse

ReadComma(token) ==
  /\ at = "digits"
  /\ token = "comma"
  /\ at' = "tries"
  /\ UNCHANGED <<out, id, kernel, generation>>

\* Mutant of ReadTries: a record is not compared with the ones before it.
ReadTriesUnordered(token) ==
  /\ at = "tries"
  /\ IF token \in Tries \cup {"dash"}
     THEN /\ at' = "separator"
          /\ out' = Append(out, [id |-> id, kernel |-> kernel, generation |-> generation,
                                 tries |-> IF token = "dash" THEN Confirmed ELSE Value[token]])
          /\ UNCHANGED <<id, kernel, generation>>
     ELSE Refuse

\* Every earlier record has another id and a higher generation.
ReadTries(token) ==
  /\ at = "tries"
  /\ IF /\ token \in Tries \cup {"dash"}
        /\ \A i \in DOMAIN out : out[i].id # id /\ out[i].generation > generation
     THEN /\ at' = "separator"
          /\ out' = Append(out, [id |-> id, kernel |-> kernel, generation |-> generation,
                                 tries |-> IF token = "dash" THEN Confirmed ELSE Value[token]])
          /\ UNCHANGED <<id, kernel, generation>>
     ELSE Refuse

ReadSeparator(token) ==
  /\ at = "separator"
  /\ CASE token = "end" -> at' = "accepted" /\ UNCHANGED <<out, id, kernel, generation>>
       [] token = "semicolon" -> at' = "id" /\ UNCHANGED <<out, id, kernel, generation>>
       [] OTHER -> Refuse

TextNext ==
  \E token \in Tokens :
    /\ text' = Append(text, token)
    /\ \/ ReadId(token) \/ ReadKernel(token) \/ ReadDigit(token)
       \/ ReadComma(token) \/ ReadTries(token) \/ ReadSeparator(token)

TextSpec == TextInit /\ [][TextNext]_textVars

(***************************************************************************)
(* Properties.                                                             *)
(***************************************************************************)
TextTypeOK ==
  /\ at \in {"id", "kernel", "generation", "digits", "tries", "separator", "accepted", "refused"}
  /\ generation \in 0 .. GenerationLimit
  /\ Len(out) <= MICA_BOOT_RECORD_LIMIT

\* The scanner takes what render writes and nothing else: what is accepted is
\* the one encoding of what was decoded, so a copy that the loader reads and
\* writes back unchanged is byte for byte the copy it read; and no text that
\* render or the image build writes is refused, up to the limit itself.
ScannerExact ==
  /\ at = "accepted" => out \in Records /\ text = mica_boot_render(out)
  /\ at = "refused" => text \notin Beginnings

=============================================================================
