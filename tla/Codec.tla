-------------------------------- MODULE Codec --------------------------------
(***************************************************************************)
(* Encode and Decode of values: the writes a value becomes, and the reads  *)
(* and the value that decoding makes of the bytes.  A type is a schema;    *)
(* references, Box, Arc and Rc encode as what they point to, and so have   *)
(* no schema of their own.                                                 *)
(*                                                                         *)
(* A byte is a number below Base.  UTF-8 is scaled down with it: a byte    *)
(* carries one bit of a code point, and its upper bits say whether it      *)
(* stands alone, follows, or leads a character of two, three or four.      *)
(***************************************************************************)
EXTENDS Integers, Sequences, SequencesExt, Functions

CONSTANTS
  Base,     (* number of values of a byte; 256 in the code, at least 10 here *)
  U32Len       (* bytes of a u32; 4 in the code                                 *)

-----------------------------------------------------------------------------
(* The schemas.  A field may be skipped, and then has a default; of an     *)
(* enum, and of a struct with named fields, fields are found by name.      *)
Number(width) == [kind |-> "int", width |-> width]
Char == [kind |-> "char"]

Plain(schema) == [of |-> schema, skip |-> FALSE]
Skipped(schema, default) == [of |-> schema, skip |-> TRUE, default |-> default]
Struct(fields, named) == [kind |-> "struct", fields |-> fields, named |-> named]

Tuple(schemas) == Struct([i \in DOMAIN schemas |-> Plain(schemas[i])], TRUE)
Array(schema, n) == Tuple([i \in 1 .. n |-> schema])
Unit == Tuple(<< >>)

(* A tag and what comes with it.                                           *)
Enum(width, variants) ==
  [kind |-> "enum", width |-> width, variants |-> variants]
Bool == Enum(1, <<Unit, Unit>>)
OptionOf(schema) == Enum(1, <<Unit, Tuple(<<schema>>)>>)
ResultOf(ok, err) == Enum(1, <<Tuple(<<err>>), Tuple(<<ok>>)>>)

(* A number of elements, collected into a seq (slices, Vec, VecDeque and   *)
(* LinkedList), a set, a map (of pairs), or text (String).                 *)
Many(schema, into) == [kind |-> "many", of |-> schema, into |-> into]
Text == Many(Number(1), "text")

-----------------------------------------------------------------------------
(* to_le_bytes, of the width the number is cast to; and from_le_bytes.     *)
LE(n, width) == [i \in 1 .. width |-> (n \div (Base ^ (i - 1))) % Base]
FromLE(bytes) == FoldRight(LAMBDA byte, n : n * Base + byte, bytes, 0)

(* char::encode_utf8.                                                      *)
Utf8Len(char) ==
  CASE char < 2 -> 1 [] char \in 2 .. 3 -> 2 [] char \in 4 .. 7 -> 3 [] OTHER -> 4
Leading(len) == IF len = 1 THEN 0 ELSE 2 * len
Utf8(char) ==
  LET len == Utf8Len(char)
      bit(i) == (char \div 2 ^ (len - i)) % 2
  IN  [i \in 1 .. len |-> bit(i) + IF i = 1 THEN Leading(len) ELSE 2]

(* Bytes that follow a leading one, and a byte that may follow.            *)
IsLeading(byte) == byte \in 0 .. 1 \cup 4 .. 9
Following(byte) == IF byte < 2 THEN 0 ELSE (byte \div 2) - 1
IsContinuation(byte) == byte \in 2 .. 3
CodePoint(bytes) == FoldLeft(LAMBDA n, byte : 2 * n + (byte % 2), 0, bytes)

-----------------------------------------------------------------------------
(* The fields an encoded struct has, by position; and where the derived    *)
(* code finds the j-th of them: by its name, or under the number it has    *)
(* after the skipped fields were left out.                                 *)
Kept(struct) ==
  SelectSeq([i \in DOMAIN struct.fields |-> i],
            LAMBDA i : ~struct.fields[i].skip)
Member(struct, j) == IF struct.named THEN Kept(struct)[j] ELSE j

Items(schema, value) ==
  IF schema.into = "text"
  THEN FlattenSeq([i \in DOMAIN value |-> Utf8(value[i])])
  ELSE value

(* The writes that encoding a value makes, in order.                       *)
RECURSIVE Encode(_, _)
Encode(schema, value) ==
  LET all(schemas, values) ==
        FlattenSeq([i \in DOMAIN schemas |-> Encode(schemas[i], values[i])])
  IN  CASE schema.kind = "int"    -> <<LE(value, schema.width)>>
        [] schema.kind = "char"   -> <<Utf8(value)>>
        [] schema.kind = "struct" ->
             LET kept == Kept(schema)
             IN  all([j \in DOMAIN kept |-> schema.fields[kept[j]].of],
                     [j \in DOMAIN kept |-> value[Member(schema, j)]])
        [] schema.kind = "enum"   ->
             <<LE(value.tag, schema.width)>>
               \o Encode(schema.variants[value.tag + 1], value.of)
        [] schema.kind = "many"   ->
             LET items == Items(schema, value)
             IN  <<LE(Len(items), U32Len)>>
                   \o all([i \in DOMAIN items |-> schema.of], items)

-----------------------------------------------------------------------------
(* What decoding has come to, given the bytes read so far: it needs the    *)
(* next n bytes, it has a value and stands at a position, or it has met an *)
(* invalid pattern.                                                        *)
More(n) == [is |-> "more", n |-> n]
Done(at, value) == [is |-> "done", at |-> at, value |-> value]
Invalid == [is |-> "invalid"]

(* Going on from a value.  The set has one element: TLC evaluates it once. *)
Then(decoded, Continue(_)) ==
  CHOOSE next \in { IF d.is = "done" THEN Continue(d) ELSE d : d \in {decoded} } :
    TRUE

Read(bytes, at, n) ==
  IF at + n <= Len(bytes) THEN Done(at + n, SubSeq(bytes, at + 1, at + n))
                          ELSE More(n)

DecodeInt(width, bytes, at) ==
  Then(Read(bytes, at, width), LAMBDA r : Done(r.at, FromLE(r.value)))

DecodeChar(bytes, at) ==
  Then(Read(bytes, at, 1), LAMBDA lead :
    IF ~IsLeading(lead.value[1]) THEN Invalid
    ELSE Then(Read(bytes, lead.at, Following(lead.value[1])), LAMBDA rest :
      IF \A i \in DOMAIN rest.value : IsContinuation(rest.value[i])
      THEN Done(rest.at, CodePoint(lead.value \o rest.value))
      ELSE Invalid))

(* String::from_utf8, which unlike Decode of a char accepts nothing but    *)
(* the shortest encoding of a character.                                   *)
RECURSIVE FromUtf8(_, _)
FromUtf8(bytes, at) ==
  IF at = Len(bytes) THEN Done(at, << >>)
  ELSE LET char == DecodeChar(bytes, at)
       IN  IF char.is = "done" /\ Utf8(char.value) = SubSeq(bytes, at + 1, char.at)
           THEN Then(FromUtf8(bytes, char.at), LAMBDA rest :
                  Done(rest.at, <<char.value>> \o rest.value))
           ELSE Invalid

(* Elements inserted one after the other; a key again replaces its value.  *)
Collected(into, items) ==
  CASE into = "seq" -> items
    [] into = "set" -> Range(items)
    [] into = "map" ->
         [ key \in {items[i][1] : i \in DOMAIN items} |->
             items[SelectLastInSeq(items, LAMBDA item : item[1] = key)][2] ]

RECURSIVE Decode(_, _, _), DecodeFields(_, _, _)
DecodeFields(fields, bytes, at) ==
  IF fields = << >> THEN Done(at, << >>)
  ELSE LET field == Head(fields)
       IN  Then(IF field.skip THEN Done(at, field.default)
                              ELSE Decode(field.of, bytes, at), LAMBDA first :
             Then(DecodeFields(Tail(fields), bytes, first.at), LAMBDA rest :
               Done(rest.at, <<first.value>> \o rest.value)))

Decode(schema, bytes, at) ==
  CASE schema.kind = "int"    -> DecodeInt(schema.width, bytes, at)
    [] schema.kind = "char"   -> DecodeChar(bytes, at)
    [] schema.kind = "struct" -> DecodeFields(schema.fields, bytes, at)
    [] schema.kind = "enum"   ->
         Then(DecodeInt(schema.width, bytes, at), LAMBDA tag :
           IF tag.value >= Len(schema.variants) THEN Invalid
           ELSE Then(Decode(schema.variants[tag.value + 1], bytes, tag.at),
                  LAMBDA r : Done(r.at, [tag |-> tag.value, of |-> r.value])))
    [] schema.kind = "many"   ->
         Then(DecodeInt(U32Len, bytes, at), LAMBDA count :
           Then(DecodeFields([i \in 1 .. count.value |-> Plain(schema.of)],
                             bytes, count.at), LAMBDA r :
             IF schema.into = "text"
             THEN Then(FromUtf8(r.value, 0), LAMBDA text :
                    Done(r.at, text.value))
             ELSE Done(r.at, Collected(schema.into, r.value))))

-----------------------------------------------------------------------------
(* The value that is to come back: skipped fields have their default, and  *)
(* what was iterated over has become what it is collected into.            *)
RECURSIVE Expected(_, _)
Expected(schema, value) ==
  CASE schema.kind \in {"int", "char"} -> value
    [] schema.kind = "struct" ->
         [ i \in DOMAIN schema.fields |->
             LET field == schema.fields[i]
             IN  IF field.skip THEN field.default ELSE Expected(field.of, value[i]) ]
    [] schema.kind = "enum" ->
         [ tag |-> value.tag,
           of  |-> Expected(schema.variants[value.tag + 1], value.of) ]
    [] schema.kind = "many" ->
         IF schema.into = "text" THEN value
         ELSE Collected(schema.into,
                [i \in DOMAIN value |-> Expected(schema.of, value[i])])
=============================================================================
