------------------------------ MODULE MCArchive ------------------------------
(***************************************************************************)
(* Instances of Archive for TLC: values of every kind of type that has an  *)
(* Encode and a Decode, nested and at the edges of their lengths; and the  *)
(* assumption that Codec's Encode and Decode agree on each of them.        *)
(***************************************************************************)
EXTENDS Archive, Codec

MCWritesOf(s) == Encode(s.schema, s.value)
MCDecodedFrom(s, bytes) == Decode(s.schema, bytes, 0)
MCValueOf(s) == Expected(s.schema, s.value)

Of(schema, values) == {[schema |-> schema, value |-> v] : v \in values}

U8 == Number(1)
U16Type == Number(2)

Some(v) == [tag |-> 1, of |-> <<v>>]
None == [tag |-> 0, of |-> << >>]
True == [tag |-> 1, of |-> << >>]
False == [tag |-> 0, of |-> << >>]

(* struct { a, #[skip] b, c }, and the same in a variant of an enum.       *)
Fields == <<Plain(U8), Skipped(U8, 5), Plain(U8)>>
World == Enum(1, <<Unit, Struct(Fields, TRUE), Tuple(<<Char, U8>>)>>)

MCSamples ==
  UNION {
    Of(Number(4), {4021}), Of(U16Type, {10, 99}), Of(Char, {1, 3, 6, 15}),
    Of(Unit, {<< >>}), Of(Tuple(<<Bool, U8>>), {<<True, 0>>, <<False, 9>>}),
    Of(OptionOf(U16Type), {None, Some(21)}),
    Of(ResultOf(U8, Char), {[tag |-> 1, of |-> <<4>>], [tag |-> 0, of |-> <<9>>]}),
    Of(Array(U16Type, 3), {<<1, 20, 31>>}),
    Of(Many(OptionOf(U8), "seq"), {<< >>, <<Some(2), None, Some(3)>>}),
    Of(Many(Unit, "seq"), {[i \in 1 .. 30 |-> << >>]}),
    Of(Many(U16Type, "seq"), {<<10, 20, 30, 40>>}),
    Of(Many(U8, "set"), {<<3, 1, 2>>}),
    Of(Many(Tuple(<<U8, Bool>>), "map"), {<<<<2, True>>, <<1, False>>>>}),
    Of(Text, {<< >>, <<1, 7, 0>>, <<15>>}),
    Of(Struct(Fields, TRUE), {<<1, 2, 3>>}),
    Of(Struct(<<Plain(Text), Skipped(U8, 0)>>, FALSE), {<<<<2>>, 8>>}),
    Of(World, {None, [tag |-> 1, of |-> <<1, 2, 3>>], [tag |-> 2, of |-> <<12, 1>>]}) }

(* The places at which the reads of a sample end.                          *)
RECURSIVE StopsFrom(_, _)
StopsFrom(s, m) ==
  IF From(s, m).is = "more" /\ m + From(s, m).n <= EndAfter(s, Len(WritesOf(s)))
  THEN {m} \cup StopsFrom(s, m + From(s, m).n)
  ELSE {m}

ASSUME CodecAgreement == \A s \in MCSamples : Agrees(s, StopsFrom(s, 0))

(* struct T(#[skip] u8, u8), on which they do not.                         *)
MCSkipFirst ==
  Of(Struct(<<Skipped(U8, 0), Plain(U8)>>, FALSE), {<<1, 2>>})
=============================================================================
