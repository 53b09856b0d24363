----------------------------- MODULE XProperty ------------------------------
(***************************************************************************)
(* Window properties, and how src/platforms/xcb/netwm.cpp reads them.  A   *)
(* property has a type and a list of numbers.  The letters of a text are   *)
(* numbers too, and 0 ends a string.                                       *)
(***************************************************************************)
EXTENDS Integers, Sequences, SequencesExt, FiniteSetsExt, Folds

CONSTANT Word          \* 2^32 in the code: data are unsigned

ASSUME WordAssumption == Word \in Nat \ {0, 1}

Property(type, data) == [type |-> type, data |-> data]
NoProperty == Property("NONE", <<>>)

Unsigned(n) == n % Word

\* The members of S in the order of list.
Those(list, S) ==
  FlattenSeq([i \in DOMAIN list |-> IF list[i] \in S THEN <<list[i]>> ELSE <<>>])

\* get_value_reply(): one number, or the default
GetValueReply(reply, type, default) ==
  IF reply.type = type /\ Len(reply.data) = 1 THEN reply.data[1] ELSE default

GetArrayReply(reply, type) == IF reply.type = type THEN reply.data ELSE <<>>

\* The text without its last NUL.
GetStringReply(reply, type) ==
  LET data == GetArrayReply(reply, type)
  IN  IF data # <<>> /\ Last(data) = 0 THEN Front(data) ELSE data

\* QByteArray::split('\0')
Split(text) ==
  LET parts[i \in 0..Len(text)] ==
        IF i = 0 THEN << <<>> >>
        ELSE IF text[i] = 0 THEN Append(parts[i - 1], <<>>)
        ELSE [parts[i - 1] EXCEPT ![Len(parts[i - 1])] = Append(@, text[i])]
  IN  parts[Len(text)]

GetStringlistReply(reply, type) ==
  IF GetArrayReply(reply, type) = <<>> THEN <<>> ELSE Split(GetStringReply(reply, type))

\* Strings one after the other, each with its NUL.
Join(strings) == FlattenSeq([i \in DOMAIN strings |-> Append(strings[i], 0)])

\* NETRArray::operator[](n - 1): an element that is not there is made, and so
\* are all before it.
Grow(array, n, zero) ==
  IF n <= Len(array) THEN array
  ELSE array \o [i \in 1..(n - Len(array)) |-> zero]

SetAt(array, n, zero, value) == [Grow(array, n, zero) EXCEPT ![n] = value]
At(array, n, zero) == IF n \in DOMAIN array THEN array[n] ELSE zero

\* The first n elements as numbers, each element being a tuple of them.
Flat(array, n, zero) == FlattenSeq([i \in 1..n |-> At(array, i, zero)])

\* n numbers each from the list.
Tuples(data, n) == [i \in 1..(Len(data) \div n) |-> SubSeq(data, (i - 1) * n + 1, i * n)]
=============================================================================
