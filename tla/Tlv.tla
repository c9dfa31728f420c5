--------------------------------- MODULE Tlv ---------------------------------
(***************************************************************************)
(* BER-TLV, Book 3 Annex B, as core/tag.rs and core/tlv.rs parse and       *)
(* encode it.  A tag is its byte string (Tag(u32) holds the same bytes,    *)
(* and no tag this parser builds starts with a zero byte).  A node is      *)
(* [tag, value, children]: a primitive has a value and no children, a      *)
(* constructed one children and no value.                                  *)
(***************************************************************************)
EXTENDS Bytes

IsConstructed(tag) == HasBit(tag[1], 6)

encode_length(n) ==
  CASE n <= 127 -> <<n>>
    [] 127 < n /\ n <= 255 -> <<129, n>>
    [] 255 < n /\ n <= 65535 -> <<130>> \o be_bytes(n, 2)
    [] 65535 < n /\ n <= 16777215 -> <<131>> \o be_bytes(n, 3)
    [] OTHER -> <<132>> \o be_bytes(n, 4)

\* A node, with what the code computes from it by recursion: the bytes its
\* value has when encoded again (Value::encode_into) and the primitive nodes in
\* it, in the order insert_tlv meets them.
Encode(node) == node.tag \o encode_length(Len(node.content)) \o node.content
Primitive(tag, value) ==
  [tag |-> tag, value |-> value, children |-> <<>>, content |-> value,
   leaves |-> <<[tag |-> tag, value |-> value]>>]
Constructed(tag, children) ==
  [tag |-> tag, value |-> <<>>, children |-> children,
   content |-> Joined([i \in DOMAIN children |-> Encode(children[i])]),
   leaves |-> Joined([i \in DOMAIN children |-> children[i].leaves])]
Leaves(node) == node.leaves
\* Value::encoded_len, the length the value has when encoded again.
encoded_len(node) == Len(node.content)

\* Tag::parse: one byte, or up to three more while their b8 is set.
ParseTag(data) ==
  LET ends == {i \in 2..4 : i <= Len(data) /\ data[i] < 128}
  IN  CASE data = <<>> -> None
        [] data # <<>> /\ data[1] % 32 # 31 -> Some(First(data, 1))
        [] OTHER -> Check(ends # {},
                          Some(First(data, CHOOSE i \in ends : \A j \in ends : i <= j)))

\* parse_length: short form, or up to four bytes; '80' is not allowed.
ParseLength(data) ==
  LET n == data[1] - 128
  IN  CASE data = <<>> -> None
        [] data # <<>> /\ data[1] < 128 -> Some([length |-> data[1], size |-> 1])
        [] OTHER -> Check(n \in 1..4 /\ Len(data) > n,
                          Some([length |-> Number(SubSeq(data, 2, n + 1)),
                                size |-> n + 1]))

\* The tag, and the first and the last byte of the value of the node at the
\* start of data.
NodeHeader(data) ==
  Then(ParseTag(data), LAMBDA tag :
    Then(ParseLength(From(data, Len(tag) + 1)), LAMBDA head :
      LET start == Len(tag) + head.size
      IN  Check(start + head.length <= Len(data),
                Some([tag |-> tag, first |-> start + 1, last |-> start + head.length]))))

\* Tlv::parse: the node at the start of data and the bytes it takes; nodes
\* parses the value of a constructed one.
ParseWith(data, nodes) ==
  Then(NodeHeader(data), LAMBDA head :
    LET value == SubSeq(data, head.first, head.last)
    IN  IF IsConstructed(head.tag)
        THEN Then(nodes[value], LAMBDA children :
               Some([tlv |-> Constructed(head.tag, children), size |-> head.last]))
        ELSE Some([tlv |-> Primitive(head.tag, value), size |-> head.last]))
\* Tlv::parse_all: nodes to the end of data; zero bytes between them are
\* skipped.
ParseAll[data \in Seq(Byte)] ==
  CASE data = <<>> -> Some(<<>>)
    [] data # <<>> /\ data[1] = 0 -> ParseAll[Tail(data)]
    [] OTHER -> Then(ParseWith(data, ParseAll), LAMBDA one :
                  Then(ParseAll[From(data, one.size + 1)], LAMBDA rest :
                    Some(<<one.tlv>> \o rest)))
Parse(data) == ParseWith(data, ParseAll)
\* Tlv::from_bytes: one node and nothing after it.
from_bytes(data) ==
  Then(Parse(data), LAMBDA one : Check(one.size = Len(data), Some(one.tlv)))

\* The children of a constructed node (as_constructed), and the bytes of a
\* primitive one (as_primitive).
AsConstructed(tlv) == Check(IsConstructed(tlv.tag), Some(tlv.children))
AsPrimitive(tlv) == Check(~IsConstructed(tlv.tag), Some(tlv.value))

\* find_tag: the first of several nodes with a tag; and the last, for the
\* parsers that let a later child overwrite an earlier one.
find_tag(tlvs, tag) ==
  LET at == {i \in DOMAIN tlvs : tlvs[i].tag = tag}
  IN  Check(at # {}, Some(tlvs[CHOOSE i \in at : \A j \in at : i <= j]))
LastOf(tlvs, tag) == find_tag(Reverse(tlvs), tag)

\* An optional primitive child read by Read: absent is fine, one that Read
\* refuses is an error.  The result is an error or Some(option).
OptionalField(node, Read(_)) ==
  IF node = None THEN Some(None)
  ELSE Then(AsPrimitive(Unwrap(node)),
            LAMBDA bytes : Then(Read(bytes), LAMBDA value : Some(Some(value))))
\* A mandatory one.
MandatoryField(node, Read(_)) ==
  Then(node, LAMBDA tlv : Then(AsPrimitive(tlv), Read))
\* Every node among tlvs with this tag is primitive and readable: a loop
\* that parses each child as it meets it fails on the first that is not.
EachReads(tlvs, tag, Read(_)) ==
  \A i \in DOMAIN tlvs : tlvs[i].tag = tag =>
    MandatoryField(Some(tlvs[i]), Read) # None
AnyBytes(bytes) == Some(bytes)
=============================================================================
