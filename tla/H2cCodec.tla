------------------------------ MODULE H2cCodec ------------------------------
(* How the HTTP/2 clients code what they exchange with the daemon: header    *)
(* compression, its integers and its Huffman code, and frames.               *)
EXTENDS Naturals, Sequences, SequencesExt, FiniteSets, FiniteSetsExt

(***************************************************************************)
(* Header compression between the HTTP/2 client (containerd/h2c.c) and the *)
(* daemon: an encoder and a decoder, each with a dynamic table, that must  *)
(* agree on what every index means although they meet only through header  *)
(* blocks and SETTINGS in flight.                                          *)
(*                                                                         *)
(* Direction "request": the encoder is the client's hpack_encode_field and *)
(* the decoder the daemon's, which follows RFC 7541.  Direction "response":*)
(* the encoder is any that follows the RFC and the decoder is the client's *)
(* hpack_decode_block.  Direction "alternate": the same with the decoder   *)
(* of alternate/c/cc_grpc.c.  A field is a name and a value with a size;   *)
(* integer and string coding are below.                                    *)
(***************************************************************************)

CONSTANTS Names, Values,
          SizeOf(_),     \* bytes an entry with this field takes
          Static,        \* the static table, a sequence of fields
          DefaultMax,    \* 4096
          MaxEntries,    \* H2C_DYN_MAX_ENTRIES
          Limits,        \* table sizes the daemon may announce
          CcLimits,      \* and those it may announce to the alternate client
          Resizes,       \* table sizes a responding encoder may choose
          MaxFields, MaxChanges

Fields == [name : Names, value : Values]
NS == Len(Static)

VARIABLES direction,
          enc, dec,   \* tables: [es |-> entries, the newest first, max |-> size limit]
          update,     \* enc_size_update: the next block starts with a size update
          wire,       \* instructions on their way to the decoder
          news,       \* SETTINGS_HEADER_TABLE_SIZE values on their way to the encoder
          sent, got,  \* the fields encoded and decoded
          changes, bad

hpackVars == <<direction, enc, dec, update, wire, news, sent, got, changes, bad>>

SizeOfAll(es) == FoldLeft(LAMBDA a, f : a + SizeOf(f), 0, es)

(* dyn_evict_one until what remains satisfies the limits.                  *)
Shrink(es, max, count) ==
    LET fits == {k \in 0 .. Len(es) : k <= count /\ SizeOfAll(SubSeq(es, 1, k)) <= max}
    IN  SubSeq(es, 1, Max(fits))

dyn_set_max(d, max) == [es |-> Shrink(d.es, max, Len(d.es)), max |-> max]

(* An entry larger than the whole table is not added and evicts nothing.   *)
dyn_add(d, f) ==
    IF SizeOf(f) > d.max THEN d
    ELSE [d EXCEPT !.es = <<f>> \o Shrink(@, d.max - SizeOf(f), MaxEntries - 1)]

(* RFC 7541, 4.4: an entry larger than the table empties it.               *)
RfcAdd(d, f) ==
    IF SizeOf(f) > d.max THEN [d EXCEPT !.es = <<>>]
    ELSE [d EXCEPT !.es = <<f>> \o Shrink(@, d.max - SizeOf(f), Len(@))]

-----------------------------------------------------------------------------
(* The client's encoder.  Indices count the static table first.            *)

LowestIn(S) == IF S = {} THEN 0 ELSE Min(S)

static_find_pair(f) == LowestIn({i \in 1 .. NS : Static[i] = f})
static_find_name(n) == LowestIn({i \in 1 .. NS : Static[i].name = n})
dyn_find_pair(d, f) == LowestIn({i \in 1 .. Len(d.es) : d.es[i] = f})
dyn_find_name(d, n) == LowestIn({i \in 1 .. Len(d.es) : d.es[i].name = n})

Dynamic(i) == IF i = 0 THEN 0 ELSE NS + i
Or(i, j) == IF i # 0 THEN i ELSE j

(* hpack_encode_field: the instruction and the table after it.             *)
hpack_encode_field(d, f) ==
    LET pair == Or(static_find_pair(f), Dynamic(dyn_find_pair(d, f)))
        name == Or(static_find_name(f.name), Dynamic(dyn_find_name(d, f.name)))
    IN  IF pair # 0 THEN [ins |-> [op |-> "indexed", i |-> pair], d |-> d]
        ELSE [ins |-> [op |-> "literal", index |-> TRUE, i |-> name,
                       name |-> f.name, value |-> f.value],
              d |-> dyn_add(d, f)]

(* The client's decoder: where an index points, or nothing.                *)
dyn_get(d, i) == IF i \in 1 .. Len(d.es) THEN {d.es[i]} ELSE {}
Lookup(d, i) == IF i \in 1 .. NS THEN {Static[i]} ELSE dyn_get(d, i - NS)

Add(d, f) == IF direction = "request" THEN RfcAdd(d, f) ELSE dyn_add(d, f)

(* The largest size a decoder lets an encoder choose.                      *)
SizeLimit(d) ==
    IF direction = "request" THEN Max({DefaultMax} \cup Limits) ELSE d.max

field_resolve_name(d, ins) ==
    IF ins.i = 0 THEN {ins.name} ELSE {f.name : f \in Lookup(d, ins.i)}

(* One instruction of hpack_decode_block: the table, the decoded fields,   *)
(* and whether the block is refused.                                       *)
Decode(d, ins) ==
    CASE ins.op = "size" ->
           IF ins.n > SizeLimit(d) THEN [d |-> d, out |-> <<>>, bad |-> TRUE]
           ELSE [d |-> dyn_set_max(d, ins.n), out |-> <<>>, bad |-> FALSE]
      [] ins.op = "indexed" ->
           LET found == Lookup(d, ins.i)
           IN  [d |-> d, out |-> SetToSeq(found), bad |-> found = {}]
      [] ins.op = "literal" ->
           LET name == field_resolve_name(d, ins)
               f == [name |-> CHOOSE n \in name : TRUE, value |-> ins.value]
           IN  IF name = {} THEN [d |-> d, out |-> <<>>, bad |-> TRUE]
               ELSE [d |-> IF ins.index THEN Add(d, f) ELSE d, out |-> <<f>>, bad |-> FALSE]

-----------------------------------------------------------------------------
HpackInit ==
    /\ direction \in {"request", "response", "alternate"}
    /\ enc = [es |-> <<>>, max |-> DefaultMax]
    /\ dec = [es |-> <<>>, max |-> DefaultMax]
    /\ update = FALSE
    /\ wire = <<>> /\ news = <<>> /\ sent = <<>> /\ got = <<>>
    /\ changes = 0 /\ bad = FALSE

(* build_request_headers: the pending size update goes first.              *)
EncodeRequest ==
    /\ direction = "request" /\ Len(sent) < MaxFields
    /\ \E f \in Fields :
         LET e == hpack_encode_field(enc, f)
         IN  /\ wire' = wire \o (IF update THEN <<[op |-> "size", n |-> enc.max]>> ELSE <<>>)
                             \o <<e.ins>>
             /\ enc' = e.d
             /\ sent' = Append(sent, f)
    /\ update' = FALSE
    /\ UNCHANGED <<direction, dec, news, got, changes, bad>>

(* The daemon announces another table size ...                             *)
Announce ==
    /\ direction = "request" /\ changes < MaxChanges
    /\ \E n \in Limits : news' = Append(news, n)
    /\ changes' = changes + 1
    /\ UNCHANGED <<direction, enc, dec, update, wire, sent, got, bad>>

(* ... and handle_settings applies it to the client's encoder.             *)
HandleSettings ==
    /\ direction = "request" /\ news # <<>>
    /\ news' = Tail(news)
    /\ IF Head(news) = enc.max THEN UNCHANGED <<enc, update>>
       ELSE enc' = dyn_set_max(enc, Head(news)) /\ update' = TRUE
    /\ UNCHANGED <<direction, dec, wire, sent, got, changes, bad>>

(* Any encoder: it may index or not, and refer to names or spell them.     *)
EncodeResponse ==
    /\ direction # "request" /\ Len(sent) < MaxFields
    /\ \E f \in Fields :
         /\ sent' = Append(sent, f)
         /\ \/ \E i \in {i \in 1 .. NS + Len(enc.es) : Lookup(enc, i) = {f}} :
                 wire' = Append(wire, [op |-> "indexed", i |-> i]) /\ UNCHANGED enc
            \/ \E i \in {0} \cup {i \in 1 .. NS + Len(enc.es) :
                                    \A g \in Lookup(enc, i) : g.name = f.name} :
               \E index \in BOOLEAN :
                 /\ wire' = Append(wire, [op |-> "literal", index |-> index, i |-> i,
                                          name |-> f.name, value |-> f.value])
                 /\ enc' = IF index THEN RfcAdd(enc, f) ELSE enc
    /\ UNCHANGED <<direction, dec, update, news, got, changes, bad>>

ResizeResponse ==
    /\ direction # "request" /\ changes < MaxChanges
    /\ \E n \in Resizes :
         /\ wire' = Append(wire, [op |-> "size", n |-> n])
         /\ enc' = dyn_set_max(enc, n)
    /\ changes' = changes + 1
    /\ UNCHANGED <<direction, dec, update, news, sent, got, bad>>

DecodeBlock ==
    /\ direction # "alternate" /\ wire # <<>> /\ ~bad
    /\ LET r == Decode(dec, Head(wire))
       IN  dec' = r.d /\ got' = got \o r.out /\ bad' = r.bad
    /\ wire' = Tail(wire)
    /\ UNCHANGED <<direction, enc, update, news, sent, changes>>

-----------------------------------------------------------------------------
(* The alternate client (alternate/c/cc_grpc.c) has the table and the        *)
(* decoder a second time.  Its handle_settings applies the daemon's          *)
(* SETTINGS_HEADER_TABLE_SIZE to the decoder's table, which the daemon's     *)
(* encoder sizes by what the client announced.                               *)
cc_dyn_add(d, f) == dyn_add(d, f)
cc_dyn_set_max(d, n) == dyn_set_max(d, n)
cc_field_resolve_name(d, ins) == field_resolve_name(d, ins)

(* One instruction of hpack_decode_block.                                  *)
cc_Decode(d, ins) ==
    LET name == cc_field_resolve_name(d, ins)
        f == [name |-> CHOOSE n \in name : TRUE, value |-> ins.value]
        refused == [d |-> d, out |-> <<>>, bad |-> TRUE]
    IN  CASE ins.op = "size" ->
               IF ins.n > d.max THEN refused
               ELSE [d |-> cc_dyn_set_max(d, ins.n), out |-> <<>>, bad |-> FALSE]
          [] ins.op = "indexed" ->
               IF Lookup(d, ins.i) = {} THEN refused
               ELSE [d |-> d, out |-> SetToSeq(Lookup(d, ins.i)), bad |-> FALSE]
          [] ins.op = "literal" ->
               IF name = {} THEN refused
               ELSE [d |-> IF ins.index THEN cc_dyn_add(d, f) ELSE d, out |-> <<f>>,
                     bad |-> FALSE]

(* The daemon announces the table size of its own decoder ...              *)
CcAnnounce ==
    /\ direction = "alternate" /\ changes < MaxChanges
    /\ \E n \in CcLimits : news' = Append(news, n)
    /\ changes' = changes + 1
    /\ UNCHANGED <<direction, enc, dec, update, wire, sent, got, bad>>

(* ... and handle_settings resizes the client's decoder.                   *)
CcHandleSettings ==
    /\ direction = "alternate" /\ news # <<>>
    /\ news' = Tail(news)
    /\ dec' = cc_dyn_set_max(dec, Head(news))
    /\ UNCHANGED <<direction, enc, update, wire, sent, got, changes, bad>>

CcDecodeBlock ==
    /\ direction = "alternate" /\ wire # <<>> /\ ~bad
    /\ LET r == cc_Decode(dec, Head(wire))
       IN  dec' = r.d /\ got' = got \o r.out /\ bad' = r.bad
    /\ wire' = Tail(wire)
    /\ UNCHANGED <<direction, enc, update, news, sent, changes>>

HpackNext == \/ EncodeRequest \/ Announce \/ HandleSettings
             \/ EncodeResponse \/ ResizeResponse \/ DecodeBlock
             \/ CcAnnounce \/ CcHandleSettings \/ CcDecodeBlock

HpackSpec == HpackInit /\ [][HpackNext]_hpackVars

-----------------------------------------------------------------------------
(* Type: no table is larger than its limit, in bytes or (the client's) in  *)
(* entries: dyn_add and dyn_set_max evict enough.                          *)
TablesFit ==
    /\ SizeOfAll(enc.es) <= enc.max
    /\ SizeOfAll(dec.es) <= dec.max
    /\ Len((IF direction = "request" THEN enc ELSE dec).es) <= MaxEntries

(* What is decoded is what was encoded, field by field, and no block is    *)
(* refused: the encoder never refers to an entry the decoder has evicted.  *)
FieldsArrive == ~bad /\ IsPrefix(got, sent)

(* When nothing is in flight, whatever the encoder may refer to stands at  *)
(* the same index of the decoder's table; the decoder may hold more.       *)
EncoderIsPrefix == wire = <<>> => IsPrefix(enc.es, dec.es)

-----------------------------------------------------------------------------
(***************************************************************************)
(* The integer coding of HPACK (containerd/h2c.c, RFC 7541 5.1): a prefix  *)
(* of an octet, then groups of bits, the least significant first, while    *)
(* the continuation bit is set.  hpack_write_int_ex writes a value into a  *)
(* buffer of Cap octets; hpack_read_int reads any octets a peer may send.  *)
(*                                                                         *)
(* Scaled: a group has Group values instead of 128, a prefix Mask instead  *)
(* of 2^prefix - 1, at most Groups groups are read instead of 5, and the   *)
(* largest value is Largest instead of 0x7fffffff.  An octet after the     *)
(* first is [more, v]; the first is its prefix alone, as the pattern bits  *)
(* beside it are masked out.                                               *)
(***************************************************************************)

CONSTANTS Group, Masks, Groups, Largest, Caps, MaxOctets, IntValues

IntAssumption == Largest < Group ^ Groups

IntOctets == [more : BOOLEAN, v : 0 .. Group - 1]

VARIABLES mode,   \* "write", "read" or "done"
          value,  \* what is left to write
          mask, cap,
          buf,    \* the octets: <<prefix>> \o the groups
          input,  \* the value that is written, Foreign when a peer wrote buf
          ioff, acc, shift, result

intVars == <<mode, value, mask, cap, buf, input, ioff, acc, shift, result>>

None == [ok |-> FALSE, v |-> 0]
Foreign == Largest + 1

IntInit ==
    /\ mask \in Masks
    /\ ioff = 0 /\ acc = 0 /\ shift = 0 /\ result = None
    /\ \/ /\ mode = "write" /\ cap \in Caps /\ buf = <<>>
          /\ value \in IntValues /\ input = value
       \/ /\ mode = "read" /\ cap = 0 /\ value = 0 /\ input = Foreign
          /\ \E n \in 0 .. MaxOctets, p \in 0 .. mask :
               \E gs \in [1 .. n -> IntOctets] : buf = <<[more |-> FALSE, v |-> p]>> \o gs

Stop(r) == mode' = "done" /\ result' = r
Room == Len(buf) < cap

(* The prefix holds the value, or is full and the rest follows.            *)
WritePrefix ==
    /\ mode = "write" /\ buf = <<>>
    /\ IF ~Room THEN Stop(None) /\ UNCHANGED <<value, buf>>
       ELSE /\ buf' = <<[more |-> FALSE, v |-> IF value < mask THEN value ELSE mask]>>
            /\ IF value < mask THEN mode' = "read" /\ value' = 0
               ELSE mode' = mode /\ value' = value - mask
            /\ UNCHANGED result
    /\ UNCHANGED <<mask, cap, input, ioff, acc, shift>>

WriteGroup ==
    /\ mode = "write" /\ buf # <<>>
    /\ IF ~Room THEN Stop(None) /\ UNCHANGED <<value, buf>>
       ELSE /\ buf' = Append(buf, [more |-> value >= Group, v |-> value % Group])
            /\ IF value >= Group THEN mode' = mode /\ value' = value \div Group
               ELSE mode' = "read" /\ value' = 0
            /\ UNCHANGED result
    /\ UNCHANGED <<mask, cap, input, ioff, acc, shift>>

ReadPrefix ==
    /\ mode = "read" /\ ioff = 0
    /\ IF buf[1].v < mask THEN Stop([ok |-> TRUE, v |-> buf[1].v]) /\ UNCHANGED <<ioff, acc>>
       ELSE ioff' = 1 /\ acc' = mask /\ UNCHANGED <<mode, result>>
    /\ UNCHANGED <<value, mask, cap, buf, input, shift>>

(* A group; too few octets, too many groups or too large a value fail.     *)
ReadGroup ==
    /\ mode = "read" /\ ioff > 0
    /\ IF ioff >= Len(buf) THEN Stop(None) /\ UNCHANGED <<ioff, acc, shift>>
       ELSE LET b == buf[ioff + 1]
                sum == acc + b.v * Group ^ shift
            IN  /\ ioff' = ioff + 1 /\ acc' = sum /\ shift' = shift + 1
                /\ IF b.more THEN IF shift' > Groups - 1 THEN Stop(None)
                                  ELSE UNCHANGED <<mode, result>>
                   ELSE Stop(IF sum > Largest THEN None ELSE [ok |-> TRUE, v |-> sum])
    /\ UNCHANGED <<value, mask, cap, buf, input>>

IntNext == WritePrefix \/ WriteGroup \/ ReadPrefix \/ ReadGroup
IntSpec == IntInit /\ [][IntNext]_intVars

-----------------------------------------------------------------------------
(* IntOctets a value needs: the definition hpack_write_int_ex is held to.     *)
Needs(v) ==
    IF v < mask THEN 1
    ELSE 1 + CHOOSE n \in 1 .. Groups : /\ v - mask < Group ^ n
                                        /\ n = 1 \/ v - mask >= Group ^ (n - 1)

(* hpack_read_int reads back every value hpack_write_int_ex has room to    *)
(* write; the writer fails exactly when the buffer is too short.           *)
RoundTrip ==
    mode = "done" /\ input # Foreign =>
        result = IF cap >= Needs(input) THEN [ok |-> TRUE, v |-> input] ELSE None

(* For octets from a peer: the groups up to the first without the          *)
(* continuation bit, weighed by place, or a failure.                       *)
Ends == {n \in 2 .. Len(buf) : ~buf[n].more}
LastGroup == CHOOSE n \in Ends : \A k \in Ends : n <= k
Sum == FoldLeft(LAMBDA a, n : a + buf[n].v * Group ^ (n - 2), mask,
                [k \in 1 .. LastGroup - 1 |-> k + 1])
ReadsByPlace ==
    mode = "done" /\ input = Foreign =>
        result = IF buf[1].v < mask THEN [ok |-> TRUE, v |-> buf[1].v]
                 ELSE IF Ends = {} THEN None
                 ELSE IF LastGroup > Groups + 1 \/ Sum > Largest THEN None
                 ELSE [ok |-> TRUE, v |-> Sum]

-----------------------------------------------------------------------------
(***************************************************************************)
(* The Huffman decoder of the HTTP/2 client (containerd/h2c.c): a trie in  *)
(* global memory that the first call of huff_decode builds, guarded by the *)
(* plain flag g_huff_built, and the bit by bit decoding that walks it.     *)
(*                                                                         *)
(* Threads are the threads that drive a connection.  The controller has    *)
(* several: each Tasks/Wait and the event listener own a connection, and   *)
(* the shared connection has its lock.  Every access to the global trie is *)
(* a step of its own.  Codes are short; an octet has Octet bits; the last  *)
(* symbol is EOS, all ones and longer than any padding, as in RFC 7541.    *)
(***************************************************************************)

CONSTANTS Threads, Codes,   \* Codes[i]: the bits of symbol i; the last is EOS
          Octet, Inputs,    \* Inputs: sequences of bits, whole octets
          MaxNodes          \* H2C_HUFF_NODES

HuffAssumption ==
    /\ \A i, j \in DOMAIN Codes : i # j => ~IsPrefix(Codes[i], Codes[j])
    /\ Len(Codes[Len(Codes)]) >= Octet
    /\ \A w \in Inputs : Len(w) % Octet = 0

VARIABLES node,    \* g_huff_nodes: [c0, c1, sym]; 0 stands for -1
          nnodes,  \* g_huff_nnodes
          built,   \* g_huff_built
          th       \* each thread's locals

huffVars == <<node, nnodes, built, th>>

EOS == Len(Codes)
Fresh == [c0 |-> 0, c1 |-> 0, sym |-> 0]
Child(n, bit) == IF bit = 0 THEN node[n].c0 ELSE node[n].c1

(* pc: "call", "build", "nodes", "init", "link", "decode", "done".         *)
Start(w) == [pc |-> "call", in |-> w, i |-> 1, b |-> 0, at |-> 1, new |-> 0,
             out |-> <<>>, ones |-> TRUE, depth |-> 0, err |-> FALSE]

HuffInit ==
    /\ node = [n \in 1 .. MaxNodes |-> Fresh]
    /\ nnodes = 0 /\ built = 0
    /\ th \in [Threads -> {Start(w) : w \in Inputs}]

Set(t, r) == th' = [th EXCEPT ![t] = r]

(* huff_build's test of the flag; the root is reset when it is not set.    *)
Enter(t) ==
    /\ th[t].pc = "call"
    /\ IF built # 0
       THEN /\ Set(t, [th[t] EXCEPT !.pc = IF built = 1 THEN "decode" ELSE "done",
                                    !.err = built # 1, !.i = 1, !.at = 1])
            /\ UNCHANGED <<node, nnodes>>
       ELSE /\ nnodes' = 1
            /\ node' = [node EXCEPT ![1] = Fresh]
            /\ Set(t, [th[t] EXCEPT !.pc = "build", !.i = 1, !.b = 1, !.at = 1])
    /\ UNCHANGED built

(* One bit of one code: follow the child, or find that there is none; at   *)
(* the code's end the node gets its symbol.                                *)
Walk(t) ==
    LET r == th[t]
        code == Codes[r.i]
        next == IF r.b <= Len(code) THEN Child(r.at, code[r.b]) ELSE 0
    IN  /\ r.pc = "build" /\ r.i <= EOS
        /\ IF r.b > Len(code)
           THEN /\ node' = [node EXCEPT ![r.at].sym = r.i]
                /\ Set(t, [r EXCEPT !.i = @ + 1, !.b = 1, !.at = 1])
           ELSE /\ UNCHANGED node
                /\ Set(t, IF next = 0 THEN [r EXCEPT !.pc = "nodes"]
                          ELSE [r EXCEPT !.at = next, !.b = @ + 1])
        /\ UNCHANGED <<nnodes, built>>

(* next = g_huff_nnodes++, or the table is full.                           *)
Allocate(t) ==
    /\ th[t].pc = "nodes"
    /\ IF nnodes >= MaxNodes
       THEN /\ built' = 2
            /\ Set(t, [th[t] EXCEPT !.pc = "done", !.err = TRUE])
            /\ UNCHANGED nnodes
       ELSE /\ Set(t, [th[t] EXCEPT !.pc = "init", !.new = nnodes + 1])
            /\ nnodes' = nnodes + 1
            /\ UNCHANGED built
    /\ UNCHANGED node

InitNode(t) ==
    /\ th[t].pc = "init"
    /\ node' = [node EXCEPT ![th[t].new] = Fresh]
    /\ Set(t, [th[t] EXCEPT !.pc = "link"])
    /\ UNCHANGED <<nnodes, built>>

Link(t) ==
    LET r == th[t]
    IN  /\ r.pc = "link"
        /\ node' = IF Codes[r.i][r.b] = 0 THEN [node EXCEPT ![r.at].c0 = r.new]
                   ELSE [node EXCEPT ![r.at].c1 = r.new]
        /\ Set(t, [r EXCEPT !.pc = "build", !.at = r.new, !.b = @ + 1])
        /\ UNCHANGED <<nnodes, built>>

(* The trie is complete; huff_decode goes on and tests the flag again.     *)
Built(t) ==
    /\ th[t].pc = "build" /\ th[t].i > EOS
    /\ built' = 1
    /\ Set(t, [th[t] EXCEPT !.pc = "call"])
    /\ UNCHANGED <<node, nnodes>>

Fail(r) == [r EXCEPT !.pc = "done", !.err = TRUE]

(* One bit of the input.                                                   *)
DecodeBit(t) ==
    LET r == th[t]
        bit == r.in[r.i]
        next == Child(r.at, bit)
        sym == node[next].sym
    IN  /\ r.pc = "decode" /\ r.i <= Len(r.in)
        /\ Set(t, IF next = 0 \/ sym = EOS THEN Fail(r)
                  ELSE IF sym > 0
                  THEN [r EXCEPT !.out = Append(@, sym), !.at = 1, !.ones = TRUE,
                                 !.depth = 0, !.i = @ + 1]
                  ELSE [r EXCEPT !.at = next, !.ones = @ /\ bit = 1,
                                 !.depth = @ + 1, !.i = @ + 1])
        /\ UNCHANGED <<node, nnodes, built>>

(* What is left must be a padding of ones, shorter than an octet.          *)
Finish(t) ==
    LET r == th[t]
    IN  /\ r.pc = "decode" /\ r.i > Len(r.in)
        /\ Set(t, IF r.at # 1 /\ (~r.ones \/ r.depth > Octet - 1)
                  THEN Fail(r) ELSE [r EXCEPT !.pc = "done"])
        /\ UNCHANGED <<node, nnodes, built>>

HuffNext == \E t \in Threads : \/ Enter(t) \/ Walk(t) \/ Allocate(t) \/ InitNode(t)
                           \/ Link(t) \/ Built(t) \/ DecodeBit(t) \/ Finish(t)

HuffSpec == HuffInit /\ [][HuffNext]_huffVars

-----------------------------------------------------------------------------
(* The code's meaning, without a trie: symbols while a code is a prefix of *)
(* what is left, then fewer than Octet ones.                               *)
RECURSIVE Reference(_)
Reference(w) ==
    LET fits == {i \in 1 .. EOS : IsPrefix(Codes[i], w)}
        sym == CHOOSE i \in fits : TRUE
        rest == Reference(SubSeq(w, Len(Codes[sym]) + 1, Len(w)))
    IN  IF Len(w) < Octet /\ \A k \in DOMAIN w : w[k] = 1 THEN [ok |-> TRUE, out |-> <<>>]
        ELSE IF fits = {} \/ sym = EOS \/ ~rest.ok THEN [ok |-> FALSE, out |-> <<>>]
        ELSE [ok |-> TRUE, out |-> <<sym>> \o rest.out]

(* huff_decode returns what the code table says, for every call of every   *)
(* thread, the call that builds the trie and those that find it built.     *)
DecodesRight ==
    \A t \in Threads : th[t].pc = "done" =>
        LET ref == Reference(th[t].in)
        IN  /\ th[t].err = ~ref.ok
            /\ ref.ok => th[t].out = ref.out

-----------------------------------------------------------------------------
(***************************************************************************)
(* How the HTTP/2 client cuts the byte stream into frames and header       *)
(* blocks (containerd/h2c.c): frame_reader_fill on a non-blocking socket,  *)
(* which may return after any octet, and the assembly of HEADERS and       *)
(* CONTINUATION payloads.  An octet is a mark of its place, so an octet    *)
(* lost, repeated or attributed to another frame shows.  A frame header    *)
(* has HdrLen octets instead of 9.                                         *)
(***************************************************************************)

CONSTANTS Scripts,   \* what the daemon may send: sequences of frames
          HdrLen,    \* 9
          MaxBlock   \* H2C_HDR_BLOCK_MAX

FramesAssumption == HdrLen \in Nat \ {0} /\ MaxBlock \in Nat

VARIABLES script, arrived,  \* octets the socket holds or has handed out
          off,              \* octets handed out
          hdr, fill, pay,   \* frame_reader: header octets, payload octets
          frames,           \* frames dispatched: [n, pay]
          blk, blocks,      \* hdr_block and the blocks decoded
          pc                \* "run", "wait" (in poll), "eof", "proto"

framesVars == <<script, arrived, off, hdr, fill, pay, frames, blk, blocks, pc>>

Octets(n, from, to) == [k \in 1 .. to - from + 1 |-> <<n, from + k - 1>>]
Payload(n) == Octets(n, HdrLen + 1, HdrLen + script[n].len)
Whole(n) == Octets(n, 1, HdrLen + script[n].len)
Wire == FlattenSeq([n \in 1 .. Len(script) |-> Whole(n)])
NoBlock == [pending |-> FALSE, of |-> 0, octets |-> <<>>]

FramesInit ==
    /\ script \in Scripts
    /\ arrived = 0 /\ off = 0
    /\ hdr = <<>> /\ fill = 0 /\ pay = <<>>
    /\ frames = <<>> /\ blk = NoBlock /\ blocks = <<>>
    /\ pc = "run"

Arrive ==
    /\ arrived < Len(Wire) /\ pc \in {"run", "wait"}
    /\ arrived' \in arrived + 1 .. Len(Wire)
    /\ pc' = "run"
    /\ UNCHANGED <<script, off, hdr, fill, pay, frames, blk, blocks>>

Got(n) == SubSeq(Wire, off + 1, off + n)

(* The frame whose header was read; none when the octets are not a header. *)
Parsed == {n \in 1 .. Len(script) : hdr = Octets(n, 1, HdrLen)}
FrameNo == CHOOSE n \in Parsed : TRUE
PayLen == script[FrameNo].len

ReadHeader ==
    /\ pc = "run" /\ Len(hdr) < HdrLen /\ arrived > off
    /\ \E n \in 1 .. Min({HdrLen - Len(hdr), arrived - off}) :
         hdr' = hdr \o Got(n) /\ off' = off + n
    /\ UNCHANGED <<script, arrived, fill, pay, frames, blk, blocks, pc>>

ReadPayload ==
    /\ pc = "run" /\ Len(hdr) = HdrLen /\ Parsed # {} /\ fill < PayLen /\ arrived > off
    /\ \E n \in 1 .. Min({PayLen - fill, arrived - off}) :
         pay' = pay \o Got(n) /\ fill' = fill + n /\ off' = off + n
    /\ UNCHANGED <<script, arrived, hdr, frames, blk, blocks, pc>>

Ready == Len(hdr) = HdrLen /\ Parsed # {} /\ fill >= PayLen

(* EAGAIN: the partly read frame stays where it is until the next poll.    *)
WouldBlock ==
    /\ pc = "run" /\ arrived = off /\ ~Ready
    /\ pc' = "wait"
    /\ UNCHANGED <<script, arrived, off, hdr, fill, pay, frames, blk, blocks>>

Decoded(b) == blocks' = Append(blocks, b)

HandleHeaders(n) ==
    IF blk.pending THEN pc' = "proto" /\ UNCHANGED <<blk, blocks>>
    ELSE IF script[n].end THEN Decoded([of |-> n, octets |-> pay]) /\ UNCHANGED <<blk, pc>>
    ELSE IF Len(pay) > MaxBlock THEN pc' = "proto" /\ UNCHANGED <<blk, blocks>>
    ELSE blk' = [pending |-> TRUE, of |-> n, octets |-> pay] /\ UNCHANGED <<blocks, pc>>

HandleContinuation(n) ==
    LET all == blk.octets \o pay
    IN  IF ~blk.pending \/ Len(all) > MaxBlock THEN pc' = "proto" /\ UNCHANGED <<blk, blocks>>
        ELSE IF script[n].end
        THEN Decoded([of |-> blk.of, octets |-> all]) /\ blk' = NoBlock /\ UNCHANGED pc
        ELSE blk' = [blk EXCEPT !.octets = all] /\ UNCHANGED <<blocks, pc>>

(* Mutant: frame_reader_reset forgets the payload's fill.                  *)
ResetHeaderOnly == hdr' = <<>> /\ pay' = <<>> /\ UNCHANGED fill

frame_reader_reset == hdr' = <<>> /\ pay' = <<>> /\ fill' = 0

(* process_one_frame with a complete frame.                                *)
ProcessFrame ==
    /\ pc = "run" /\ Ready
    /\ frames' = Append(frames, [n |-> FrameNo, pay |-> pay])
    /\ CASE script[FrameNo].type = "HEADERS"      -> HandleHeaders(FrameNo)
         [] script[FrameNo].type = "CONTINUATION" -> HandleContinuation(FrameNo)
         [] script[FrameNo].type = "DATA"         -> UNCHANGED <<blk, blocks, pc>>
    /\ frame_reader_reset
    /\ UNCHANGED <<script, arrived, off>>

(* The daemon closes the connection, between frames or within one.         *)
PeerCloses ==
    /\ pc \in {"run", "wait"} /\ arrived = off /\ ~Ready
    /\ pc' = "eof"
    /\ UNCHANGED <<script, arrived, off, hdr, fill, pay, frames, blk, blocks>>

FramesNext == Arrive \/ ReadHeader \/ ReadPayload \/ WouldBlock \/ ProcessFrame \/ PeerCloses
FramesSpec == FramesInit /\ [][FramesNext]_framesVars

-----------------------------------------------------------------------------
(* However the socket cuts the stream, the frames dispatched are the ones  *)
(* that were sent, in order, each with exactly its own payload.            *)
FramesIntact ==
    \A k \in 1 .. Len(frames) : frames[k] = [n |-> k, pay |-> Payload(k)]

Complete(k) == off >= Len(FlattenSeq([n \in 1 .. k |-> Whole(n)]))

(* When the reader goes back to poll, no frame that has arrived is left    *)
(* undelivered: a frame without payload does not wait for the next one.    *)
FramesPrompt ==
    pc = "wait" => \A k \in 1 .. Len(script) : Complete(k) => Len(frames) >= k

(* The blocks handed to the HPACK decoder: each HEADERS payload with the   *)
(* CONTINUATION payloads that follow it, under the flags of the HEADERS.   *)
Conts(n) == {k \in n + 1 .. Len(script) : \A j \in n + 1 .. k : script[j].type = "CONTINUATION"}
LastOf(n) == Max({n} \cup Conts(n))
BlockOf(n) == [of |-> n, octets |-> FlattenSeq([j \in 1 .. LastOf(n) - n + 1 |-> Payload(n + j - 1)])]
Starts == {n \in 1 .. Len(frames) : script[n].type = "HEADERS" /\ script[LastOf(n)].end
                                     /\ LastOf(n) <= Len(frames)}
BlocksIntact ==
    pc # "proto" => blocks = [i \in 1 .. Len(SetToSortSeq(Starts, <)) |->
                                BlockOf(SetToSortSeq(Starts, <)[i])]

(* A well-formed sequence whose blocks fit the buffer is never refused.    *)
NotRefused ==
    pc = "proto" => \E n \in 1 .. Len(script) :
        script[n].type = "HEADERS" /\ Len(BlockOf(n).octets) > MaxBlock
=============================================================================
