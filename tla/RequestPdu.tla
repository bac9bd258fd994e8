----------------------------- MODULE RequestPdu -----------------------------
(***************************************************************************)
(* A CoAP message as the gateway builds it and reads it: the sorted option *)
(* list (coap_insert with order_opts), coap_new_request, which turns it    *)
(* into a PDU with delta-coded option numbers, and the option iterator     *)
(* with its filter, through which message_handler, get_block and           *)
(* coap_show_pdu look at the options of a PDU.                             *)
(*                                                                         *)
(* The value of an option is abstracted to nth, which option it is; its    *)
(* length is kept, for the header and the room in the PDU depend on it.    *)
(***************************************************************************)
EXTENDS Integers, Sequences, SequencesExt

CONSTANTS HostLengths, PathLengths, BlockLengths,  (* of option values      *)
          ListMax,       (* bound: options in one list                     *)
          TokenLengths,  (* of the_token, see ClockToken                   *)
          MaxSize,       (* COAP_MAX_PDU_SIZE                              *)
          ReceivedTypes, (* option numbers peers use                       *)
          ReceivedMax,   (* bound: options in a received PDU               *)
          Filters,       (* sets of types searched for                     *)
          ALL            (* COAP_OPT_ALL                                   *)

VARIABLES optlist,   (* the coap_list_t under construction                 *)
          inserted,  (* history: its options in the order of the calls     *)
          pdu,       (* [length, max_delta, options]                       *)
          sent,      (* history: what pdu should carry                     *)
          asked,     (* history: the types searched for since init, or ALL *)
          oi,        (* coap_opt_iterator_t: [at, type, bad, filter]; at   *)
                     (* options of pdu are in front of next_option         *)
          returned   (* history: what coap_option_next returned since init *)

pduVars == <<optlist, inserted, pdu, sent, asked, oi, returned>>

HeaderSize == 4       (* sizeof(coap_hdr_t)                                *)
USHRT_MAX == 65535
Short(n) == n % (USHRT_MAX + 1)
COAP_MAX_OPT == 63
FilterSize == (COAP_MAX_OPT \div 8) + 1      (* sizeof(coap_opt_filter_t) *)

(***************************************************************************)
(* The option list.                                                        *)
(***************************************************************************)
(* COAP_OPTION_URI_HOST, COAP_OPTION_URI_PATH, COAP_OPTION_BLOCK2 *)
OptionKeys == {3, 11, 23}
Lengths(k) == IF k = 3 THEN HostLengths ELSE IF k = 11 THEN PathLengths ELSE BlockLengths

(* A path has at most 255 characters (wgconfig.h:62), and the options of a  *)
(* list fit into a PDU, each with at most five bytes besides its value.     *)
(* coap_check_option takes the wanted type as unsigned char.                *)
ASSUME PduAssumption ==
  /\ \A l \in HostLengths \cup PathLengths \cup BlockLengths : l \in Nat /\ l <= 255
  /\ ListMax \in Nat /\ MaxSize \in Nat /\ ReceivedMax \in Nat
  /\ TokenLengths \subseteq Nat
  /\ \A t \in TokenLengths : HeaderSize + t + ListMax * (5 + 255) <= MaxSize
  /\ \A t \in ReceivedTypes : t \in Nat /\ t <= USHRT_MAX
  /\ \A types \in Filters : \A t \in types : t \in Nat /\ t <= 255

(* order_opts is negative, 1 or 0 for less, equal or greater: only its sign *)
(* counts.                                                                  *)
order_opts(a, b) == IF a.key < b.key THEN -1 ELSE IF a.key = b.key THEN 1 ELSE 0

coap_insert_reversed(list, node) ==      (* mutant: before equal keys      *)
  LET Passed(n) == \A i \in 1 .. n : node.key > list[i].key
      behind == CHOOSE n \in 0 .. Len(list) :
                  Passed(n) /\ (n < Len(list) => ~Passed(n + 1))
  IN  InsertAt(list, behind + 1, node)

(* The new node goes behind every leading node it does not precede.        *)
coap_insert(list, node) ==
  LET Passed(n) == \A i \in 1 .. n : order_opts(node, list[i]) >= 0
      behind == CHOOSE n \in 0 .. Len(list) :
                  Passed(n) /\ (n < Len(list) => ~Passed(n + 1))
  IN  InsertAt(list, behind + 1, node)

(***************************************************************************)
(* The header of an option: a nibble and, for 13 and 14, an extension of   *)
(* one or two bytes.  The code takes the one-byte form up to 269, one too  *)
(* many: 269 is written as 13.  A peer takes it up to 268.                 *)
(***************************************************************************)
NibbleWide(v) ==                         (* mutant: 13 and 14 in place     *)
  IF v <= 14 THEN [code |-> v, ext |-> 0]
  ELSE IF v <= 269 THEN [code |-> 13, ext |-> (v - 13) % 256]
  ELSE [code |-> 14, ext |-> Short(v - 269)]

Nibble(v) ==
  IF v <= 12 THEN [code |-> v, ext |-> 0]
  ELSE IF v <= 269 THEN [code |-> 13, ext |-> (v - 13) % 256]
  ELSE [code |-> 14, ext |-> Short(v - 269)]

PeerNibble(v) == IF v = 269 THEN [code |-> 14, ext |-> 0] ELSE Nibble(v)

ExtSize(x) == IF x.code = 13 THEN 1 ELSE IF x.code = 14 THEN 2 ELSE 0

(* coap_opt_parse *)
Value(x) == IF x.code = 13 THEN 13 + x.ext ELSE IF x.code = 14 THEN 269 + x.ext ELSE x.code

coap_opt_setheader(delta, o) == [delta |-> Nibble(delta), length |-> Nibble(o.length), nth |-> o.nth]
coap_opt_delta(e) == Value(e.delta)
coap_opt_length(e) == Value(e.length)
coap_opt_size(e) == 1 + ExtSize(e.delta) + ExtSize(e.length) + coap_opt_length(e)

(* The encoded option, or none when it takes more than room bytes. *)
coap_opt_encode(room, delta, o) ==
  LET e == coap_opt_setheader(delta, o)
  IN  IF coap_opt_size(e) > room THEN <<>> ELSE <<e>>

(***************************************************************************)
(* The PDU.                                                                *)
(***************************************************************************)
coap_new_pdu == [length |-> HeaderSize, max_delta |-> 0, options |-> <<>>]
coap_add_token(p, len) == [p EXCEPT !.length = HeaderSize + len, !.max_delta = 0]

(* An option whose number is below the last one's, or that does not fit, is *)
(* dropped; coap_new_request does not look at the result.                   *)
coap_add_option(p, o) ==
  LET e == coap_opt_encode(MaxSize - p.length, o.key - p.max_delta, o)
  IN  IF o.key < p.max_delta \/ e = <<>>
      THEN p
      ELSE [p EXCEPT !.length = @ + coap_opt_size(e[1]),
                     !.max_delta = o.key,
                     !.options = @ \o e]

(* The payload of a request is always empty. *)
coap_new_request(token_length, list) ==
  LET p[n \in 0 .. Len(list)] ==
        IF n = 0 THEN coap_add_token(coap_new_pdu, token_length) ELSE coap_add_option(p[n - 1], list[n])
  IN  p[Len(list)]

(***************************************************************************)
(* The iterator.  A filter is a bit vector of eight bytes, a bit number an *)
(* uint8_t.                                                                *)
(***************************************************************************)
Bit(type) == type % 256
Fits(type) == Bit(type) \div 8 < FilterSize

(* coap_option_filter_clear, and coap_option_setb for each of types. *)
FilterOf(types) == {Bit(t) : t \in {u \in types : Fits(u)}}

(* COAP_OPT_ALL is the null pointer: no filter is it. *)
ASSUME FilterAssumption ==
  \A types \in Filters : types # ALL /\ FilterOf(types) # ALL

coap_option_iterator_init(p, filter) ==
  [at |-> 0, type |-> 0, bad |-> p.options = <<>>, filter |-> filter]

(* The type the iterator has counted up to at option n of the PDU. *)
TypeAt(p, it, n) ==
  LET type[k \in it.at .. Len(p.options)] ==
        IF k = it.at THEN it.type ELSE Short(type[k - 1] + coap_opt_delta(p.options[k]))
  IN  type[n]

PassesAny(it, type) == it.filter = ALL \/ ~Fits(type) \/ Bit(type) \in it.filter   (* mutant *)
Passes(it, type) == it.filter = ALL \/ (Fits(type) /\ Bit(type) \in it.filter)
GivesUp(it, type) == it.filter # ALL /\ ~Fits(type)

(* The options from oi on that the filter lets pass and that are reached:   *)
(* the iterator gives up at a type whose bit the filter cannot hold.        *)
Hits(p, it) ==
  {n \in it.at + 1 .. Len(p.options) :
     /\ Passes(it, TypeAt(p, it, n))
     /\ \A m \in it.at + 1 .. n - 1 : ~GivesUp(it, TypeAt(p, it, m))}

(***************************************************************************)
(* The check coap_dispatch makes of a CON or NON before it calls            *)
(* message_handler: an odd number is critical, and must be known.          *)
(***************************************************************************)
(* The calls of coap_register_option in coap_new_context. *)
known_options == {1, 3, 5, 7, 11, 15, 17, 23, 27, 35, 39}

UnknownInside(type) == Fits(type) /\ Bit(type) \notin known_options   (* mutant: -1 passes for 1 *)

(* coap_option_getb(ctx->known_options, type) < 1 *)
Unknown(type) == Fits(type) => Bit(type) \notin known_options

(* Every unknown critical option is noted, up to the first one the filter   *)
(* cannot hold, where the walk ends.                                       *)
coap_option_check_critical(p) ==
  LET type(n) == TypeAt(p, coap_option_iterator_init(p, ALL), n)
      bad  == {n \in 1 .. Len(p.options) : type(n) % 2 = 1 /\ Unknown(type(n))}
      seen == {n \in bad : \A m \in bad : m <= n => Fits(type(m))}
  IN  [ok |-> bad = {}, unknown |-> {Bit(type(n)) : n \in seen}]

(***************************************************************************)
(* The calls.                                                              *)
(***************************************************************************)
NoPdu == coap_new_pdu

PduInit ==
  /\ optlist = <<>> /\ inserted = <<>>
  /\ pdu = NoPdu /\ sent = <<>>
  /\ asked = ALL /\ oi = coap_option_iterator_init(NoPdu, ALL) /\ returned = <<>>

(* coap_insert(&optlist, new_option_node(key, length, data), order_opts) *)
Insert ==
  /\ Len(inserted) < ListMax
  /\ pdu = NoPdu
  /\ \E k \in OptionKeys : \E l \in Lengths(k) :
       LET o == [key |-> k, length |-> l, nth |-> Len(inserted) + 1]
       IN  /\ optlist' = coap_insert(optlist, o)
           /\ inserted' = Append(inserted, o)
  /\ UNCHANGED <<pdu, sent, asked, oi, returned>>

(* The request is built, and shown with coap_show_pdu. *)
NewRequest ==
  /\ pdu = NoPdu
  /\ \E t \in TokenLengths : pdu' = coap_new_request(t, optlist)
  /\ sent' = inserted
  /\ asked' = ALL /\ oi' = coap_option_iterator_init(pdu', ALL) /\ returned' = <<>>
  /\ optlist' = <<>> /\ inserted' = <<>>      (* coap_delete_list(optlist) *)

(* A PDU coap_pdu_parse accepted, its options by increasing number.  Their *)
(* values are left empty, and so is the payload: the iterator ends at its  *)
(* marker as it ends at the end of the PDU.                                *)
Receive ==
  /\ pdu = NoPdu /\ inserted = <<>>
  /\ \E n \in 1 .. ReceivedMax : \E ts \in [1 .. n -> ReceivedTypes] :
       LET delta(i) == IF i = 1 THEN ts[1] ELSE ts[i] - ts[i - 1]
       IN  /\ \A i, j \in 1 .. n : i < j => ts[i] <= ts[j]
           /\ pdu' = [NoPdu EXCEPT !.options =
                 [i \in 1 .. n |-> [delta |-> PeerNibble(delta(i)), length |-> PeerNibble(0), nth |-> i]]]
           /\ sent' = [i \in 1 .. n |-> [key |-> ts[i], length |-> 0, nth |-> i]]
           /\ oi' = coap_option_iterator_init(pdu', ALL)
  /\ asked' = ALL /\ returned' = <<>>
  /\ UNCHANGED <<optlist, inserted>>

(* coap_check_option, get_block: a fresh filter, then the first option. *)
Search ==
  /\ pdu # NoPdu
  /\ \E types \in Filters :
       asked' = types /\ oi' = coap_option_iterator_init(pdu, FilterOf(types))
  /\ returned' = <<>>
  /\ UNCHANGED <<optlist, inserted, pdu, sent>>

(* coap_option_next: past the option it returns, or finished for good. *)
coap_option_next ==
  /\ pdu # NoPdu /\ ~oi.bad
  /\ \/ /\ Hits(pdu, oi) = {}
        /\ oi' = [oi EXCEPT !.bad = TRUE] /\ UNCHANGED returned
     \/ \E n \in Hits(pdu, oi) :
          /\ \A m \in Hits(pdu, oi) : n <= m
          /\ oi' = [oi EXCEPT !.at = n, !.type = TypeAt(pdu, oi, n)]
          /\ returned' = Append(returned, pdu.options[n].nth)
  /\ UNCHANGED <<optlist, inserted, pdu, sent, asked>>

(* The PDU is dropped, the next one may be built or received. *)
coap_delete_pdu ==
  /\ pdu # NoPdu
  /\ pdu' = NoPdu /\ sent' = <<>>
  /\ asked' = ALL /\ oi' = coap_option_iterator_init(NoPdu, ALL) /\ returned' = <<>>
  /\ UNCHANGED <<optlist, inserted>>

PduNext == Insert \/ NewRequest \/ Receive \/ Search \/ coap_option_next \/ coap_delete_pdu

PduSpec == PduInit /\ [][PduNext]_pduVars
-----------------------------------------------------------------------------
(***************************************************************************)
(* What a reader of the PDU decodes.                                       *)
(***************************************************************************)
Decoded(p) ==
  LET number[n \in 0 .. Len(p.options)] ==
        IF n = 0 THEN 0 ELSE number[n - 1] + coap_opt_delta(p.options[n])
  IN  [n \in 1 .. Len(p.options) |->
         [key |-> number[n], length |-> coap_opt_length(p.options[n]), nth |-> p.options[n].nth]]

(* By key, repeated options in the order of the calls. *)
Before(a, b) == a.key < b.key \/ (a.key = b.key /\ a.nth < b.nth)

(* The request on the wire carries every option that was inserted, with its *)
(* number and length, and no other, by increasing number and repeated ones  *)
(* in the order they were inserted: coap_new_request ignores the options    *)
(* coap_add_option drops, so this rests on coap_insert keeping the list     *)
(* sorted, on the delta coding and on the room in the PDU together.         *)
RequestExact ==
  LET read == Decoded(pdu)
  IN  pdu # NoPdu => /\ Len(read) = Len(sent) /\ ToSet(read) = ToSet(sent)
                     /\ \A i, j \in 1 .. Len(read) : i < j => Before(read[i], read[j])

(* No option number aliases another in the bits of a filter. *)
Narrow == \A o \in ToSet(sent) : o.key < 256

(* What was returned are the first options of wanted in their order, and    *)
(* all of them when the search has ended.                                  *)
Finds(wanted) ==
  LET given(k) == sent[returned[k]]
  IN  /\ \A k \in 1 .. Len(returned) :
           /\ returned[k] \in 1 .. Len(sent) /\ given(k) \in wanted
           /\ {o \in wanted : Before(o, given(k))} = {given(j) : j \in 1 .. k - 1}
      /\ oi.bad => wanted = {given(k) : k \in 1 .. Len(returned)}

(* A search returns, in their order, exactly the options of the types its   *)
(* caller asked for, as far as these go up to COAP_MAX_OPT.  It finds them  *)
(* all although it gives up at the first option the filter cannot hold.    *)
(* A filter never lets an option beyond COAP_MAX_OPT pass, asked for or     *)
(* not: it has no bit for it, and the caller of coap_option_setb is not     *)
(* told (the gateway asks for 3, 11, 23 and 27 only).                       *)
FilterExact ==
  pdu # NoPdu /\ Narrow =>
    Finds({o \in ToSet(sent) : asked = ALL \/ (o.key \in asked /\ o.key <= COAP_MAX_OPT)})

(* Of the CON and NON the gateway refuses exactly those with a critical     *)
(* option it does not know (an ACK is not checked), and the options an     *)
(* error response lists are the unknown ones in front of the first beyond  *)
(* COAP_MAX_OPT: this takes the delta coding, the filter's limits and the  *)
(* odd numbers.                                                            *)
CriticalExact ==
  LET r == coap_option_check_critical(pdu)
      strange == {o \in ToSet(sent) : o.key % 2 = 1 /\ o.key \notin known_options}
  IN  pdu # NoPdu /\ Narrow =>
        /\ r.ok <=> strange = {}
        /\ r.unknown = {o.key : o \in {x \in strange : x.key <= COAP_MAX_OPT}}

(* coap_check_option: the option found has the type that was asked for, as  *)
(* option.h promises ("returns the first option with this type").           *)
CheckFindsType ==
  asked # ALL => \A i \in ToSet(returned) : sent[i].key \in asked
=============================================================================
