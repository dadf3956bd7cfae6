------------------------------ MODULE WireCodec ------------------------------
(***************************************************************************)
(* The wire frames of the engine, as the Python codecs                     *)
(* (engine/core/binary_protocol.py) and the C++ codecs (wire_codec.hpp)    *)
(* read and write them.                                                    *)
(*                                                                         *)
(* A frame maps each extent <<offset, width>> to the value stored there.   *)
(* The Python side lays a frame out from the field widths of its struct    *)
(* format, the C++ side from explicit offsets: a read at an extent nobody  *)
(* wrote has no value.  Time stamps, execution ids and the sequence number *)
(* of a trade (the Python codec writes 0) are left out.                    *)
(***************************************************************************)
EXTENDS Integers, Sequences, SequencesExt

CONSTANTS
    Span,      \* w -> the values of an unsigned integer of w bytes: 256^w in the code
    SixBytes,  \* symbol -> what _encode_symbol keeps of it, its first 6 bytes
    None       \* Python's None

ASSUME SpanAssumption == Span \in [{2, 4} -> Nat \ {0}]

\* What static_cast to an unsigned integer of w bytes keeps of a value.
Low(w, v) == v % Span[w]

\* struct.pack raises struct.error for a value its field cannot hold.
Fits(w, v) == v \in 0 .. Span[w] - 1

\* A struct format is a sequence of <<field, width>>.  The offset of each field:
Offsets(format) ==
    LET offset[i \in DOMAIN format] ==
            IF i = 1 THEN 0 ELSE offset[i - 1] + format[i - 1][2]
    IN  offset

Index(format, name) == CHOOSE i \in DOMAIN format : format[i][1] = name

\* Where a struct format puts each field.
Layout(format) ==
    [name \in {format[i][1] : i \in DOMAIN format} |->
        <<Offsets(format)[Index(format, name)], format[Index(format, name)][2]>>]

\* Struct.pack of a record of field values; pad bytes ("x") hold nothing.
Pack(layout, v) ==
    [e \in {layout[name] : name \in DOMAIN v} |->
        v[CHOOSE name \in DOMAIN v : layout[name] = e]]

\* Struct.unpack_from of one field.
Unpack(layout, frame, name) == frame[layout[name]]

-----------------------------------------------------------------------------
(* Enumerations: the Python tables and the C++ enums, each on its own.     *)

SIDE_TO_WIRE   == [BUY |-> 0, SELL |-> 1]
TYPE_TO_WIRE   == [LIMIT |-> 0, MARKET |-> 1]
TIF_TO_WIRE    == [GTC |-> 0, IOC |-> 1, FOK |-> 2, GTD |-> 3]
STATUS_TO_WIRE == [PENDING |-> 0, OPEN |-> 1, PARTIALLY_FILLED |-> 2,
                   FILLED |-> 3, CANCELLED |-> 4, REJECTED |-> 5]

\* _WIRE_TO_SIDE and the like: the table read backwards.
FromWire(table, b) == CHOOSE k \in DOMAIN table : table[k] = b

CppEnums ==
    [side |-> <<"BUY", "SELL">>,
     order_type |-> <<"LIMIT", "MARKET">>,
     time_in_force |-> <<"GTC", "IOC", "FOK", "GTD">>,
     status |-> <<"PENDING", "OPEN", "PARTIALLY_FILLED", "FILLED",
                  "CANCELLED", "REJECTED">>]

CppEnum(name, b) == CppEnums[name][b + 1]
CppByte(name, k) == (CHOOSE i \in DOMAIN CppEnums[name] : CppEnums[name][i] = k) - 1

-----------------------------------------------------------------------------
(* ORDER_FRAME                                                             *)

OrderFormat == Layout(
    <<<<"order_id", 16>>, <<"price", 8>>, <<"quantity", 4>>,
      <<"filled_quantity", 4>>, <<"created_at_ns", 8>>,
      <<"processed_at_ns", 8>>, <<"symbol", 6>>, <<"side", 1>>,
      <<"order_type", 1>>, <<"time_in_force", 1>>, <<"status", 1>>>>)

\* OrderCodec.encode returns a frame for these orders and raises for the rest.
Encodable(order) == Fits(4, order.quantity) /\ Fits(4, order.filled_quantity)

\* OrderCodec.encode and encode_into: no price travels as 0.0.
EncodeOrder(order) ==
    Pack(OrderFormat,
        [order_id |-> order.order_id,
         price |-> IF order.price = None THEN 0 ELSE order.price,
         quantity |-> order.quantity,
         filled_quantity |-> order.filled_quantity,
         symbol |-> SixBytes[order.symbol],
         side |-> SIDE_TO_WIRE[order.side],
         order_type |-> TYPE_TO_WIRE[order.order_type],
         time_in_force |-> TIF_TO_WIRE[order.time_in_force],
         status |-> STATUS_TO_WIRE[order.status]])

\* OrderCodec.decode: 0.0 comes back as no price.
DecodeOrder(frame) ==
    LET get(name) == Unpack(OrderFormat, frame, name)
    IN  [order_id |-> get("order_id"),
         price |-> IF get("price") = 0 THEN None ELSE get("price"),
         quantity |-> get("quantity"),
         filled_quantity |-> get("filled_quantity"),
         symbol |-> get("symbol"),
         side |-> FromWire(SIDE_TO_WIRE, get("side")),
         order_type |-> FromWire(TYPE_TO_WIRE, get("order_type")),
         time_in_force |-> FromWire(TIF_TO_WIRE, get("time_in_force")),
         status |-> FromWire(STATUS_TO_WIRE, get("status"))]

\* wire::decode_order
CppDecodeOrder(frame) ==
    [order_id |-> frame[<<0, 16>>], price |-> frame[<<16, 8>>],
     quantity |-> frame[<<24, 4>>], filled_quantity |-> frame[<<28, 4>>],
     symbol |-> frame[<<48, 6>>],
     side |-> CppEnum("side", frame[<<54, 1>>]),
     order_type |-> CppEnum("order_type", frame[<<55, 1>>]),
     time_in_force |-> CppEnum("time_in_force", frame[<<56, 1>>]),
     status |-> CppEnum("status", frame[<<57, 1>>])]

\* wire::encode_order
CppEncodeOrder(node) ==
    [e \in {<<0, 16>>, <<16, 8>>, <<24, 4>>, <<28, 4>>, <<48, 6>>, <<54, 1>>,
           <<55, 1>>, <<56, 1>>, <<57, 1>>} |->
        CASE e = <<0, 16>> -> node.order_id
          [] e = <<16, 8>> -> node.price
          [] e = <<24, 4>> -> node.quantity
          [] e = <<28, 4>> -> node.filled_quantity
          [] e = <<48, 6>> -> node.symbol
          [] e = <<54, 1>> -> CppByte("side", node.side)
          [] e = <<55, 1>> -> CppByte("order_type", node.order_type)
          [] e = <<56, 1>> -> CppByte("time_in_force", node.time_in_force)
          [] e = <<57, 1>> -> CppByte("status", node.status)]

-----------------------------------------------------------------------------
(* TRADE_FRAME and the match result.  A trade is [price, quantity,         *)
(* aggressor_side, maker, taker]; its frame has no room for the taker.     *)

TradeFormat == Layout(
    <<<<"trade_id", 16>>, <<"price", 8>>, <<"quantity", 4>>,
      <<"aggressor_side", 1>>, <<"x", 3>>, <<"timestamp_ns", 8>>,
      <<"sequence", 8>>, <<"maker_hi", 8>>, <<"maker_lo", 8>>>>)

HeaderFormat == Layout(
    <<<<"trade_count", 2>>, <<"total_filled", 4>>, <<"status", 1>>,
      <<"is_resting", 1>>>>)

\* The high and the low eight bytes of an identifier.
Half(id, k) == <<id, k>>

\* TradeCodec.encode
EncodeTrade(t) ==
    Pack(TradeFormat,
        [price |-> t.price, quantity |-> t.quantity,
         aggressor_side |-> SIDE_TO_WIRE[t.aggressor_side],
         maker_hi |-> Half(t.maker, 1), maker_lo |-> Half(t.maker, 2)])

\* TradeCodec.decode; halves of two identifiers would make a third one.
DecodeTrade(frame) ==
    LET get(name) == Unpack(TradeFormat, frame, name)
    IN  [price |-> get("price"), quantity |-> get("quantity"),
         aggressor_side |-> FromWire(SIDE_TO_WIRE, get("aggressor_side")),
         maker |-> IF get("maker_hi")[1] = get("maker_lo")[1]
                   THEN get("maker_hi")[1] ELSE None]

\* The trade frames of wire::encode_match_result
CppEncodeTrade(t) ==
    [e \in {<<16, 8>>, <<24, 4>>, <<28, 1>>, <<48, 8>>, <<56, 8>>} |->
        CASE e = <<16, 8>> -> t.price
          [] e = <<24, 4>> -> t.quantity
          [] e = <<28, 1>> -> CppByte("side", t.aggressor_side)
          [] e = <<48, 8>> -> Half(t.maker, 1)
          [] e = <<56, 8>> -> Half(t.maker, 2)]

\* MatchResultCodec.encode: a header and one frame per trade.
EncodeResult(r) ==
    [header |-> Pack(HeaderFormat,
        [trade_count |-> Len(r.trades), total_filled |-> r.total_filled,
         status |-> STATUS_TO_WIRE[r.status],
         is_resting |-> IF r.resting THEN 1 ELSE 0]),
     trades |-> [i \in DOMAIN r.trades |-> EncodeTrade(r.trades[i])]]

\* wire::encode_match_result
CppEncodeResult(r) ==
    [header |-> [e \in {<<0, 2>>, <<2, 4>>, <<6, 1>>, <<7, 1>>} |->
        CASE e = <<0, 2>> -> Low(2, Len(r.trades))
          [] e = <<2, 4>> -> Low(4, r.total_filled)
          [] e = <<6, 1>> -> CppByte("status", r.status)
          [] e = <<7, 1>> -> IF r.resting THEN 1 ELSE 0],
     trades |-> [i \in DOMAIN r.trades |-> CppEncodeTrade(r.trades[i])]]

\* MatchResultCodec.decode: as many trades as the header counts.
DecodeResult(data) ==
    LET get(name) == Unpack(HeaderFormat, data.header, name)
    IN  [total_filled |-> get("total_filled"),
         status |-> FromWire(STATUS_TO_WIRE, get("status")),
         resting |-> get("is_resting") = 1,
         trades |-> [i \in 1..get("trade_count") |-> DecodeTrade(data.trades[i])]]

-----------------------------------------------------------------------------
(* The book snapshot: [sequence, bids, asks], where a side is a sequence   *)
(* of <<price, quantity, order count>>.                                    *)

SnapshotFormat == Layout(
    <<<<"symbol", 6>>, <<"bid_count", 2>>, <<"ask_count", 2>>, <<"x", 2>>,
      <<"sequence", 4>>, <<"timestamp_ns", 8>>>>)

LevelFormat ==
    Layout(<<<<"price", 8>>, <<"quantity", 4>>, <<"order_count", 4>>>>)

\* The header of wire::encode_snapshot: the sequence number and the counts lose
\* their high bytes.
CppEncodeHeader(snap) ==
    [e \in {<<0, 6>>, <<6, 2>>, <<8, 2>>, <<12, 4>>} |->
        CASE e = <<0, 6>> -> snap.symbol
          [] e = <<6, 2>> -> Low(2, Len(snap.bids))
          [] e = <<8, 2>> -> Low(2, Len(snap.asks))
          [] e = <<12, 4>> -> Low(4, snap.sequence)]

CppEncodeLevels(levels) ==
    [i \in DOMAIN levels |->
        [e \in {<<0, 8>>, <<8, 4>>, <<12, 4>>} |->
            CASE e = <<0, 8>> -> levels[i][1]
              [] e = <<8, 4>> -> levels[i][2]
              [] e = <<12, 4>> -> levels[i][3]]]

\* Mutant: the ask levels come first.
CppEncodeAsksFirst(snap) ==
    [header |-> CppEncodeHeader(snap), levels |-> CppEncodeLevels(snap.asks \o snap.bids)]

\* wire::encode_snapshot: the bid levels come before the ask levels.
CppEncodeSnapshot(snap) ==
    [header |-> CppEncodeHeader(snap), levels |-> CppEncodeLevels(snap.bids \o snap.asks)]

\* BookSnapshotCodec.encode, for a snapshot whose numbers fit their fields.
EncodeSnapshot(snap) ==
    LET levels == snap.bids \o snap.asks
    IN  [header |-> Pack(SnapshotFormat,
            [symbol |-> SixBytes[snap.symbol], bid_count |-> Len(snap.bids),
             ask_count |-> Len(snap.asks), sequence |-> snap.sequence]),
         levels |-> [i \in DOMAIN levels |-> Pack(LevelFormat,
            [price |-> levels[i][1], quantity |-> levels[i][2],
             order_count |-> levels[i][3]])]]

\* BookLevelCodec.decode
DecodeLevel(frame) ==
    <<Unpack(LevelFormat, frame, "price"), Unpack(LevelFormat, frame, "quantity"),
      Unpack(LevelFormat, frame, "order_count")>>

\* BookSnapshotCodec.decode
DecodeSnapshot(data) ==
    LET get(name) == Unpack(SnapshotFormat, data.header, name)
        levels == [i \in DOMAIN data.levels |-> DecodeLevel(data.levels[i])]
    IN  [symbol |-> get("symbol"), sequence |-> get("sequence"),
         bids |-> SubSeq(levels, 1, get("bid_count")),
         asks |-> SubSeq(levels, get("bid_count") + 1,
                         get("bid_count") + get("ask_count"))]
=============================================================================
