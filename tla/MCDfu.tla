------------------------------ MODULE MCDfu ------------------------------
(***************************************************************************)
(* Small instances of Dfu for TLC.  A byte is one of four; a page holds    *)
(* two bytes and a chunk one or two, so an image of three bytes takes a    *)
(* full page and a partial one, as real images do.                         *)
(***************************************************************************)
EXTENDS Dfu

MCByte == {"zero", "ff", "a", "b"}

OldImage == [sha |-> 1, bytes |-> <<"b", "b">>]
NewImage == [sha |-> 2, bytes |-> <<"a", "b", "a">>]
MCImages == {OldImage, NewImage}
MCErasedSlot == [i \in 1..SlotSize |-> "ff"]
\* A slot with an image to host after its header of one byte.
MCHostedSlot == <<"zero", "a", "b", "a">>

TheHost == 7
TheClient == 9
Stranger == 8

Info(bytes, chunk, sha, force) ==
  [size |-> Len(bytes), chunk |-> chunk, crc |-> bytes, sha |-> sha, force |-> force]
Msg(k, src) ==
  [kind |-> k, src |-> src, whole |-> TRUE, info |-> NoInfo, data |-> <<>>,
   ok |-> TRUE, err |-> NONE]
Short(m) == [m EXCEPT !.whole = FALSE]
Offer(src, info) == [Msg("ReceivedUpdateRequest", src) EXCEPT !.info = info]
Chunk(bytes) == [Msg("ImageChunk", TheHost) EXCEPT !.data = bytes]
Failed(m, e) == [m EXCEPT !.ok = FALSE, !.err = e]

NewOffer == Offer(TheHost, Info(NewImage.bytes, 2, 2, FALSE))
\* An offer of an image of one page, which its last chunk fills; the
\* bootloader would not boot it.
PageOffer == Offer(TheHost, Info(<<"a", "b">>, 2, 3, FALSE))

\* What an update needs.  Sent in any order and number, they also repeat,
\* lose and misplace chunks and restart transfers.
TransferMessages ==
  {NewOffer, PageOffer, Chunk(<<"a", "b">>), Chunk(<<"a">>),
   Msg("Reboot", TheHost), Msg("UpdateEnd", TheHost)}
\* The same, with a chunk of the right length and the wrong contents, and
\* the image offered also a byte at a time: as many chunks as wrap the count
\* to zero.
AllTransferMessages ==
  TransferMessages
  \cup {Offer(TheHost, Info(NewImage.bytes, 1, 2, FALSE)), Chunk(<<"b">>)}

\* Offers of every kind, and chunks of every kind.
OfferMessages ==
  {NewOffer,
   Offer(Stranger, Info(OldImage.bytes, 1, 1, FALSE)),
   Offer(TheHost, Info(OldImage.bytes, 0, 1, TRUE)),
   Offer(TheHost, Info(<<"a", "b", "a", "b">>, 1, 3, FALSE)),
   Offer(TheHost, Info(NewImage.bytes, 3, 2, FALSE)),
   Short(NewOffer),
   Chunk(<<"b">>), Chunk(<<>>), Short(Chunk(<<"a">>)),
   Msg("Heartbeat", TheHost)}

\* The answers a client gives a host.
HostMessages ==
  {Msg("AckReceived", TheClient), Failed(Msg("AckReceived", TheClient), SAME_VER),
   Msg("ChunkRequest", TheClient), Msg("RebootRequest", TheClient),
   Msg("BootComplete", TheClient), Msg("UpdateEnd", TheClient),
   Failed(Msg("Abort", TheClient), FLASH_ACCESS)}
HostRequests ==
  {[dst |-> TheClient, info |-> Info(<<"a", "b", "a">>, 2, 2, FALSE),
    notify |-> n, internal |-> i] : n, i \in BOOLEAN}
\* The same, and one whose chunks are too large.
ByHandRequests ==
  {r \in HostRequests : r.notify = r.internal}
  \cup {[r EXCEPT !.info.chunk = 3] : r \in HostRequests}
HostFeeds == {<<"a">>, <<"a", "b">>}

\* The same to a node driven by hand, with bodies too short to read.
ByHandMessages ==
  OfferMessages
  \cup {Short(Msg("AckReceived", TheClient)), Msg("AckReceived", TheClient),
        Short(Msg("UpdateEnd", TheClient)), Short(Failed(Msg("Abort", TheClient), NONE)),
        Chunk(<<"a", "b">>)}
=============================================================================
