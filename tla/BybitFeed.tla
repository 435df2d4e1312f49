----------------------------- MODULE BybitFeed -----------------------------
(***************************************************************************)
(* The L2 books behind the decoder: a frame is decoded and, unless decode  *)
(* throws or the frame is a control message, applied to the books.  The    *)
(* ladder is what the decimal texts of the frame mean.  A frame that       *)
(* decode throws on ends the session of the program that received it; here *)
(* it changes nothing, and others may follow.  Calls of the books with     *)
(* levels of other origin (tests, benchmarks) remain possible.             *)
(***************************************************************************)
EXTENDS BybitL2Parity

CONSTANTS MaxWord, FractionDigits, NonDigit,
          Frames  \* the frames that may arrive

Decoder == INSTANCE BybitV5Decoder

ASSUME FeedAssumption == FractionDigits \in Nat /\ 10 ^ FractionDigits <= MaxWord

(* Bound: no whole part exceeds a word by itself.                          *)
WholePartsFit(frame) ==
    \A row \in ToSet(frame.b \o frame.a) : \A i \in DOMAIN row :
        Decoder!IsNumber(row[i]) => Decoder!Meaning(row[i]) \div Decoder!Scale <= MaxWord

Arriving == {frame \in Frames : WholePartsFit(frame)}

(* What decode makes of a frame, and what the texts of a frame that states *)
(* levels mean.                                                            *)
Decoded == [frame \in Arriving |-> Decoder!decode(frame)]

Meant == [frame \in {f \in Arriving : Decoder!States(f)} |->
            LET Rows(side, rows) == [i \in DOMAIN rows |->
                                       [side |-> side, price |-> Decoder!Meaning(rows[i][1]),
                                        quantity |-> Decoder!Meaning(rows[i][2])]]
            IN  [bids |-> Rows("Bid", frame.b), asks |-> Rows("Ask", frame.a)]]

(* The rows of one side of a message without the side.                     *)
LevelsOf(rows) == [i \in DOMAIN rows |-> [price |-> rows[i].price, quantity |-> rows[i].quantity]]

BothSides(bids, asks) == [side \in Sides |-> IF side = "Bid" THEN bids ELSE asks]

(* apply.                                                                  *)
apply(message) ==
    IF message.kind = "snapshot"
    THEN LET levels == BothSides(LevelsOf(message.bids), LevelsOf(message.asks))
         IN  /\ book' = Snapshot(message.update_id, levels)
             /\ other' = OtherSnapshot(message.update_id, levels)
    ELSE LET changes == message.bids \o message.asks
         IN  /\ book' = Delta(message.update_id, changes)
             /\ other' = OtherDelta(message.update_id, changes)

(* The ladder after a frame, by the meaning of its texts.                  *)
Understood(frame) ==
    IF frame \notin DOMAIN Meant THEN ladder
    ELSE LET bids == Meant[frame].bids
             asks == Meant[frame].asks
         IN  IF frame.type = "snapshot"
             THEN SnapshotLadder(frame.u, BothSides(LevelsOf(bids), LevelsOf(asks)))
             ELSE DeltaLadder(frame.u, bids \o asks)

(* Control messages leave the books alone; so do frames that decode throws *)
(* on, or that consume refuses for their topic.                            *)
consume(frame) ==
    LET message == Decoded[frame]
    IN  /\ IF message = None \/ message = Decoder!Control
           THEN UNCHANGED <<book, other>>
           ELSE apply(message)
        /\ ladder' = Understood(frame)

FeedNext == \/ ParityNext
            \/ \E frame \in Arriving : consume(frame)

FeedSpec == ParityInit /\ [][FeedNext]_parityVars
=============================================================================
