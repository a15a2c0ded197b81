----------------------------- MODULE FileTransfer -----------------------------
(***************************************************************************)
(* What a send session promises its caller and the receiving device, with no *)
(* word of channels, windows, queues or tasks: SenderSession implements it.  *)
(***************************************************************************)

CONSTANT Pieces   \* of the file

VARIABLES
  got,        \* pieces the receiver has vouched for to this session
  stage,      \* "open", "offered" (it is told that all is sent) or "closed"
  agreed,     \* the receiver has confirmed the whole file
  wish,       \* what the user wants of the transfer
  verdict     \* what the session returns, "none" before it does

transferVars == <<got, stage, agreed, wish, verdict>>

TransferInit ==
  /\ got = {} /\ stage = "open" /\ agreed = FALSE
  /\ wish = "InProgress" /\ verdict = "none"

\* The receiver says of some pieces that it has them, perhaps late; it does not
\* take its word back.
Vouch ==
  /\ \E S \in SUBSET Pieces : got' = got \cup S
  /\ UNCHANGED <<stage, agreed, wish, verdict>>

\* The receiver is told that all is sent only when it vouches for every piece.
Offer ==
  /\ stage = "open" /\ got = Pieces
  /\ stage' = "offered"
  /\ UNCHANGED <<got, agreed, wish, verdict>>

\* Once, and only after it was told so; the session may have given up waiting
\* for the answer by then.
Confirm ==
  /\ stage = "offered" \/ verdict = "Unexpected"
  /\ got = Pieces /\ ~agreed /\ agreed' = TRUE
  /\ UNCHANGED <<got, stage, wish, verdict>>

Close(v) == stage' = "closed" /\ verdict' = v

Succeed ==
  /\ stage = "offered" /\ agreed
  /\ Close("Ok")
  /\ UNCHANGED <<got, agreed, wish>>

\* A session is paused or cancelled only at the user's wish, and before the offer.
GiveUpOpen ==
  /\ stage = "open"
  /\ \E v \in {"Rejected", "Disconnected", "IoError"} \cup ({wish} \ {"InProgress"}) :
       Close(v)
  /\ UNCHANGED <<got, agreed, wish>>

GiveUpOffered ==
  /\ stage = "offered"
  /\ \E v \in {"Disconnected", "Unexpected"} : Close(v)
  /\ UNCHANGED <<got, agreed, wish>>

Ask ==
  /\ stage # "closed"
  /\ \E w \in {"InProgress", "Paused", "Cancelled"} : wish' = w
  /\ UNCHANGED <<got, stage, agreed, verdict>>

TransferNext ==
  Vouch \/ Offer \/ Confirm \/ Succeed \/ GiveUpOpen \/ GiveUpOffered \/ Ask

TransferSpec == TransferInit /\ [][TransferNext]_transferVars
==============================================================================
