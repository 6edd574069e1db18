--------------------------- MODULE ExchangeOrders ---------------------------
(***************************************************************************)
(* What the pay exchanges say about an order and how the API reads it.     *)
(* An order lives at the exchange; the API only sees the status the        *)
(* exchange reports, which every exchange client converts to one of four   *)
(* BuyTransactionStatus values.  The conversion is not injective and, for  *)
(* Binance, not monotone: an order that was reported a success when the    *)
(* on-ramp leg completed is in progress again during the withdrawal and    *)
(* may still fail.                                                         *)
(***************************************************************************)

\* ExchangeType: the exchange ids from_id() recognises.
ExchangeIds == {"binance", "coinbase", "reown_test"}

\* ExchangeType::is_transaction_storage_enabled
StorageEnabled(x) == x \in {"binance", "coinbase"}

\* BuyTransactionStatus
BuyStatuses == {"success", "failed", "in_progress", "unknown"}

\* BinanceOrderStatus (the numeric code is already decoded to its name; a code
\* outside the table is Unknown).
BinanceOrderStatus ==
  {"Init", "OnRampProcessing", "OnRampCompleted", "OffRampProcessing",
   "WithdrawInit", "WithdrawProcessing", "Completed", "OffRampFailed",
   "WithdrawAbandoned", "OnRampFailed", "WithdrawFailed", "FailedReserved",
   "Unknown"}

\* The status of a Coinbase transaction together with whether its hash is
\* known; NoTransaction is an answer whose transaction list is empty.
CoinbaseOrderStatus ==
  {"NoTransaction", "Created", "InProgress", "SuccessNoHash", "Success", "Failed"}

\* BinanceExchange::get_buy_status
BinanceBuyStatus(o) ==
  CASE o \in {"OnRampCompleted", "Completed"} -> "success"
    [] o \in {"Init", "OnRampProcessing", "OffRampProcessing",
              "WithdrawInit", "WithdrawProcessing"} -> "in_progress"
    [] o \in {"OffRampFailed", "WithdrawAbandoned", "OnRampFailed",
              "WithdrawFailed", "FailedReserved"} -> "failed"
    [] OTHER -> "unknown"

\* CoinbaseExchange::get_buy_status: a success whose hash is not known yet is
\* still in progress.
CoinbaseBuyStatus(o) ==
  CASE o = "Success" -> "success"
    [] o \in {"SuccessNoHash", "InProgress", "Created"} -> "in_progress"
    [] o = "Failed" -> "failed"
    [] OTHER -> "unknown"

\* ExchangeType::get_buy_status for the exchanges whose orders are stored.
BuyStatus(x, o) ==
  IF x = "binance" THEN BinanceBuyStatus(o) ELSE CoinbaseBuyStatus(o)

OrderStatuses == BinanceOrderStatus \cup CoinbaseOrderStatus
=============================================================================
