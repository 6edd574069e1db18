-------------------------- MODULE MCExchangeLedger --------------------------
(***************************************************************************)
(* Instances of ExchangeLedger for TLC.                                    *)
(***************************************************************************)
EXTENDS ExchangeLedger, TLC

CONSTANTS w1, w2, c1, s1, s2, s3

\* One Binance order, from its URL on, two reconcilers and a client.
OneBinance == s1 :> "binance"
OneProject == s1 :> TRUE

\* Three stored rows, one from before rows had a project and one of an exchange
\* that is gone, and a batch of one.
LiveExchanges == s1 :> "binance" @@ s2 :> "coinbase" @@ s3 :> "retired"
LiveProjects == s1 :> TRUE @@ s2 :> FALSE @@ s3 :> TRUE

\* How Binance's orders progress: to the end of the on-ramp, where all is decided.
OnRampSteps == {<<"Init", "OnRampCompleted">>, <<"Init", "OnRampFailed">>}

\* Reconcilers are interchangeable, and so are the requests.
Symmetry == Permutations(Workers) \cup Permutations(Clients)
=============================================================================
