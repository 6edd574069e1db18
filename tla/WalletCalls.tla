----------------------------- MODULE WalletCalls ----------------------------
(***************************************************************************)
(* The wallet methods (src/handlers/json_rpc/wallet/) over the sessions    *)
(* they use: wallet_prepareCalls builds user operations for a permission's *)
(* context, wallet_sendPreparedCalls has each operation of a batch         *)
(* co-signed, reads the context again, puts the signature into the form    *)
(* its validator wants and sends the operation to the bundler,             *)
(* wallet_getCallsStatus asks the bundler for its receipt.  Operations of  *)
(* a batch go out one after another.  The permission may be activated      *)
(* anew, revoked or expire between any two of these steps, and the session *)
(* become enabled on chain.                                                *)
(***************************************************************************)
EXTENDS Sessions

CONSTANTS
  Caller,    \* wallet requests under way
  Bundle,    \* wallet_sendPreparedCalls requests: sequences of [pci, batch, nonce, client]
  Signers,   \* signer lists of sessions: sequences of "ecdsa" and "passkey"
  MaxOps,    \* bound: operations the bundler takes
  MaxNonce   \* bound: operations the chain executes

ASSUME BundleAssumption ==
  /\ Bundle \subseteq Seq([pci : Pci, batch : Batch, nonce : Nat, client : {"ecdsa", "passkey"}])
  /\ MaxOps \in Nat /\ MaxNonce \in Nat /\ NULL \notin {"sent", "confirmed"}

VARIABLES
  call,     \* [Caller -> record]: wallet handlers
  sent,     \* the operations the bundler has taken, in order
  enabled,  \* the permissions whose session is enabled on chain
  nonce     \* the next nonce of the account at the entry point

wallet == <<call, sent, enabled, nonce>>
allVars == <<vars, wallet>>

\* step: the item of the bundle being worked on; op: the operation being
\* prepared (limits: they are estimated, for: the paymaster's data was made for
\* them); ids: the operations sent so far, indices of sent.
IdleCall == [pc |-> "idle", bundle |-> <<>>, step |-> 1, sig |-> NULL, context |-> NULL,
             op |-> NULL, ids |-> <<>>, reply |-> NULL]

WalletInit ==
  /\ Init
  /\ call = [w \in Caller |-> IdleCall]
  /\ sent = <<>>
  /\ enabled = {}
  /\ nonce = 0

-----------------------------------------------------------------------------
(* Contexts and signatures. *)

\* decode_smart_session_signature: the mode of a context.
ModeOf(c) == CASE c \in {"enable", "enable_ownable"} -> "enable"
               [] c = "unsafe" -> "unsafe"
               [] c = "use" -> "use"

\* sessionValidator of the session to enable.
ValidatorOf(c) == IF c = "enable_ownable" THEN "ownable" ELSE "multikey"

\* get_session_context and split_permissions_context_and_check_validator: what
\* is wrong with the context of a permission, if anything.
ContextError(p) ==
  IF item[p] = NULL THEN "not_found"
  ELSE LET c == item[p].value.context
       IN  IF c = NULL THEN "not_activated"
           ELSE IF c \notin SmartContext THEN "bad_validator"
           ELSE IF c = "garbled" THEN "bad_context"
           ELSE "none"

\* The co-signature as bytes: the parts, and whether they are one ABI array.
CosignBytes(sig, client) ==
  IF sig.format[1] = "client" THEN [abi |-> FALSE, parts |-> <<client, "ecdsa">>]
                              ELSE [abi |-> TRUE, parts |-> <<"ecdsa", client>>]

ConvertNever(bytes, validator) == bytes

\* decode_and_convert_signature_format: an ownable validator takes the parts
\* put together, a multikey one an array.  Parts put together can only be told
\* apart if each has the length of an ECDSA signature.
ConvertFormat(bytes, validator) ==
  IF validator = "ownable" THEN [bytes EXCEPT !.abi = FALSE]
  ELSE IF bytes.abi \/ \A k \in DOMAIN bytes.parts : bytes.parts[k] = "ecdsa"
       THEN [bytes EXCEPT !.abi = TRUE]
       ELSE bytes

SessionModeNoncesOnly(p) == IF nonce > 0 THEN "use" ELSE "enable"

\* encode_use_or_enable_smart_session_signature: isPermissionEnabled decides
\* the mode of the signature.
SessionMode(p) == IF p \in enabled THEN "use" ELSE "enable"

\* get_dummy_signature: one dummy per signer, in the form of the validator.
\* The signers of an ownable validator are all owners with an address.
DummySignature(signers, validator, mode) ==
  LET parts == IF validator = "ownable" THEN [k \in DOMAIN signers |-> "ecdsa"] ELSE signers
  IN  [mode |-> mode, bytes |-> ConvertFormat([abi |-> validator # "ownable", parts |-> parts], validator)]

-----------------------------------------------------------------------------
(* wallet_prepareCalls. *)

AnswerCall(w, r) ==
  call' = [call EXCEPT ![w].pc = "done", ![w].sig = NULL, ![w].context = NULL, ![w].op = NULL, ![w].reply = r]

\* The dummy signature that gas is estimated with is only there for a context
\* of mode enable, other modes trip an assertion, and is refused when the
\* signers of the session cannot be decoded.
Prepare(w, p) ==
  /\ call[w].pc = "idle"
  /\ LET answered(r) == call' = [call EXCEPT ![w] = [IdleCall EXCEPT !.pc = "done", !.reply = r]]
         e == ContextError(p)
     IN  \/ answered("error")
         \/ e # "none" /\ answered(e)
         \/ e = "none" /\ ModeOf(item[p].value.context) # "enable" /\ answered("panic")
         \/ /\ e = "none" /\ ModeOf(item[p].value.context) = "enable"
            /\ \E signers \in Signers, sponsor \in {"none", "stub"} :
                 call' = [call EXCEPT ![w] =
                   [IdleCall EXCEPT !.pc = "nonce", !.context = item[p].value.context, !.op =
                      [sig |-> DummySignature(signers, ValidatorOf(item[p].value.context), SessionMode(p)),
                       nonce |-> NULL, limits |-> FALSE, sponsor |-> sponsor, final |-> FALSE, for |-> FALSE]]]
  /\ UNCHANGED <<vars, sent, enabled, nonce>>

\* The nonce is asked for, then the gas price.
PrepareNonce(w) ==
  /\ call[w].pc = "nonce"
  /\ call' = [call EXCEPT ![w].op.nonce = nonce,
                ![w].pc = IF call[w].op.sponsor = "none" THEN "limits" ELSE "stub"]
  /\ UNCHANGED <<vars, sent, enabled, nonce>>

\* pm_getPaymasterStubData: the paymaster may declare its data final.
PaymasterStub(w) ==
  /\ call[w].pc = "stub"
  /\ \E final \in BOOLEAN : call' = [call EXCEPT ![w].op.final = final, ![w].pc = "limits"]
  /\ UNCHANGED <<vars, sent, enabled, nonce>>

\* Whether pm_getPaymasterData is asked again once the limits are known.
AsksAgain(op) == op.sponsor # "none" /\ ~op.final

\* eth_estimateUserOperationGas, with the dummy signature.
EstimateLimits(w) ==
  /\ call[w].pc = "limits"
  /\ IF AsksAgain(call[w].op)
     THEN call' = [call EXCEPT ![w].op.limits = TRUE, ![w].pc = "data"]
     ELSE call' = [call EXCEPT ![w].op.limits = TRUE, ![w].pc = "done", ![w].reply = "prepared"]
  /\ UNCHANGED <<vars, sent, enabled, nonce>>

\* pm_getPaymasterData, which sees the limits.
PaymasterData(w) ==
  /\ call[w].pc = "data"
  /\ call' = [call EXCEPT ![w].op.for = call[w].op.limits, ![w].pc = "done", ![w].reply = "prepared"]
  /\ UNCHANGED <<vars, sent, enabled, nonce>>

-----------------------------------------------------------------------------
(* wallet_sendPreparedCalls. *)

StartSend(w) ==
  /\ call[w].pc = "idle" /\ Len(sent) < MaxOps
  /\ \E b \in Bundle : call' = [call EXCEPT ![w] = [IdleCall EXCEPT !.pc = "cosign", !.bundle = b]]
  /\ UNCHANGED <<vars, sent, enabled, nonce>>

Current(w) == call[w].bundle[call[w].step]

CosignStored(w) ==
  /\ call[w].pc = "cosign" /\ call[w].step <= Len(call[w].bundle)
  /\ LET p == Current(w).pci
     IN  \/ item[p] = NULL /\ AnswerCall(w, "not_found")
         \/ item[p] # NULL /\ call' = [call EXCEPT ![w].pc = "context", ![w].sig = Signature(item[p].value)]
  /\ UNCHANGED <<vars, sent, enabled, nonce>>

\* cosign::handler, called in place; its refusal ends the request.
CosignItem(w) ==
  /\ call[w].pc = "cosign" /\ call[w].step <= Len(call[w].bundle)
  /\ LET p == Current(w).pci
     IN  \/ item[p] = NULL /\ AnswerCall(w, "not_found")
         \/ /\ item[p] # NULL
            /\ LET v == item[p].value
                   verdict == Verdict(v, Current(w).batch)
               IN  IF verdict = "signed"
                   THEN call' = [call EXCEPT ![w].pc = "context", ![w].sig = Signature(v)]
                   ELSE AnswerCall(w, verdict)
  /\ UNCHANGED <<vars, sent, enabled, nonce>>

\* The context is read again.  Mode use is refused, unlike in prepare.
ReadContext(w) ==
  /\ call[w].pc = "context"
  /\ LET p == Current(w).pci
         e == ContextError(p)
     IN  \/ e # "none" /\ AnswerCall(w, e)
         \/ e = "none" /\ ModeOf(item[p].value.context) = "use" /\ AnswerCall(w, "unsupported_mode")
         \/ e = "none" /\ ModeOf(item[p].value.context) # "use"
            /\ call' = [call EXCEPT ![w].pc = "encode", ![w].context = item[p].value.context]
  /\ UNCHANGED <<vars, sent, enabled, nonce>>

EncodeItem(w) ==
  /\ call[w].pc = "encode"
  /\ call' = [call EXCEPT ![w].pc = "send", ![w].sig =
       [key |-> call[w].sig.key, at |-> call[w].sig.at, mode |-> SessionMode(Current(w).pci),
        bytes |-> ConvertFormat(CosignBytes(call[w].sig, Current(w).client), ValidatorOf(call[w].context))]]
  /\ UNCHANGED <<vars, sent, enabled, nonce>>

Operation(w) ==
  [pci |-> Current(w).pci, batch |-> Current(w).batch, nonce |-> Current(w).nonce,
   client |-> Current(w).client, context |-> call[w].context, sig |-> call[w].sig, status |-> "none"]

\* eth_sendUserOperation; the next item is taken up once the bundler has
\* answered, and the answer may be lost.
SendItem(w) ==
  /\ call[w].pc = "send" /\ Len(sent) < MaxOps
  /\ sent' = Append(sent, Operation(w))
  /\ \/ AnswerCall(w, "error")
     \/ call' = [call EXCEPT ![w].pc = "cosign", ![w].step = @ + 1, ![w].sig = NULL, ![w].context = NULL,
                   ![w].ids = Append(@, Len(sent) + 1)]
  /\ UNCHANGED <<vars, enabled, nonce>>

FinishSendEarly(w) ==
  /\ call[w].pc = "cosign" /\ call[w].step > 1
  /\ AnswerCall(w, "sent")
  /\ UNCHANGED <<vars, sent, enabled, nonce>>

\* Every item is sent: the identifiers go to the client.
FinishSend(w) ==
  /\ call[w].pc = "cosign" /\ call[w].step > Len(call[w].bundle)
  /\ AnswerCall(w, "sent")
  /\ UNCHANGED <<vars, sent, enabled, nonce>>

\* IRN, the node, the paymaster or the bundler fails, or the project is refused.
FailCall(w) ==
  /\ call[w].pc \in {"nonce", "stub", "limits", "data", "cosign", "context", "encode", "send"}
  /\ AnswerCall(w, "error")
  /\ UNCHANGED <<vars, sent, enabled, nonce>>

-----------------------------------------------------------------------------
(* wallet_getCallsStatus, and the chain. *)

StatusOfReceipt(o) == IF o.status # "none" THEN "confirmed" ELSE "pending"

\* A receipt that says the operation failed is reported pending, like none.
StatusOf(o) == IF o.status = "success" THEN "confirmed" ELSE "pending"

GetCallsStatus(w, k) ==
  /\ call[w].pc = "idle" /\ k \in DOMAIN sent
  /\ \E r \in {StatusOf(sent[k]), "error"} :
       call' = [call EXCEPT ![w] = [IdleCall EXCEPT !.pc = "done", !.ids = <<k>>, !.reply = r]]
  /\ UNCHANGED <<vars, sent, enabled, nonce>>

\* The entry point executes an operation with the account's next nonce; one of
\* mode enable enables its session.
Execute(k) ==
  /\ k \in DOMAIN sent /\ sent[k].status = "none" /\ sent[k].nonce = nonce /\ nonce < MaxNonce
  /\ \E s \in {"success", "reverted"} :
       /\ sent' = [sent EXCEPT ![k].status = s]
       /\ enabled' = IF s = "success" /\ sent[k].sig.mode = "enable" THEN enabled \cup {sent[k].pci} ELSE enabled
  /\ nonce' = nonce + 1
  /\ UNCHANGED <<vars, call>>

EndCall(w) ==
  /\ call[w].pc = "done"
  /\ call' = [call EXCEPT ![w] = IdleCall]
  /\ UNCHANGED <<vars, sent, enabled, nonce>>

WalletStep(w) ==
  \/ \E p \in Pci : Prepare(w, p)
  \/ PrepareNonce(w) \/ PaymasterStub(w) \/ EstimateLimits(w) \/ PaymasterData(w)
  \/ StartSend(w) \/ CosignItem(w) \/ ReadContext(w) \/ EncodeItem(w)
  \/ SendItem(w) \/ FinishSend(w) \/ FailCall(w) \/ EndCall(w)
  \/ \E k \in 1..MaxOps : GetCallsStatus(w, k)

WalletNext ==
  \/ Next /\ UNCHANGED wallet
  \/ \E w \in Caller : WalletStep(w)
  \/ \E k \in 1..MaxOps : Execute(k)

WalletSpec == WalletInit /\ [][WalletNext]_allVars

-----------------------------------------------------------------------------
(* Properties. *)

\* Every co-signature a session handler gives out, and every operation that
\* reaches the bundler with one, whatever happened to the permission while it
\* was on its way, stays within what its permission was created with.
SentWithinGrant ==
  /\ SignedWithinGrant
  /\ \A k \in DOMAIN sent : WithinGrant(granted[sent[k].pci], sent[k].batch, sent[k].sig)

\* The signature of an operation is in the form the validator of its session
\* takes: together for an ownable one, an array for a multikey one.  Only a
\* passkey signature that was put together for an ownable validator, the
\* context being replaced while the operation was on its way, is not.
SignatureFitsValidator ==
  \A k \in DOMAIN sent :
    LET o == sent[k]
    IN  (ValidatorOf(o.context) = "multikey") # o.sig.bytes.abi =>
          o.client = "passkey" /\ o.sig.bytes.parts[1] = "passkey"

\* An operation that uses a session was made after the session was enabled.
UsesEnabledSession == \A k \in DOMAIN sent : sent[k].sig.mode = "use" => sent[k].pci \in enabled

\* What is sent can be validated on chain: by the validator of its session, which
\* is enabled by the operation itself or by an earlier one.
SentIsValid == SignatureFitsValidator /\ UsesEnabledSession

\* A bundle is answered with one operation per item, in their order; one that
\* fails half-way has sent a prefix of its items, which the answer does not
\* name.
AnswerNamesOperations ==
  \A w \in Caller : call[w].bundle # <<>> =>
    /\ \A k \in DOMAIN call[w].ids :
         LET o == sent[call[w].ids[k]]
             i == call[w].bundle[k]
         IN  o.pci = i.pci /\ o.batch = i.batch /\ o.nonce = i.nonce
    /\ call[w].reply = "sent" => Len(call[w].ids) = Len(call[w].bundle)

\* An operation the client was told is confirmed has been executed, and was
\* the only one with its nonce.
ConfirmedIsExecuted ==
  \A w \in Caller : call[w].reply = "confirmed" =>
    LET k == call[w].ids[1]
    IN  /\ sent[k].status = "success"
        /\ \A j \in DOMAIN sent \ {k} : sent[j].nonce = sent[k].nonce => sent[j].status = "none"

=============================================================================
