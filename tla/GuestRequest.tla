---------------------------- MODULE GuestRequest ----------------------------
(***************************************************************************)
(* Attestation reports for the guest: the attest protocol                  *)
(* (kernel/src/protocols/attest.rs), the services and the driver that send *)
(* SNP_GUEST_REQUEST messages to the PSP (greq/), with the hypervisor in   *)
(* between.  GREQ_DRIVER's lock is held for a whole request, so requests   *)
(* are taken one at a time.                                                *)
(*                                                                         *)
(* A message is what was encrypted: its sequence number, which is the      *)
(* initialization vector, and its payload; only the holder of the key can  *)
(* make one.  The hypervisor forwards a request to the PSP or not, answers *)
(* what it likes, and may put back any earlier response.                   *)
(***************************************************************************)
EXTENDS Integers, FiniteSets

CONSTANTS
    Payloads,       \* hashes of nonce and manifest
    HostAnswers,    \* answers of the hypervisor, among Answers
    SeqnoLimit,     \* end of the range of vmpck0_seqno (2^64)
    MaxCalls        \* calls of the guest

VARIABLES
    vmpck0,         \* the key is not cleared
    vmpck0_seqno,
    request, response,      \* the shared pages
    psp,            \* last sequence number the PSP used
    responses,      \* messages the PSP has made
    used,           \* messages encrypted so far, a history variable
    call, calls,    \* the call being served
    guest,          \* what the guest got from the last call
    pc

vars == <<vmpck0, vmpck0_seqno, request, response, psp, responses, used, call, calls, guest, pc>>

Answers == {"ok", "invalid_len", "busy", "other", "malformed"}
Msg(seqno, payload) == [seqno |-> seqno, payload |-> payload]
NoMessage == Msg(0, 0)
Nothing == [status |-> "none", report |-> 0, certs |-> FALSE]

Init ==
    /\ vmpck0 = TRUE /\ vmpck0_seqno = 0
    /\ request = NoMessage /\ response = NoMessage
    /\ psp = 0 /\ responses = {} /\ used = {}
    /\ call = [payload |-> 0, extended |-> FALSE] /\ calls = 0 /\ guest = Nothing
    /\ pc = "idle"

\* The code the guest gets; a GHCB error is fatal, SvsmReqError::from().
Fail(status) == guest' = [Nothing EXCEPT !.status = status] /\ pc' = "idle"
FatalError == pc' = "panicked" /\ UNCHANGED guest
VmgexitError == IF call.extended THEN Fail("certificate size") ELSE FatalError

is_vmpck_clear == ~vmpck0
clear_vmpck == vmpck0' = FALSE

\* attest_multiple_services(), attest_single_service(): nonce and sizes
Attest(p, ext) ==
    /\ pc = "idle" /\ calls < MaxCalls /\ calls' = calls + 1
    /\ call' = [payload |-> p, extended |-> ext]
    /\ \/ pc' = "request" /\ guest' = Nothing
       \/ Fail("invalid parameter")
    /\ UNCHANGED <<vmpck0, vmpck0_seqno, request, response, psp, responses, used>>

encrypt_request(seqno) ==
    /\ request' = Msg(seqno, call.payload)
    /\ used' = used \union {request'}

\* send_request() up to the encrypted message in the shared page
SendRequest ==
    /\ pc = "request"
    /\ \/ is_vmpck_clear /\ Fail("invalid request") /\ UNCHANGED <<vmpck0, request, used>>
       \/ /\ ~is_vmpck_clear /\ vmpck0_seqno + 1 = SeqnoLimit
          /\ clear_vmpck /\ Fail("invalid request") /\ UNCHANGED <<request, used>>
       \/ /\ ~is_vmpck_clear /\ vmpck0_seqno + 1 < SeqnoLimit
          /\ encrypt_request(vmpck0_seqno + 1)
          /\ pc' = "send" /\ UNCHANGED <<vmpck0, guest>>
    /\ UNCHANGED <<vmpck0_seqno, response, psp, responses, call, calls>>

\* The PSP takes messages in order and answers each with the next number.
Forward ==
    /\ request.seqno = psp + 1
    /\ psp' = psp + 2
    /\ response' = Msg(psp + 2, request.payload)
    /\ responses' = responses \union {response'}

seqno_add_two == vmpck0_seqno' = (vmpck0_seqno + 2) % SeqnoLimit

\* The number is advanced only when the hypervisor reports success.
send(answer) ==
    /\ Forward \/ UNCHANGED <<psp, response, responses>>
    /\ IF answer = "ok" THEN seqno_add_two ELSE UNCHANGED vmpck0_seqno
    /\ UNCHANGED <<request, used, call, calls>>

\* Only a VmgexitError is handled; an answer that is malformed is not one.
SendMessage ==
    \E answer \in HostAnswers :
        /\ pc = "send"
        /\ send(answer)
        /\ \/ answer \in {"ok", "malformed"} /\ pc' = "decrypt" /\ UNCHANGED <<vmpck0, guest>>
           \/ answer = "busy" /\ pc' = "resend" /\ UNCHANGED <<vmpck0, guest>>
           \/ /\ answer = "invalid_len" /\ call.extended
              /\ pc' = "resend regular" /\ UNCHANGED <<vmpck0, guest>>
           \/ answer = "invalid_len" /\ ~call.extended /\ clear_vmpck /\ Fail("invalid request")
           \/ answer = "other" /\ clear_vmpck /\ VmgexitError

\* The key is kept when the certificates did not fit and sending again fails.
ResendRegularKeepsKey ==
    \E answer \in HostAnswers :
        /\ pc = "resend regular"
        /\ send(answer)
        /\ UNCHANGED vmpck0
        /\ IF answer = "malformed" THEN FatalError ELSE VmgexitError

\* The caller gets the first error even when the message got through.
ResendRegular ==
    \E answer \in HostAnswers :
        /\ pc = "resend regular"
        /\ send(answer)
        /\ IF answer = "ok" THEN UNCHANGED vmpck0 ELSE clear_vmpck
        /\ IF answer = "malformed" THEN FatalError ELSE VmgexitError

Resend ==
    \E answer \in HostAnswers :
        /\ pc = "resend"
        /\ send(answer)
        /\ \/ answer = "ok" /\ pc' = "decrypt" /\ UNCHANGED <<vmpck0, guest>>
           \/ answer = "malformed" /\ clear_vmpck /\ FatalError
           \/ answer \notin {"ok", "malformed"} /\ clear_vmpck /\ VmgexitError


\* The message is authentic and carries the number that is expected.
decrypt_get(msg) == msg \in responses /\ msg.seqno = vmpck0_seqno

\* decrypt_response(), then the response's status
DecryptResponse ==
    /\ pc = "decrypt"
    /\ \/ decrypt_get(response) /\ pc' = "write" /\ UNCHANGED <<vmpck0, guest>>
       \/ decrypt_get(response) /\ Fail("invalid request") /\ UNCHANGED vmpck0
       \/ ~decrypt_get(response) /\ clear_vmpck /\ Fail("invalid format")
    /\ UNCHANGED <<vmpck0_seqno, request, response, psp, responses, used, call, calls>>

\* What write_report_and_manifest() leaves: buffers of the guest that are not
\* valid or too small are found before or after the report is copied.
write_report_and_manifest ==
    {[status |-> "failed", report |-> r, certs |-> FALSE] : r \in {0, response.payload}}

\* write_certs(): there may be none, or not enough space for them
write_certs ==
    [status : {"success"}, report : {response.payload}, certs : BOOLEAN]
        \union [status : {"certificate size"}, report : {response.payload}, certs : {FALSE}]

WriteReport ==
    /\ pc = "write" /\ pc' = "idle"
    /\ guest' \in write_report_and_manifest
                  \union {c \in write_certs : ~call.extended => c.status = "success" /\ ~c.certs}
    /\ UNCHANGED <<vmpck0, vmpck0_seqno, request, response, psp, responses, used, call, calls>>

\* The hypervisor writes to the shared page, which is copied once.
HostReplay ==
    /\ pc \in {"send", "resend", "resend regular", "decrypt"}
    /\ response' \in responses \ {response}
    /\ UNCHANGED <<vmpck0, vmpck0_seqno, request, psp, responses, used, call, calls, guest, pc>>

Next ==
    \/ \E p \in Payloads, ext \in BOOLEAN : Attest(p, ext)
    \/ SendRequest \/ SendMessage \/ Resend \/ ResendRegular \/ DecryptResponse \/ WriteReport
    \/ HostReplay

Spec == Init /\ [][Next]_vars

-----------------------------------------------------------------------------

\* A report that reaches the guest was made for the nonce and manifest of the
\* call, and a call succeeds only with one, whatever response the hypervisor
\* puts back (decrypt_get()).
ReportIsOwn ==
    /\ guest.report # 0 => guest.report = call.payload
    /\ guest.status = "success" => guest.report # 0
=============================================================================
