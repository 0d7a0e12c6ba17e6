---------------------------- MODULE WechatChannel ----------------------------
(***************************************************************************)
(* WechatPayClient (channels/WechatChannel.cc): the cache of platform      *)
(* certificates, the throttled download that fills it, and the             *)
(* verification of what the platform says, in notifications and in         *)
(* answers to requests. A handler looks a certificate up under one lock    *)
(* and verifies with its copy after releasing it: two steps.               *)
(***************************************************************************)
EXTENDS Integers

CONSTANTS
  Issued,       \* certificates WeChat issues over time
  Foreign,      \* certificates it never issued
  Serials,      \* serial numbers of certificates
  NoSerial,     \* no serial number
  SerialOf,     \* the serial number inside each certificate
  Printed,      \* the hexadecimal serial OpenSSL's text of each serial reads as
  NoCert,       \* no certificate: an empty string, an unparsable PEM
  StaticCert,   \* content of platform_cert_path, NoCert when not configured
  Anchored,     \* platform_ca_cert_path is configured (with WeChat's CA)
  SealTrusted,  \* nobody but WeChat holds the merchant's api_v3_key
  Configured,   \* configuration fields that are set
  Notices,      \* notifications WeChat repeats until they are taken
  Requests,     \* API requests
  Downloads,    \* bound: certificate downloads in flight at the same time
  Traffic,      \* messages that may arrive
  Listed        \* entries a certificate answer may hold

Certs == Issued \cup Foreign

(* A serial as a header or a body spells it, in hexadecimal: upper case without
   leading zeros, or lower case or padded. *)
Spelling == Serials \X {"plain", "padded"}
Missing == <<NoSerial, "missing">>
TooLong == <<NoSerial, "too_long">>

(* A signed message as it arrives. named: the Wechatpay-Serial header; signer:
   the certificate whose key made the signature; complete: timestamp, nonce
   and signature headers are there; body: what reading it gives, where
   "refusal" is an error envelope under a non-2xx status. *)
Message == [named: Spelling \cup {Missing, TooLong},
            signer: Certs \cup {NoCert},
            complete: BOOLEAN,
            body: {"good", "refusal", "malformed"}]

(* One element of a certificate answer. sealed: encrypted under api_v3_key. *)
Entry == [claims: Spelling \cup {Missing},
          cert: Certs \cup {NoCert},
          sealed: BOOLEAN]

ASSUME ChannelAssumption ==
  /\ Issued \cap Foreign = {}
  /\ NoCert \notin Certs
  /\ NoSerial \notin Serials
  /\ SerialOf \in [Certs -> Serials]
  /\ \A c, d \in Issued : SerialOf[c] = SerialOf[d] => c = d
  /\ Printed \in [Serials -> Serials \cup {NoSerial}]
  /\ StaticCert \in Issued \cup {NoCert}
  /\ Anchored \in BOOLEAN /\ SealTrusted \in BOOLEAN
  /\ Traffic \subseteq Message
  /\ Listed \subseteq Entry

(* i2s_ASN1_INTEGER prints a serial of 128 bits or more, as WeChat's are, with
   0x in front: "X..." once normalised, which spells no serial. One below ten
   is printed as it is spelled. Those in between come out in decimal, the
   digits of another serial, and are left out. *)
ASSUME PrintAssumption == \A s \in Serials : Printed[s] \in {s, NoSerial}

(* A downloaded certificate proves itself by the key it is sealed with or by
   the configured trust anchor. *)
ASSUME TrustAssumption == SealTrusted \/ Anchored

VARIABLES
  age,           \* validity window of each certificate, seen from now
  published,     \* certificates the certificate endpoint lists
  current,       \* the one WeChat signs with
  platformCerts, \* platformCerts_: the cache, by serial
  window,        \* lastCertDownloadAt_ seen from now: open or spent
  sentInWindow,  \* history: download requests issued since the window opened
  started,       \* onStart has run
  download,      \* downloads in flight
  notice,        \* notifications and their handlers
  request,       \* API requests and their answer handlers
  owned,         \* registry, services and timer still hold the client
  pins,          \* handlers that hold a shared_ptr to the client
  believed       \* history: messages whose content was handed on

worldVars == <<age, published, current>>
throttleVars == <<window, sentInWindow, download>>
vars == <<worldVars, platformCerts, throttleVars, started, notice, request,
          owned, pins, believed>>

Handlers == ({"download"} \X Downloads) \cup ({"notice"} \X Notices)
              \cup ({"request"} \X Requests)

NoMessage == [named |-> Missing, signer |-> NoCert, complete |-> FALSE,
              body |-> "malformed"]

(* A notification or request nothing is being verified for. *)
Idle(pc) == [pc |-> pc, cert |-> NoCert, msg |-> NoMessage]

TypeOK ==
  /\ age \in [Certs -> {"early", "valid", "expired"}]
  /\ published \subseteq Issued
  /\ current \in published
  /\ platformCerts \in [Serials -> Certs \cup {NoCert}]
  /\ window \in {"open", "spent"}
  /\ sentInWindow \in Nat
  /\ started \in BOOLEAN
  /\ download \in [Downloads -> [pc: {"idle", "sent", "install"}, left: SUBSET Entry]]
  /\ notice \in [Notices -> [pc: {"due", "verify", "taken"},
                             cert: Certs \cup {NoCert}, msg: Message]]
  /\ request \in [Requests -> [pc: {"idle", "sent", "verify", "ok", "refused", "dropped"},
                               cert: Certs \cup {NoCert}, msg: Message]]
  /\ owned \in BOOLEAN
  /\ pins \subseteq Handlers
  /\ believed \subseteq Message

(* The client just made; WeChat signs with a certificate that is valid. *)
Init ==
  /\ age \in [Certs -> {"early", "valid"}]
  /\ \E c \in Issued : age[c] = "valid" /\ current = c /\ published = {c}
  /\ platformCerts = [s \in Serials |-> NoCert]
  /\ window = "open"
  /\ sentInWindow = 0
  /\ started = FALSE
  /\ download = [d \in Downloads |-> [pc |-> "idle", left |-> {}]]
  /\ notice = [n \in Notices |-> Idle("due")]
  /\ request = [r \in Requests |-> Idle("idle")]
  /\ owned = TRUE
  /\ pins = {}
  /\ believed = {}

-----------------------------------------------------------------------------
(* The platform and time. *)

(* WeChat publishes a new certificate and signs with it from now on. *)
Rotate(c) ==
  /\ c \in Issued \ published
  /\ age[c] = "valid"
  /\ published' = published \cup {c}
  /\ current' = c
  /\ UNCHANGED <<age, platformCerts, throttleVars, started, notice, request,
                 owned, pins, believed>>

(* Time passes a certificate's notBefore or notAfter. WeChat replaces the one
   it signs with before that expires. *)
Ages(c) ==
  /\ \/ age[c] = "early" /\ age' = [age EXCEPT ![c] = "valid"]
     \/ age[c] = "valid" /\ c # current /\ age' = [age EXCEPT ![c] = "expired"]
  /\ UNCHANGED <<published, current, platformCerts, throttleVars, started,
                 notice, request, owned, pins, believed>>

(* Bound: while every slot is in use the window stays shut. *)
WindowOpens ==
  /\ window = "spent"
  /\ \E d \in Downloads : download[d].pc = "idle"
  /\ window' = "open"
  /\ sentInWindow' = 0
  /\ UNCHANGED <<worldVars, platformCerts, download, started, notice, request,
                 owned, pins, believed>>

(* A signature of an issued certificate was made after it was published. *)
Sent(m) == m.signer \in Issued => m.signer \in published

(* Nobody has an issued certificate before it is published, and what is sealed
   comes from WeChat if the key is WeChat's alone. *)
Delivered(e) ==
  /\ e.cert \in Issued => e.cert \in published
  /\ e.sealed /\ SealTrusted => e.cert \in Issued

-----------------------------------------------------------------------------
(* Certificates. *)

(* Upper case, no leading zeros. *)
normalizeSerialHex(s) == s[1]

(* The serial inside a certificate, as text, normalised like the others. *)
certificateSerialHex(c) == normalizeSerialHex(<<Printed[SerialOf[c]], "padded">>)

isWithinValidity(c) == age[c] = "valid"

(* Mutant: a certificate that was valid when it was cached is never looked at
   again. *)
verifyMessageWithCert_AnyAge(m, c) == c # NoCert /\ m.signer = c

verifyMessageWithCert(m, c) ==
  /\ c # NoCert
  /\ isWithinValidity(c)
  /\ m.signer = c

(* AES-256-GCM under api_v3_key. *)
decryptResource(e) == "api_v3_key" \in Configured /\ e.sealed

chainsToConfiguredAnchors(c) == Anchored => c \in Issued

(* Whether setPlatformCert files what an answer's element delivers. *)
Installable(e) ==
  /\ e.claims # Missing
  /\ decryptResource(e)
  /\ e.cert # NoCert
  /\ isWithinValidity(e.cert)
  /\ certificateSerialHex(e.cert) = normalizeSerialHex(e.claims)
  /\ chainsToConfiguredAnchors(e.cert)

(* Mutant: the certificate is filed under the serial the answer claims. *)
setPlatformCert_ByClaim(e) ==
  /\ e.claims # Missing /\ decryptResource(e) /\ e.cert # NoCert
  /\ isWithinValidity(e.cert) /\ chainsToConfiguredAnchors(e.cert)
  /\ platformCerts' = [platformCerts EXCEPT ![normalizeSerialHex(e.claims)] = e.cert]

(* The cache entry is keyed by the serial inside the certificate. *)
setPlatformCert(e) ==
  /\ Installable(e)
  /\ platformCerts' = [platformCerts EXCEPT ![certificateSerialHex(e.cert)] = e.cert]

getPlatformCert(s) == platformCerts[normalizeSerialHex(s)]

(* Requests are signed with the merchant's key; its file is read every time. *)
CanSign == {"mch_id", "serial_no", "private_key_path"} \subseteq Configured

-----------------------------------------------------------------------------
(* Downloads. *)

(* The request goes out and spends the window: checked and stamped under one
   lock. *)
SendDownload ==
  /\ CanSign
  /\ window = "open"
  /\ window' = "spent"
  /\ sentInWindow' = sentInWindow + 1
  /\ \E d \in Downloads :
       /\ download[d].pc = "idle"
       /\ download' = [download EXCEPT ![d].pc = "sent"]

(* Mutant: the window is stamped before the request is signed. *)
downloadCertificates_StampFirst ==
  \/ window = "open" /\ window' = "spent" /\ UNCHANGED <<sentInWindow, download>>
  \/ window = "spent" /\ UNCHANGED throttleVars
  \/ SendDownload

(* A request that cannot be signed, or comes too early, changes nothing. *)
downloadCertificates ==
  \/ UNCHANGED throttleVars
  \/ SendDownload

(* The warm-up, once, on the worker loop. *)
onStart ==
  /\ owned /\ ~started
  /\ started' = TRUE
  /\ downloadCertificates
  /\ UNCHANGED <<worldVars, platformCerts, notice, request, owned, pins, believed>>

(* The refresh timer's tick. *)
Refresh ==
  /\ owned
  /\ downloadCertificates
  /\ UNCHANGED <<worldVars, platformCerts, started, notice, request, owned, pins, believed>>

(* The client can still be locked: weak_from_this().lock(). *)
Alive == owned \/ pins # {}

(* No usable answer came, or the client is gone: the answer is dropped. *)
DownloadLost(d) ==
  /\ download[d].pc = "sent"
  /\ download' = [download EXCEPT ![d].pc = "idle"]
  /\ UNCHANGED <<worldVars, platformCerts, window, sentInWindow, started, notice,
                 request, owned, pins, believed>>

DownloadAnswered(d, es) ==
  /\ download[d].pc = "sent"
  /\ Alive
  /\ es \subseteq {e \in Listed : Delivered(e)}
  /\ download' = [download EXCEPT ![d] = [pc |-> "install", left |-> es]]
  /\ pins' = pins \cup {<<"download", d>>}
  /\ UNCHANGED <<worldVars, platformCerts, window, sentInWindow, started, notice,
                 request, owned, believed>>

(* The next element: decrypted, validated and filed under the cache's lock, or
   passed over. With an anchor its file may be unreadable. *)
Install(d, e) ==
  /\ download[d].pc = "install"
  /\ e \in download[d].left
  /\ \/ setPlatformCert(e)
     \/ /\ ~Installable(e) \/ Anchored
        /\ UNCHANGED platformCerts
  /\ download' = [download EXCEPT ![d].left = @ \ {e}]
  /\ UNCHANGED <<worldVars, window, sentInWindow, started, notice, request, owned,
                 pins, believed>>

DownloadDone(d) ==
  /\ download[d].pc = "install"
  /\ download[d].left = {}
  /\ download' = [download EXCEPT ![d].pc = "idle"]
  /\ pins' = pins \ {<<"download", d>>}
  /\ UNCHANGED <<worldVars, platformCerts, window, sentInWindow, started, notice,
                 request, owned, believed>>

-----------------------------------------------------------------------------
(* Which certificate may verify a message. *)

(* A deployed certificate serves only the serial it carries. *)
StaticServes(s) ==
  StaticCert # NoCert /\ certificateSerialHex(StaticCert) = normalizeSerialHex(s)

(* The certificate for a header's serial: from the cache, from the static file
   if it carries that serial, or none and a refresh. *)
resolveTrustedPlatformCert(s, cert) ==
  \/ s \in {Missing, TooLong} /\ cert = NoCert /\ UNCHANGED throttleVars
  \/ /\ s \in Spelling
     /\ getPlatformCert(s) # NoCert
     /\ cert = getPlatformCert(s)
     /\ UNCHANGED throttleVars
  \/ /\ s \in Spelling
     /\ getPlatformCert(s) = NoCert
     /\ \/ StaticCert # NoCert /\ cert = NoCert /\ UNCHANGED throttleVars   \* unreadable
        \/ /\ StaticServes(s)
           /\ cert = StaticCert
           /\ UNCHANGED throttleVars
        \/ /\ ~StaticServes(s)
           /\ cert = NoCert
           /\ downloadCertificates

(* A notification arrives while the services hold the client; one that is not
   taken stays due and comes again. *)
verifyCallback(n, m) ==
  /\ owned
  /\ notice[n].pc = "due"
  /\ m \in Traffic /\ Sent(m)
  /\ \/ /\ ~m.complete
        /\ UNCHANGED <<notice, pins, throttleVars>>
     \/ /\ m.complete
        /\ resolveTrustedPlatformCert(m.named, NoCert)
        /\ UNCHANGED <<notice, pins>>
     \/ /\ m.complete
        /\ \E c \in Certs :
             /\ resolveTrustedPlatformCert(m.named, c)
             /\ notice' = [notice EXCEPT ![n] = [pc |-> "verify", cert |-> c, msg |-> m]]
             /\ pins' = pins \cup {<<"notice", n>>}
  /\ UNCHANGED <<worldVars, platformCerts, started, request, owned, believed>>

(* The signature, then the body, its resource and their JSON. *)
VerifyNotice(n) ==
  /\ notice[n].pc = "verify"
  /\ pins' = pins \ {<<"notice", n>>}
  /\ LET m == notice[n].msg IN
       \/ /\ verifyMessageWithCert(m, notice[n].cert)
          /\ m.body = "good"
          /\ notice' = [notice EXCEPT ![n] = Idle("taken")]
          /\ believed' = believed \cup {m}
       \/ /\ ~verifyMessageWithCert(m, notice[n].cert) \/ m.body # "good"
          /\ notice' = [notice EXCEPT ![n] = Idle("due")]
          /\ UNCHANGED believed
  /\ UNCHANGED <<worldVars, platformCerts, throttleVars, started, request, owned>>

-----------------------------------------------------------------------------
(* Requests and their answers. *)

(* A request whose fields are there is signed and sent; a missing field or
   argument, or an unreadable key, is the caller's error. *)
Start(r, needs) ==
  /\ owned
  /\ request[r].pc = "idle"
  /\ \/ /\ needs \subseteq Configured /\ CanSign
        /\ request' = [request EXCEPT ![r].pc = "sent"]
     \/ request' = [request EXCEPT ![r].pc = "dropped"]
  /\ UNCHANGED <<worldVars, platformCerts, throttleVars, started, notice, owned,
                 pins, believed>>

createTransactionNative(r) == Start(r, {"app_id", "mch_id", "notify_url"})
queryTransaction(r) == Start(r, {"mch_id"})
closeTransaction(r) == Start(r, {"mch_id"})
refund(r) == Start(r, {})
queryRefund(r) == Start(r, {})

(* The timer of timeout_ms fired or the connection failed. *)
NoAnswer(r) ==
  /\ request[r].pc = "sent"
  /\ request' = [request EXCEPT ![r].pc = "dropped"]
  /\ UNCHANGED <<worldVars, platformCerts, throttleVars, started, notice, owned,
                 pins, believed>>

(* Mutant: the lock is a temporary, gone before the verification. *)
Answered_Unpinned(r, m) ==
  /\ request[r].pc = "sent"
  /\ m \in Traffic /\ Sent(m)
  /\ Alive /\ m.complete
  /\ \E c \in Certs :
       /\ resolveTrustedPlatformCert(m.named, c)
       /\ request' = [request EXCEPT ![r] = [pc |-> "verify", cert |-> c, msg |-> m]]
  /\ UNCHANGED <<worldVars, platformCerts, started, notice, owned, pins, believed>>

(* answerVerifier and verifyResponse, up to the certificate. The lock is kept
   for the whole verification. *)
Answered(r, m) ==
  /\ request[r].pc = "sent"
  /\ m \in Traffic /\ Sent(m)
  /\ \/ /\ ~Alive \/ ~m.complete
        /\ request' = [request EXCEPT ![r].pc = "dropped"]
        /\ UNCHANGED <<pins, throttleVars>>
     \/ /\ Alive /\ m.complete
        /\ resolveTrustedPlatformCert(m.named, NoCert)
        /\ request' = [request EXCEPT ![r].pc = "dropped"]
        /\ UNCHANGED pins
     \/ /\ Alive /\ m.complete
        /\ \E c \in Certs :
             /\ resolveTrustedPlatformCert(m.named, c)
             /\ request' = [request EXCEPT ![r] = [pc |-> "verify", cert |-> c, msg |-> m]]
             /\ pins' = pins \cup {<<"request", r>>}
  /\ UNCHANGED <<worldVars, platformCerts, started, notice, owned, believed>>

(* What the caller gets: the body, the error envelope, or an error alone. *)
Outcome(m) == CASE m.body = "good" -> "ok"
                [] m.body = "refusal" -> "refused"
                [] OTHER -> "dropped"

(* Mutant: only an answer that reads as a success has to be signed. *)
VerifyAnswer_OnlySuccess(r) ==
  /\ request[r].pc = "verify"
  /\ pins' = pins \ {<<"request", r>>}
  /\ LET m == request[r].msg
         o == IF m.body = "good" /\ ~verifyMessageWithCert(m, request[r].cert)
                THEN "dropped" ELSE Outcome(m)
     IN /\ request' = [request EXCEPT ![r] = Idle(o)]
        /\ believed' = IF o = "dropped" THEN believed ELSE believed \cup {m}
  /\ UNCHANGED <<worldVars, platformCerts, throttleVars, started, notice, owned>>

(* Mutant: an answer that does not verify is dropped in silence. *)
VerifyAnswer_Silent(r) ==
  /\ request[r].pc = "verify"
  /\ verifyMessageWithCert(request[r].msg, request[r].cert)
  /\ pins' = pins \ {<<"request", r>>}
  /\ request' = [request EXCEPT ![r] = Idle(Outcome(request[r].msg))]
  /\ UNCHANGED <<worldVars, platformCerts, throttleVars, started, notice, owned, believed>>

VerifyAnswer(r) ==
  /\ request[r].pc = "verify"
  /\ pins' = pins \ {<<"request", r>>}
  /\ LET m == request[r].msg
         o == IF verifyMessageWithCert(m, request[r].cert) THEN Outcome(m) ELSE "dropped"
     IN /\ request' = [request EXCEPT ![r] = Idle(o)]
        /\ believed' = IF o = "dropped" THEN believed ELSE believed \cup {m}
  /\ UNCHANGED <<worldVars, platformCerts, throttleVars, started, notice, owned>>

(* Registry, services and timer let go of the client. *)
Release ==
  /\ owned
  /\ owned' = FALSE
  /\ UNCHANGED <<worldVars, platformCerts, throttleVars, started, notice, request,
                 pins, believed>>

-----------------------------------------------------------------------------
Next ==
  \/ \E c \in Certs : Rotate(c) \/ Ages(c)
  \/ WindowOpens \/ onStart \/ Refresh \/ Release
  \/ \E d \in Downloads :
       \/ DownloadLost(d) \/ DownloadDone(d)
       \/ \E es \in SUBSET Listed : DownloadAnswered(d, es)
       \/ \E e \in Listed : Install(d, e)
  \/ \E n \in Notices :
       VerifyNotice(n) \/ \E m \in Traffic : verifyCallback(n, m)
  \/ \E r \in Requests :
       \/ createTransactionNative(r) \/ queryTransaction(r) \/ closeTransaction(r)
       \/ refund(r) \/ queryRefund(r) \/ NoAnswer(r) \/ VerifyAnswer(r)
       \/ \E m \in Traffic : Answered(r, m)

Spec == Init /\ [][Next]_vars

(* A request's timer fires (timeout_ms > 0) and its answer handler runs. *)
RequestFairness == \A r \in Requests : WF_vars(NoAnswer(r)) /\ WF_vars(VerifyAnswer(r))

ServedSpec == Spec /\ RequestFairness

(* Handlers run; the refresh timer fires; the throttle
   window passes; a download answered infinitely often is answered with the
   whole list infinitely often; WeChat keeps repeating a notification, signed
   with the certificate it signs with at the time. *)
Genuine(m) == m.signer = current /\ m.complete /\ m.body = "good"
                /\ m.named \in Spelling /\ m.named[1] = SerialOf[current]

WholeList == {e \in Listed : Installable(e) /\ e.cert \in published}

Fairness ==
  /\ WF_vars(WindowOpens)
  /\ WF_vars(Refresh /\ SendDownload)
  /\ \A d \in Downloads :
       /\ SF_vars(DownloadAnswered(d, WholeList))
       /\ \A e \in Listed : SF_vars(Install(d, e) /\ (Installable(e) => setPlatformCert(e)))
       /\ WF_vars(DownloadDone(d))
  /\ \A n \in Notices :
       /\ SF_vars(\E m \in Traffic : Genuine(m) /\ verifyCallback(n, m))
       /\ WF_vars(VerifyNotice(n))
  /\ RequestFairness

FairSpec == Spec /\ Fairness

-----------------------------------------------------------------------------
(* Properties. *)

(* Whatever the code believes - a notification handed to the callback service,
   an answer's body or the error code a refund is failed on - was signed with
   a certificate WeChat published, under the serial the message names. *)
BelievedIsSigned ==
  \A m \in believed : /\ m.signer \in published
                      /\ m.named \in Spelling
                      /\ normalizeSerialHex(m.named) = SerialOf[m.signer]

(* "Without this an expired platform certificate keeps verifying notifications
   forever": nothing new is believed on a certificate outside its validity,
   however long it has been cached. *)
BelievedWhileValid ==
  [][\A m \in believed' \ believed : age[m.signer] = "valid"]_vars

(* An answer cannot file one certificate under another one's name, and nothing
   but a published certificate is ever cached. *)
CacheIsGenuine ==
  \A s \in Serials : platformCerts[s] # NoCert =>
    platformCerts[s] \in published /\ SerialOf[platformCerts[s]] = s

(* Notifications, answers, the warm-up and the timer share one download window:
   it is spent by exactly one request, and by nothing that was not sent. *)
WindowSpentByOneRequest ==
  sentInWindow = IF window = "spent" THEN 1 ELSE 0

(* No handler is inside the client after the last owner let go of it. *)
NoUseAfterRelease ==
  (\/ \E d \in Downloads : download[d].pc = "install"
   \/ \E n \in Notices : notice[n].pc = "verify"
   \/ \E r \in Requests : request[r].pc = "verify") => Alive

(* "WeChat retries, and by then the certificate is cached": however the
   certificates rotate, a repeated notification is taken in the end, if the
   client is not torn down. *)
NoticeIsTaken ==
  \A n \in Notices : <>[]owned => <>(notice[n].pc = "taken")

(* Every request comes back to its caller, also when the client is gone before
   the answer. *)
RequestComesBack ==
  \A r \in Requests :
    request[r].pc = "sent" ~> request[r].pc \in {"ok", "refused", "dropped"}
=============================================================================
