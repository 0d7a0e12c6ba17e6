------------------------- MODULE WechatChannelProofs -------------------------
(***************************************************************************)
(* The safety properties of WechatChannel for every set of certificates,   *)
(* messages, certificate answers and handlers.                             *)
(***************************************************************************)
EXTENDS WechatChannel, TLAPS

(* A handler between lookup and verification has a certificate WeChat issued,
   under the serial its message names. *)
Matches(cert, m) ==
  /\ cert \in Issued
  /\ m.named \in Spelling
  /\ SerialOf[cert] = m.named[1]
  /\ Sent(m)

NoticesHeld ==
  \A n \in Notices : notice[n].pc = "verify" =>
    Matches(notice[n].cert, notice[n].msg) /\ <<"notice", n>> \in pins

RequestsHeld ==
  \A r \in Requests : request[r].pc = "verify" =>
    Matches(request[r].cert, request[r].msg) /\ <<"request", r>> \in pins

DownloadsHeld ==
  \A d \in Downloads : download[d].pc = "install" =>
    /\ <<"download", d>> \in pins
    /\ \A e \in download[d].left : Delivered(e)

(* The inductive invariant. The cache is genuine because the elements left to
   install are ones that could be delivered; what is believed is signed because
   a handler keeps the certificate it was given for the serial it asked for. *)
IInv ==
  /\ TypeOK
  /\ CacheIsGenuine
  /\ NoticesHeld
  /\ RequestsHeld
  /\ DownloadsHeld
  /\ BelievedIsSigned
  /\ WindowSpentByOneRequest

(* The initial states satisfy the inductive invariant. *)
LEMMA InitIInv == Init => IInv
<1> SUFFICES ASSUME Init PROVE IInv
  OBVIOUS
<1> USE ChannelAssumption DEF Init
<1>1. NoMessage \in Message
  BY DEF NoMessage, Message, Certs
<1>2. TypeOK
  <2>1. age \in [Certs -> {"early", "valid", "expired"}]
    OBVIOUS
  <2>2. published \subseteq Issued /\ current \in published
    OBVIOUS
  <2>3. notice \in [Notices -> [pc: {"due", "verify", "taken"},
                                cert: Certs \cup {NoCert}, msg: Message]]
    BY <1>1 DEF Idle
  <2>4. request \in [Requests -> [pc: {"idle", "sent", "verify", "ok", "refused", "dropped"},
                                  cert: Certs \cup {NoCert}, msg: Message]]
    BY <1>1 DEF Idle
  <2> QED
    BY <2>1, <2>2, <2>3, <2>4 DEF TypeOK
<1>3. CacheIsGenuine
  BY DEF CacheIsGenuine
<1>4. NoticesHeld /\ RequestsHeld /\ DownloadsHeld
  BY DEF NoticesHeld, RequestsHeld, DownloadsHeld, Idle
<1>5. BelievedIsSigned /\ WindowSpentByOneRequest
  BY DEF BelievedIsSigned, WindowSpentByOneRequest
<1> QED
  BY <1>2, <1>3, <1>4, <1>5 DEF IInv

(* A certificate whose printed serial spells one at all carries that one. *)
LEMMA PrintedIsOwn ==
  ASSUME NEW c \in Certs, certificateSerialHex(c) \in Serials
  PROVE  SerialOf[c] = certificateSerialHex(c)
<1>1. SerialOf[c] \in Serials /\ NoSerial \notin Serials
  BY ChannelAssumption
<1>2. certificateSerialHex(c) = Printed[SerialOf[c]]
  BY DEF certificateSerialHex, normalizeSerialHex
<1> QED
  BY <1>1, <1>2, PrintAssumption

(* What a lookup hands out carries the serial asked for (and is issued): the
   cache is genuine, and the deployed certificate serves only its own serial. *)
LEMMA ResolvedMatches ==
  ASSUME IInv, NEW m \in Message, NEW c \in Certs, Sent(m),
         resolveTrustedPlatformCert(m.named, c)
  PROVE  Matches(c, m)
<1> USE ChannelAssumption
<1>1. c # NoCert
  BY DEF Certs
<1>2. m.named \in Spelling
  BY <1>1 DEF resolveTrustedPlatformCert
<1>3. m.named[1] \in Serials
  BY <1>2 DEF Spelling
<1>4. CASE getPlatformCert(m.named) # NoCert
  <2>1. c = platformCerts[m.named[1]]
    BY <1>1, <1>2, <1>4 DEF resolveTrustedPlatformCert, getPlatformCert, normalizeSerialHex
  <2>2. c \in published /\ SerialOf[c] = m.named[1]
    BY <1>1, <1>3, <2>1 DEF IInv, CacheIsGenuine
  <2> QED
    BY <1>2, <2>2 DEF Matches, IInv, TypeOK
<1>5. CASE getPlatformCert(m.named) = NoCert
  <2>1. StaticServes(m.named) /\ c = StaticCert
    BY <1>1, <1>2, <1>5 DEF resolveTrustedPlatformCert, Missing, TooLong
  <2>2. c \in Issued /\ certificateSerialHex(c) = m.named[1]
    BY <1>1, <2>1 DEF StaticServes, normalizeSerialHex
  <2>3. SerialOf[c] = m.named[1]
    BY <1>3, <2>2, PrintedIsOwn
  <2> QED
    BY <1>2, <2>2, <2>3 DEF Matches
<1> QED
  BY <1>4, <1>5

(* A lookup, whatever it hands out, at most sends one download, and only when
   the window was open. *)
LEMMA LookupThrottled ==
  ASSUME NEW s, NEW c, resolveTrustedPlatformCert(s, c)
  PROVE  downloadCertificates
BY DEF resolveTrustedPlatformCert, downloadCertificates

(* The parts of the invariant about downloads survive a throttled download
   that no handler's pin is lost by. *)
LEMMA ThrottleKeeps ==
  ASSUME IInv, downloadCertificates, pins \subseteq pins', UNCHANGED <<published>>
  PROVE  /\ window' \in {"open", "spent"}
         /\ sentInWindow' \in Nat
         /\ download' \in [Downloads -> [pc: {"idle", "sent", "install"}, left: SUBSET Entry]]
         /\ DownloadsHeld'
         /\ WindowSpentByOneRequest'
<1> USE DEF IInv, TypeOK, WindowSpentByOneRequest
<1>1. CASE UNCHANGED throttleVars
  BY <1>1 DEF throttleVars, DownloadsHeld, Delivered
<1>2. CASE SendDownload
  <2>1. PICK d \in Downloads : /\ download[d].pc = "idle"
                               /\ download' = [download EXCEPT ![d].pc = "sent"]
    BY <1>2 DEF SendDownload
  <2>2. window' = "spent" /\ window = "open" /\ sentInWindow' = sentInWindow + 1
    BY <1>2 DEF SendDownload
  <2>3. DownloadsHeld'
    BY <2>1 DEF DownloadsHeld, Delivered
  <2>4. download' \in [Downloads -> [pc: {"idle", "sent", "install"}, left: SUBSET Entry]]
    BY <2>1
  <2> QED
    BY <2>2, <2>3, <2>4
<1> QED
  BY <1>1, <1>2 DEF downloadCertificates

(* A rotation only adds to what is published. *)
LEMMA RotateKeeps ==
  ASSUME IInv, NEW c \in Certs, Rotate(c)
  PROVE  IInv'
<1> USE DEF Rotate, IInv, throttleVars
<1>1. TypeOK'
  BY DEF TypeOK
<1>2. CacheIsGenuine'
  BY DEF CacheIsGenuine
<1>3. NoticesHeld' /\ RequestsHeld'
  BY DEF NoticesHeld, RequestsHeld, Matches, Sent
<1>4. DownloadsHeld'
  BY DEF DownloadsHeld, Delivered
<1>5. BelievedIsSigned' /\ WindowSpentByOneRequest'
  BY DEF BelievedIsSigned, WindowSpentByOneRequest
<1> QED
  BY <1>1, <1>2, <1>3, <1>4, <1>5

(* Time changes no row of the cache and no pending handler. *)
LEMMA AgesKeeps ==
  ASSUME IInv, NEW c \in Certs, Ages(c)
  PROVE  IInv'
<1> USE DEF Ages, IInv, throttleVars
<1>1. TypeOK'
  BY DEF TypeOK
<1>2. CacheIsGenuine' /\ BelievedIsSigned' /\ WindowSpentByOneRequest'
  BY DEF CacheIsGenuine, BelievedIsSigned, WindowSpentByOneRequest
<1>3. NoticesHeld' /\ RequestsHeld' /\ DownloadsHeld'
  BY DEF NoticesHeld, RequestsHeld, DownloadsHeld, Matches, Sent, Delivered
<1> QED
  BY <1>1, <1>2, <1>3

(* The window opens with its count at zero. *)
LEMMA WindowOpensKeeps ==
  ASSUME IInv, WindowOpens
  PROVE  IInv'
<1> USE DEF WindowOpens, IInv, worldVars
<1>1. TypeOK'
  BY DEF TypeOK
<1>2. CacheIsGenuine' /\ BelievedIsSigned' /\ WindowSpentByOneRequest'
  BY DEF CacheIsGenuine, BelievedIsSigned, WindowSpentByOneRequest
<1>3. NoticesHeld' /\ RequestsHeld' /\ DownloadsHeld'
  BY DEF NoticesHeld, RequestsHeld, DownloadsHeld, Matches, Sent, Delivered
<1> QED
  BY <1>1, <1>2, <1>3

(* The warm-up and the timer at most send one download. *)
LEMMA RefreshKeeps ==
  ASSUME IInv, onStart \/ Refresh
  PROVE  IInv'
<1> USE DEF onStart, Refresh, IInv, worldVars
<1>1. /\ window' \in {"open", "spent"}
      /\ sentInWindow' \in Nat
      /\ download' \in [Downloads -> [pc: {"idle", "sent", "install"}, left: SUBSET Entry]]
      /\ DownloadsHeld'
      /\ WindowSpentByOneRequest'
  BY ThrottleKeeps
<1>2. TypeOK'
  BY <1>1 DEF TypeOK
<1>3. CacheIsGenuine' /\ BelievedIsSigned'
  BY DEF CacheIsGenuine, BelievedIsSigned
<1>4. NoticesHeld' /\ RequestsHeld'
  BY DEF NoticesHeld, RequestsHeld, Matches, Sent
<1> QED
  BY <1>1, <1>2, <1>3, <1>4

(* Letting go of the client takes no pin away. *)
LEMMA ReleaseKeeps ==
  ASSUME IInv, Release
  PROVE  IInv'
<1> USE DEF Release, IInv, worldVars, throttleVars
<1>1. TypeOK'
  BY DEF TypeOK
<1>2. CacheIsGenuine' /\ BelievedIsSigned' /\ WindowSpentByOneRequest'
  BY DEF CacheIsGenuine, BelievedIsSigned, WindowSpentByOneRequest
<1>3. NoticesHeld' /\ RequestsHeld' /\ DownloadsHeld'
  BY DEF NoticesHeld, RequestsHeld, DownloadsHeld, Matches, Sent, Delivered
<1> QED
  BY <1>1, <1>2, <1>3

(* An answer is taken only while the client can be pinned, and the pin goes
   when nothing is left to install. *)
LEMMA DownloadKeeps ==
  ASSUME IInv, NEW d \in Downloads, \/ DownloadLost(d) \/ DownloadDone(d)
                              \/ \E es \in SUBSET Listed : DownloadAnswered(d, es)
  PROVE  IInv'
<1> USE ChannelAssumption DEF IInv, worldVars
<1>1. TypeOK'
  <2>1. CASE DownloadLost(d)
    BY <2>1 DEF DownloadLost, TypeOK
  <2>2. CASE DownloadDone(d)
    BY <2>2 DEF DownloadDone, TypeOK
  <2>3. CASE \E es \in SUBSET Listed : DownloadAnswered(d, es)
    BY <2>3 DEF DownloadAnswered, TypeOK, Handlers
  <2> QED
    BY <2>1, <2>2, <2>3
<1>2. CacheIsGenuine' /\ BelievedIsSigned' /\ WindowSpentByOneRequest'
  BY DEF DownloadLost, DownloadDone, DownloadAnswered,
         CacheIsGenuine, BelievedIsSigned, WindowSpentByOneRequest
<1>3. NoticesHeld' /\ RequestsHeld'
  BY DEF DownloadLost, DownloadDone, DownloadAnswered,
         NoticesHeld, RequestsHeld, Matches, Sent
<1>4. DownloadsHeld'
  <2>1. CASE DownloadLost(d)
    BY <2>1 DEF DownloadLost, DownloadsHeld, TypeOK, Delivered
  <2>2. CASE DownloadDone(d)
    BY <2>2 DEF DownloadDone, DownloadsHeld, TypeOK, Delivered
  <2>3. CASE \E es \in SUBSET Listed : DownloadAnswered(d, es)
    BY <2>3 DEF DownloadAnswered, DownloadsHeld, TypeOK, Delivered
  <2> QED
    BY <2>1, <2>2, <2>3
<1> QED
  BY <1>1, <1>2, <1>3, <1>4

(* What is filed was delivered, proves itself by its seal or by the anchor, and
   goes under the serial inside it. *)
LEMMA InstallKeeps ==
  ASSUME IInv, NEW d \in Downloads, NEW e \in Listed, Install(d, e)
  PROVE  IInv'
<1> USE ChannelAssumption DEF IInv, worldVars, Install
<1>1. e \in Entry /\ Delivered(e)
  BY DEF DownloadsHeld
<1>4. CacheIsGenuine' /\ platformCerts' \in [Serials -> Certs \cup {NoCert}]
  <2>1. CASE setPlatformCert(e)
    <3>1. e.cert \in Certs
      BY <1>1, <2>1 DEF setPlatformCert, Installable, Entry
    <3>2. e.claims \in Spelling /\ certificateSerialHex(e.cert) = e.claims[1]
      BY <1>1, <2>1 DEF setPlatformCert, Installable, Entry, normalizeSerialHex
    <3>a. SerialOf[e.cert] \in Serials /\ SerialOf[e.cert] = certificateSerialHex(e.cert)
      BY <3>1, <3>2, PrintedIsOwn DEF Spelling
    <3>3. platformCerts' = [platformCerts EXCEPT ![SerialOf[e.cert]] = e.cert]
      BY <2>1, <3>a DEF setPlatformCert
    <3>4. e.cert \in Issued
      BY <1>1, <2>1, <3>1, TrustAssumption
      DEF setPlatformCert, Installable, decryptResource, chainsToConfiguredAnchors, Delivered
    <3>5. e.cert \in published
      BY <1>1, <3>4 DEF Delivered
    <3>6. CacheIsGenuine'
      BY <3>a, <3>3, <3>5 DEF CacheIsGenuine, TypeOK
    <3>7. platformCerts' \in [Serials -> Certs \cup {NoCert}]
      BY <3>1, <3>a, <3>3 DEF TypeOK
    <3> QED
      BY <3>6, <3>7
  <2>2. CASE UNCHANGED platformCerts
    BY <2>2 DEF CacheIsGenuine, TypeOK
  <2> QED
    BY <2>1, <2>2
<1>5. TypeOK'
  BY <1>4 DEF TypeOK
<1>6. NoticesHeld' /\ RequestsHeld'
  BY DEF NoticesHeld, RequestsHeld, Matches, Sent
<1>7. DownloadsHeld'
  BY DEF DownloadsHeld, TypeOK, Delivered
<1>8. BelievedIsSigned' /\ WindowSpentByOneRequest'
  BY DEF BelievedIsSigned, WindowSpentByOneRequest
<1> QED
  BY <1>4, <1>5, <1>6, <1>7, <1>8

(* A notification's handler keeps the certificate it was given, and a pin. *)
LEMMA CallbackKeeps ==
  ASSUME IInv, NEW n \in Notices, NEW m \in Traffic, verifyCallback(n, m)
  PROVE  IInv'
<1> USE ChannelAssumption DEF worldVars
<1>1. downloadCertificates /\ pins \subseteq pins'
  BY LookupThrottled DEF verifyCallback, downloadCertificates
<1>2. /\ window' \in {"open", "spent"}
      /\ sentInWindow' \in Nat
      /\ download' \in [Downloads -> [pc: {"idle", "sent", "install"}, left: SUBSET Entry]]
      /\ DownloadsHeld'
      /\ WindowSpentByOneRequest'
  BY <1>1, ThrottleKeeps DEF verifyCallback
<1>3. CASE UNCHANGED <<notice, pins>>
  <2>1. TypeOK'
    BY <1>2, <1>3 DEF verifyCallback, IInv, TypeOK
  <2>2. CacheIsGenuine' /\ BelievedIsSigned'
    BY DEF verifyCallback, IInv, CacheIsGenuine, BelievedIsSigned
  <2>3. NoticesHeld' /\ RequestsHeld'
    BY <1>3 DEF verifyCallback, IInv, NoticesHeld, RequestsHeld, Matches, Sent
  <2> QED
    BY <1>2, <2>1, <2>2, <2>3 DEF IInv
<1>4. CASE \E c \in Certs :
             /\ resolveTrustedPlatformCert(m.named, c)
             /\ notice' = [notice EXCEPT ![n] = [pc |-> "verify", cert |-> c, msg |-> m]]
             /\ pins' = pins \cup {<<"notice", n>>}
  <2>1. PICK c \in Certs :
             /\ resolveTrustedPlatformCert(m.named, c)
             /\ notice' = [notice EXCEPT ![n] = [pc |-> "verify", cert |-> c, msg |-> m]]
             /\ pins' = pins \cup {<<"notice", n>>}
    BY <1>4
  <2>2. Matches(c, m)
    BY <2>1, ResolvedMatches DEF verifyCallback
  <2>3. TypeOK'
    BY <1>2, <2>1 DEF verifyCallback, IInv, TypeOK, Handlers
  <2>4. CacheIsGenuine' /\ BelievedIsSigned'
    BY DEF verifyCallback, IInv, CacheIsGenuine, BelievedIsSigned
  <2>5. NoticesHeld'
    BY <2>1, <2>2 DEF verifyCallback, IInv, TypeOK, NoticesHeld, Matches, Sent
  <2>6. RequestsHeld'
    BY <2>1 DEF verifyCallback, IInv, RequestsHeld, Matches, Sent
  <2> QED
    BY <1>2, <2>3, <2>4, <2>5, <2>6 DEF IInv
<1> QED
  BY <1>3, <1>4 DEF verifyCallback

(* What a notification's handler believes is signed by the certificate it
   holds, whose serial the message names. *)
LEMMA NoticeKeeps ==
  ASSUME IInv, NEW n \in Notices, VerifyNotice(n)
  PROVE  IInv'
<1> USE ChannelAssumption DEF IInv, worldVars, throttleVars
<1>1. NoMessage \in Message
  BY DEF NoMessage, Message, Certs
<1>2. TypeOK'
  BY <1>1 DEF VerifyNotice, TypeOK, Idle
<1>3. CacheIsGenuine' /\ WindowSpentByOneRequest'
  BY DEF VerifyNotice, CacheIsGenuine, WindowSpentByOneRequest
<1>4. NoticesHeld'
  BY DEF VerifyNotice, NoticesHeld, TypeOK, Matches, Sent, Idle
<1>5. RequestsHeld' /\ DownloadsHeld'
  BY DEF VerifyNotice, RequestsHeld, DownloadsHeld, Matches, Sent, Delivered
<1>6. BelievedIsSigned'
  BY DEF VerifyNotice, NoticesHeld, BelievedIsSigned, verifyMessageWithCert, Matches, Sent,
         normalizeSerialHex
<1> QED
  BY <1>2, <1>3, <1>4, <1>5, <1>6

(* Starting a request, or giving it up, touches nothing it is verified by. *)
LEMMA StartKeeps ==
  ASSUME IInv, NEW r \in Requests, NEW needs, Start(r, needs) \/ NoAnswer(r)
  PROVE  IInv'
<1> USE DEF Start, NoAnswer, IInv, worldVars, throttleVars
<1>1. TypeOK'
  BY DEF TypeOK
<1>2. CacheIsGenuine' /\ BelievedIsSigned' /\ WindowSpentByOneRequest'
  BY DEF CacheIsGenuine, BelievedIsSigned, WindowSpentByOneRequest
<1>3. NoticesHeld' /\ DownloadsHeld'
  BY DEF NoticesHeld, DownloadsHeld, Matches, Sent, Delivered
<1>4. RequestsHeld'
  BY DEF RequestsHeld, TypeOK, Matches, Sent
<1> QED
  BY <1>1, <1>2, <1>3, <1>4

(* An answer's handler keeps the certificate it was given, and a pin. *)
LEMMA AnsweredKeeps ==
  ASSUME IInv, NEW r \in Requests, NEW m \in Traffic, Answered(r, m)
  PROVE  IInv'
<1> USE ChannelAssumption DEF worldVars
<1>1. downloadCertificates /\ pins \subseteq pins'
  BY LookupThrottled DEF Answered, downloadCertificates
<1>2. /\ window' \in {"open", "spent"}
      /\ sentInWindow' \in Nat
      /\ download' \in [Downloads -> [pc: {"idle", "sent", "install"}, left: SUBSET Entry]]
      /\ DownloadsHeld'
      /\ WindowSpentByOneRequest'
  BY <1>1, ThrottleKeeps DEF Answered
<1>3. CASE request' = [request EXCEPT ![r].pc = "dropped"] /\ UNCHANGED pins
  <2>0. request' \in [Requests -> [pc: {"idle", "sent", "verify", "ok", "refused", "dropped"},
                                   cert: Certs \cup {NoCert}, msg: Message]]
    BY <1>3 DEF IInv, TypeOK
  <2>1. TypeOK'
    BY <1>2, <1>3, <2>0 DEF Answered, IInv, TypeOK
  <2>2. CacheIsGenuine' /\ BelievedIsSigned'
    BY DEF Answered, IInv, CacheIsGenuine, BelievedIsSigned
  <2>3. NoticesHeld'
    BY <1>3 DEF Answered, IInv, NoticesHeld, Matches, Sent
  <2>4. RequestsHeld'
    BY <1>3 DEF Answered, IInv, TypeOK, RequestsHeld, Matches, Sent
  <2> QED
    BY <1>2, <2>1, <2>2, <2>3, <2>4 DEF IInv
<1>4. CASE \E c \in Certs :
             /\ resolveTrustedPlatformCert(m.named, c)
             /\ request' = [request EXCEPT ![r] = [pc |-> "verify", cert |-> c, msg |-> m]]
             /\ pins' = pins \cup {<<"request", r>>}
  <2>1. PICK c \in Certs :
             /\ resolveTrustedPlatformCert(m.named, c)
             /\ request' = [request EXCEPT ![r] = [pc |-> "verify", cert |-> c, msg |-> m]]
             /\ pins' = pins \cup {<<"request", r>>}
    BY <1>4
  <2>2. Matches(c, m)
    BY <2>1, ResolvedMatches DEF Answered
  <2>3. TypeOK'
    BY <1>2, <2>1 DEF Answered, IInv, TypeOK, Handlers
  <2>4. CacheIsGenuine' /\ BelievedIsSigned'
    BY DEF Answered, IInv, CacheIsGenuine, BelievedIsSigned
  <2>5. NoticesHeld'
    BY <2>1 DEF Answered, IInv, NoticesHeld, Matches, Sent
  <2>6. RequestsHeld'
    BY <2>1, <2>2 DEF Answered, IInv, TypeOK, RequestsHeld, Matches, Sent
  <2> QED
    BY <1>2, <2>3, <2>4, <2>5, <2>6 DEF IInv
<1> QED
  BY <1>3, <1>4 DEF Answered

(* What an answer's handler believes is signed by the certificate it holds. *)
LEMMA AnswerKeeps ==
  ASSUME IInv, NEW r \in Requests, VerifyAnswer(r)
  PROVE  IInv'
<1> USE ChannelAssumption DEF IInv, worldVars, throttleVars
<1>1. NoMessage \in Message
  BY DEF NoMessage, Message, Certs
<1>2. TypeOK'
  BY <1>1 DEF VerifyAnswer, TypeOK, Idle, Outcome
<1>3. CacheIsGenuine' /\ WindowSpentByOneRequest'
  BY DEF VerifyAnswer, CacheIsGenuine, WindowSpentByOneRequest
<1>4. RequestsHeld'
  BY DEF VerifyAnswer, RequestsHeld, TypeOK, Matches, Sent, Idle, Outcome
<1>5. NoticesHeld' /\ DownloadsHeld'
  BY DEF VerifyAnswer, NoticesHeld, DownloadsHeld, Matches, Sent, Delivered
<1>6. BelievedIsSigned'
  BY DEF VerifyAnswer, RequestsHeld, BelievedIsSigned, verifyMessageWithCert, Matches, Sent,
         normalizeSerialHex
<1> QED
  BY <1>2, <1>3, <1>4, <1>5, <1>6

(* Every step keeps the inductive invariant. *)
LEMMA NextIInv == IInv /\ [Next]_vars => IInv'
<1> SUFFICES ASSUME IInv, [Next]_vars PROVE IInv'
  OBVIOUS
<1>1. CASE UNCHANGED vars
  BY <1>1 DEF vars, worldVars, throttleVars, IInv, TypeOK, CacheIsGenuine, NoticesHeld,
              RequestsHeld, DownloadsHeld, BelievedIsSigned, WindowSpentByOneRequest,
              Matches, Sent, Delivered
<1>2. CASE \E c \in Certs : Rotate(c) \/ Ages(c)
  BY <1>2, RotateKeeps, AgesKeeps
<1>3. CASE WindowOpens \/ onStart \/ Refresh \/ Release
  BY <1>3, WindowOpensKeeps, RefreshKeeps, ReleaseKeeps
<1>4. CASE \E d \in Downloads :
             \/ DownloadLost(d) \/ DownloadDone(d)
             \/ \E es \in SUBSET Listed : DownloadAnswered(d, es)
             \/ \E e \in Listed : Install(d, e)
  BY <1>4, DownloadKeeps, InstallKeeps
<1>5. CASE \E n \in Notices :
             VerifyNotice(n) \/ \E m \in Traffic : verifyCallback(n, m)
  BY <1>5, NoticeKeeps, CallbackKeeps
<1>6. CASE \E r \in Requests :
             \/ createTransactionNative(r) \/ queryTransaction(r) \/ closeTransaction(r)
             \/ refund(r) \/ queryRefund(r) \/ NoAnswer(r) \/ VerifyAnswer(r)
             \/ \E m \in Traffic : Answered(r, m)
  <2>1. PICK r \in Requests :
             \/ createTransactionNative(r) \/ queryTransaction(r) \/ closeTransaction(r)
             \/ refund(r) \/ queryRefund(r) \/ NoAnswer(r) \/ VerifyAnswer(r)
             \/ \E m \in Traffic : Answered(r, m)
    BY <1>6
  <2>2. CASE \E needs : Start(r, needs) \/ NoAnswer(r)
    BY <2>2, StartKeeps
  <2>3. CASE VerifyAnswer(r) \/ \E m \in Traffic : Answered(r, m)
    BY <2>3, AnswerKeeps, AnsweredKeeps
  <2> QED
    BY <2>1, <2>2, <2>3 DEF createTransactionNative, queryTransaction, closeTransaction,
                            refund, queryRefund
<1> QED
  BY <1>1, <1>2, <1>3, <1>4, <1>5, <1>6 DEF Next

(* The inductive invariant holds in every reachable state. *)
THEOREM ChannelInvariant == Spec => []IInv
  BY InitIInv, NextIInv, PTL DEF Spec

(* The state keeps its type. *)
THEOREM ChannelTypeOK == Spec => []TypeOK
<1>1. IInv => TypeOK
  BY DEF IInv
<1> QED
  BY <1>1, ChannelInvariant, PTL

(* What the services act on was signed with a published certificate under the
   serial the message names: in notifications, in answers and in refusals. *)
THEOREM ChannelBelieves == Spec => []BelievedIsSigned
<1>1. IInv => BelievedIsSigned
  BY DEF IInv
<1> QED
  BY <1>1, ChannelInvariant, PTL

(* The cache holds published certificates, each under its own serial, if the
   seal or the anchor can be trusted. *)
THEOREM ChannelCache == Spec => []CacheIsGenuine
<1>1. IInv => CacheIsGenuine
  BY DEF IInv
<1> QED
  BY <1>1, ChannelInvariant, PTL

(* One request, and nothing else, spends the shared download window. *)
THEOREM ChannelWindow == Spec => []WindowSpentByOneRequest
<1>1. IInv => WindowSpentByOneRequest
  BY DEF IInv
<1> QED
  BY <1>1, ChannelInvariant, PTL

(* No handler is inside a client that everyone has let go of. *)
THEOREM ChannelLifetime == Spec => []NoUseAfterRelease
<1>1. IInv => NoUseAfterRelease
  BY DEF IInv, NoUseAfterRelease, DownloadsHeld, NoticesHeld, RequestsHeld, Alive
<1> QED
  BY <1>1, ChannelInvariant, PTL

(* Nothing new is believed on a certificate outside its validity. *)
THEOREM ChannelValidity == Spec => BelievedWhileValid
<1> DEFINE Fresh == \A m \in believed' \ believed : age[m.signer] = "valid"
<1>1. [Next]_vars => [Fresh]_vars
  <2> SUFFICES ASSUME Next PROVE Fresh \/ UNCHANGED vars
    OBVIOUS
  <2>1. CASE UNCHANGED believed
    BY <2>1
  <2>2. CASE \E n \in Notices : VerifyNotice(n)
    BY <2>2 DEF VerifyNotice, verifyMessageWithCert, isWithinValidity
  <2>3. CASE \E r \in Requests : VerifyAnswer(r)
    BY <2>3 DEF VerifyAnswer, verifyMessageWithCert, isWithinValidity
  <2>4. UNCHANGED believed \/ (\E n \in Notices : VerifyNotice(n))
                          \/ (\E r \in Requests : VerifyAnswer(r))
    BY DEF Next, Rotate, Ages, WindowOpens, onStart, Refresh, Release, DownloadLost,
           DownloadDone, DownloadAnswered, Install, verifyCallback, createTransactionNative,
           queryTransaction, closeTransaction, refund, queryRefund, Start, NoAnswer, Answered
  <2> QED
    BY <2>1, <2>2, <2>3, <2>4
<1> QED
  BY <1>1, PTL DEF Spec, BelievedWhileValid
=============================================================================
