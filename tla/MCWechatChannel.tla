--------------------------- MODULE MCWechatChannel ---------------------------
(* Small instances of WechatChannel: WeChat rotates from one of two
   certificates to the other; a foreign certificate carries the serial of the
   second one. *)
EXTENDS WechatChannel

CONSTANTS c1, c2, f, s1, s2, n1, r1, d1

MCSerialOf == [c \in {c1, c2, f} |-> IF c = c1 THEN s1 ELSE s2]

(* Serials below ten, as the tests' certificates have, and WeChat's. *)
ShortSerials == [s \in {s1, s2} |-> s]
WechatSerials == [s \in {s1, s2} |-> NoSerial]

Says(named, signer, body) ==
  [named |-> named, signer |-> signer, complete |-> TRUE, body |-> body]

(* What WeChat sends, with either spelling, a message of another signer, one
   that names another certificate than its signer, and headers that are
   missing or too long. *)
MCTraffic ==
  {Says(<<s1, "plain">>, c1, "good"), Says(<<s2, "padded">>, c2, "good"),
   Says(<<s2, "plain">>, f, "refusal"), Says(<<s1, "plain">>, c2, "refusal"),
   Says(TooLong, c1, "good"), Says(<<s1, "plain">>, c1, "malformed"),
   [Says(<<s2, "plain">>, NoCert, "good") EXCEPT !.complete = FALSE]}

(* The two certificates, one of them filed under the other's serial, and the
   foreign one. *)
MCListed ==
  {[claims |-> <<s1, "plain">>, cert |-> c1, sealed |-> TRUE],
   [claims |-> <<s2, "plain">>, cert |-> c2, sealed |-> TRUE],
   [claims |-> <<s1, "padded">>, cert |-> c2, sealed |-> TRUE],
   [claims |-> <<s2, "plain">>, cert |-> f, sealed |-> TRUE]}

(* Enough to rotate: each certificate's message, with one unsigned. *)
LiveTraffic ==
  {Says(<<s1, "plain">>, c1, "good"), Says(<<s2, "padded">>, c2, "good"),
   Says(<<s2, "plain">>, NoCert, "good")}

LiveListed == {e \in MCListed : e.cert # f /\ e.claims[2] = "plain"}
=============================================================================
