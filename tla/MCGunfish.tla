------------------------------ MODULE MCGunfish -----------------------------
(* A small instance of the whole process for TLC. *)
EXTENDS GunfishProps, TLC

CONSTANTS c1, c2, n1, n2, w1, s1

JsonPost(path) ==
    [path |-> path, method |-> "POST", ctype |-> "json", body |-> "good", items |-> 1]
TwoPosts == (c1 :> JsonPost("/push/apns")) @@ (c2 :> JsonPost("/push/fcm/v1"))
TwoProviders == (n1 :> "apns") @@ (n2 :> "fcmv1")
OneEach == (c1 :> <<n1>>) @@ (c2 :> <<n2>>)
OkOrNot == (n1 :> {"ok", "expired"}) @@ (n2 :> {"ok"})
=============================================================================
