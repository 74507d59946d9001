------------------------------- MODULE MCSasl -------------------------------
EXTENDS Sasl

MCSecret == [bob |-> "secret of bob", admin |-> "secret of admin"]
MCClaims == {<<"admin", "bob">>, <<"bob", None>>}
MCAdmits == {"admin", None}
MCOddities == [m \in Challenging |-> IF m = "DIGEST-MD5" THEN {"nc"} ELSE {}]
=============================================================================
