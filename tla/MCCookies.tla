------------------------------ MODULE MCCookies ------------------------------
EXTENDS Cookies, TLC
Symmetry == Permutations(Tabs)

\* Names that are apart; "login" is the beginning of "loginTime".
Apart   == [n \in CookieNames |-> {n}]
LoginTime == [n \in CookieNames |-> IF n = "loginTime" THEN {"login", "loginTime"} ELSE {n}]
=============================================================================
