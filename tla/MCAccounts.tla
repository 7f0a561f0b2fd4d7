----------------------------- MODULE MCAccounts -----------------------------
EXTENDS Accounts
MCPrincipals == {<<"ann", "s1">>, <<"bob", "s1">>, <<"bob", "s2">>}
=============================================================================
