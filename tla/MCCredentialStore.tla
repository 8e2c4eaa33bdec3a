------------------------- MODULE MCCredentialStore -------------------------
(* A small instance of CredentialStore for TLC.                             *)
EXTENDS CredentialStore

CONSTANTS a, b, h, i

\* The saved pairing has no address, or three, two of them names; the journal
\* answers with a new one.
MCListings == {<<b>>}
MCStartEndpoints == {<<>>, <<h, a, i>>}
=============================================================================
