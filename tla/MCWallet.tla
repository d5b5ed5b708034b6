------------------------------ MODULE MCWallet ------------------------------
EXTENDS Wallet
=============================================================================
