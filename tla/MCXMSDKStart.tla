----------------------------- MODULE MCXMSDKStart ----------------------------
EXTENDS XMSDKStart
=============================================================================
