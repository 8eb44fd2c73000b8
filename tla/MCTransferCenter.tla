------------------------- MODULE MCTransferCenter -------------------------
EXTENDS TransferCenter
=============================================================================
