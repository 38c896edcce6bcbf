------------------------------ MODULE MCFlashBus -----------------------------
(* Bounds for FlashBus: frames of up to the 16 bytes of CMD_TRANSCEIVE.    *)
EXTENDS FlashBus
=============================================================================
