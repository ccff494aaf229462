------------------------------ MODULE MCFirmware ------------------------------
EXTENDS Firmware

CONSTANTS b1, b2, b3, b4, b5

MCBuffers == {b1, b2, b3, b4, b5}
=============================================================================
