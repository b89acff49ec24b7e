--------------------------- MODULE MCRpcSession ---------------------------
EXTENDS RpcSession

AllOwners == {"usb", "uart", "ble"}
===========================================================================
