SPECIFICATION ConnSpec
CONSTANTS
  Conns = {"video", "page"}
  EventConns = {"page"}
  SessionOf <- ConnSessionOf
  DeviceOf <- ConnDeviceOf
  AddressOf <- ConnAddressOf
  Revokers = {"request"}
  MaxWithdrawn = 1
INVARIANT KickCloses
CHECK_DEADLOCK FALSE
