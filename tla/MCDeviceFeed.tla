------------------------------ MODULE MCDeviceFeed ------------------------------
(* DeviceFeed on a small instance: every backend, two places on the bus.     *)
EXTENDS DeviceFeed

MCBackends == {"nusb", "hotplug", "polling"}
================================================================================
