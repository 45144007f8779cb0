SPECIFICATION Spec
CONSTANTS
  t1 = t1  t2 = t2  p1 = p1  p2 = p2
  Threads = {t1, t2}
  Pids = {p1, p2}
  Volumes <- AskedVolumes
  MAX_APP_VOLUME_ENTRIES = 2
  IPC_RECONNECT_MAX_ATTEMPTS = 2
INVARIANT RegistryMirrorsList

